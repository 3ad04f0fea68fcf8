------------------------ MODULE SocketPlugin_proofs ------------------------
(***************************************************************************)
(* Theorems about SocketPlugin, for any sockets and descriptors.  Its      *)
(* state keeps its type, and maxFd is one above the highest enabled        *)
(* descriptor, so that select is asked about every event that has a        *)
(* handler (the inductive invariant is IInv).  Descriptors and sockets     *)
(* keep to each other: handlers are set when they are called, and are      *)
(* given the socket whose descriptor it is; no two sockets use the same    *)
(* descriptor, none leaks, and who waits has left a handler armed (the     *)
(* inductive invariant is OwnInv, kept by each step from a state in IInv). *)
(***************************************************************************)
EXTENDS SocketPlugin, Extremes, TLAPS

-----------------------------------------------------------------------------
(* maxFd.                                                                  *)

\* m is zero or one above a member of the mask, and nothing of the mask is at
\* or above it, up to max.
Tops(m, max, mask) == /\ m \in 0 .. max
                      /\ m = 0 \/ m - 1 \in mask
                      /\ \A j \in m + 1 .. max : j - 1 \notin mask

\* There is one such number, and it is the one Trimmed chooses.
LEMMA TrimmedTops ==
    ASSUME NEW max \in Nat, NEW mask
    PROVE  Tops(Trimmed(max, mask), max, mask)
<1> DEFINE S == {m \in 0 .. max : m = 0 \/ m - 1 \in mask}
<1>1. PICK m \in S : \A k \in S : k <= m
  <2>1. 0 \in S
    OBVIOUS
  <2>2. S \in SUBSET (0 .. max) /\ S # {}
    BY <2>1
  <2> HIDE DEF S
  <2>3. QED
    BY <2>2, LargestExists
<1>2. ASSUME NEW j \in m + 1 .. max PROVE j - 1 \notin mask
  <2>1. j \notin S
    BY <1>1
  <2>2. j \in 0 .. max
    BY <1>1
  <2>3. QED
    BY <2>1, <2>2
<1>3. \E x \in 0 .. max : /\ x = 0 \/ x - 1 \in mask
                          /\ \A j \in x + 1 .. max : j - 1 \notin mask
  BY <1>1, <1>2
<1>4. QED
  BY <1>3 DEF Trimmed, Tops

\* Two such numbers are equal.
LEMMA TopsUnique ==
    ASSUME NEW max \in Nat, NEW mask, NEW m, NEW n,
           Tops(m, max, mask), Tops(n, max, mask)
    PROVE  m = n
<1>1. m \in 0 .. max /\ n \in 0 .. max
  BY DEF Tops
<1>2. ~(m < n)
  BY <1>1 DEF Tops
<1>3. ~(n < m)
  BY <1>1 DEF Tops
<1>4. QED
  BY <1>1, <1>2, <1>3

-----------------------------------------------------------------------------
(* The routines of aio.c keep both.                                        *)

Accurate(a) == Tops(a.maxFd, FdSetSize, a.fdMask)
AioOK(a)    == a \in AioStates /\ Accurate(a)

LEMMA ArmTypes ==
    ASSUME NEW mask \in [Kinds -> SUBSET Fds], NEW kinds, NEW fd \in Fds
    PROVE  /\ Arm(mask, kinds, fd) \in [Kinds -> SUBSET Fds]
           /\ Disarm(mask, kinds, fd) \in [Kinds -> SUBSET Fds]
BY DEF Arm, Disarm

LEMMA InstallTypes ==
    ASSUME NEW handler \in [Kinds -> [Fds -> Handlers]], NEW kinds,
           NEW fd \in Fds, NEW h \in Handlers
    PROVE  Install(handler, kinds, fd, h) \in [Kinds -> [Fds -> Handlers]]
BY DEF Install

LEMMA InitOK == AioOK(aioInit)
<1>1. aioInit \in AioStates
  BY FdAssumption DEF aioInit, AioStates, Handlers
<1>2. Accurate(aioInit)
  BY FdAssumption DEF aioInit, Accurate, Tops
<1>3. QED
  BY <1>1, <1>2 DEF AioOK

LEMMA EnableOK ==
    ASSUME NEW a, AioOK(a), NEW fd \in Fds, NEW data \in Clients
    PROVE  AioOK(aioEnable(a, fd, data))
<1>1. CASE fd \in a.fdMask
  BY <1>1 DEF aioEnable
<1>2. CASE fd \notin a.fdMask
  <2> DEFINE b == aioEnable(a, fd, data)
  <2>1. b = [fdMask     |-> a.fdMask \cup {fd},
             mask       |-> Disarm(a.mask, Kinds, fd),
             handler    |-> Install(a.handler, Kinds, fd, "undefinedHandler"),
             clientData |-> [a.clientData EXCEPT ![fd] = data],
             maxFd      |-> IF fd >= a.maxFd THEN fd + 1 ELSE a.maxFd]
    BY <1>2 DEF aioEnable
  <2>2. a \in AioStates /\ Accurate(a)
    BY DEF AioOK
  <2>3. Disarm(a.mask, Kinds, fd) \in [Kinds -> SUBSET Fds]
    BY <2>2, ArmTypes DEF AioStates
  <2>4. Install(a.handler, Kinds, fd, "undefinedHandler")
           \in [Kinds -> [Fds -> Handlers]]
    BY <2>2, InstallTypes DEF AioStates, Handlers
  <2>5. [a.clientData EXCEPT ![fd] = data] \in [Fds -> Clients \cup {NoData}]
    BY <2>2 DEF AioStates
  <2>6. a.maxFd \in 0 .. FdSetSize /\ a.fdMask \in SUBSET Fds
    BY <2>2 DEF AioStates
  <2>7. (IF fd >= a.maxFd THEN fd + 1 ELSE a.maxFd) \in 0 .. FdSetSize
    BY <2>6, FdAssumption DEF Fds
  <2>8. b \in AioStates
    BY <2>1, <2>3, <2>4, <2>5, <2>6, <2>7 DEF AioStates
  <2>9. Tops(IF fd >= a.maxFd THEN fd + 1 ELSE a.maxFd, FdSetSize,
             a.fdMask \cup {fd})
    BY <2>2, <2>6, <2>7, FdAssumption DEF Accurate, Tops, Fds
  <2>10. Accurate(b)
    BY <2>1, <2>9 DEF Accurate
  <2>11. QED
    BY <2>8, <2>10 DEF AioOK
<1>3. QED
  BY <1>1, <1>2

LEMMA HandleOK ==
    ASSUME NEW a, AioOK(a), NEW fd, NEW h \in Handlers, NEW kinds
    PROVE  AioOK(aioHandle(a, fd, h, kinds))
<1>1. CASE fd \notin Fds
  BY <1>1 DEF aioHandle
<1>2. CASE fd \in Fds
  <2>1. a \in AioStates /\ Accurate(a)
    BY DEF AioOK
  <2>2. Arm(a.mask, kinds, fd) \in [Kinds -> SUBSET Fds]
    BY <1>2, <2>1, ArmTypes DEF AioStates
  <2>3. Install(a.handler, kinds, fd, h) \in [Kinds -> [Fds -> Handlers]]
    BY <1>2, <2>1, InstallTypes DEF AioStates
  <2>4. aioHandle(a, fd, h, kinds)
           = [a EXCEPT !.mask = Arm(a.mask, kinds, fd),
                       !.handler = Install(a.handler, kinds, fd, h)]
    BY <1>2 DEF aioHandle
  <2>5. QED
    BY <2>1, <2>2, <2>3, <2>4 DEF AioOK, Accurate, AioStates
<1>3. QED
  BY <1>1, <1>2

LEMMA SuspendOK ==
    ASSUME NEW a, AioOK(a), NEW fd \in Fds, NEW kinds
    PROVE  AioOK(aioSuspend(a, fd, kinds))
<1>1. a \in AioStates /\ Accurate(a)
  BY DEF AioOK
<1>2. Disarm(a.mask, kinds, fd) \in [Kinds -> SUBSET Fds]
  BY <1>1, ArmTypes DEF AioStates
<1>3. Install(a.handler, kinds, fd, "undefinedHandler")
         \in [Kinds -> [Fds -> Handlers]]
  BY <1>1, InstallTypes DEF AioStates, Handlers
<1>4. aioSuspend(a, fd, kinds)
         = [a EXCEPT !.mask = Disarm(a.mask, kinds, fd),
                     !.handler = Install(a.handler, kinds, fd, "undefinedHandler")]
  BY DEF aioSuspend
<1>5. QED
  BY <1>1, <1>2, <1>3, <1>4 DEF AioOK, Accurate, AioStates

\* The loop that lowers maxFd stops where a scan of all descriptors would.
LEMMA DisableOK ==
    ASSUME NEW a, AioOK(a), NEW fd \in Fds
    PROVE  AioOK(aioDisable(a, fd))
<1> DEFINE left == a.fdMask \ {fd}
           quiet == aioSuspend(a, fd, Kinds)
           top == Trimmed(a.maxFd, left)
<1>1. AioOK(quiet) /\ a \in AioStates /\ Accurate(a)
  BY SuspendOK DEF AioOK
<1>2. quiet \in AioStates
  BY <1>1 DEF AioOK
<1>3. quiet.maxFd = a.maxFd /\ quiet.fdMask = a.fdMask
  BY <1>1 DEF aioSuspend, AioStates
<1>4. Install(quiet.handler, Kinds, fd, "null") \in [Kinds -> [Fds -> Handlers]]
  BY <1>2, InstallTypes DEF AioStates, Handlers
<1>5. a.maxFd \in 0 .. FdSetSize /\ a.fdMask \in SUBSET Fds
  BY <1>1 DEF AioStates
<1>6. Tops(top, a.maxFd, left)
  BY <1>5, FdAssumption, TrimmedTops
<1>7. Tops(top, FdSetSize, left)
  <2> HIDE DEF top
  <2>1. QED
    BY <1>1, <1>5, <1>6, FdAssumption DEF Tops, Accurate
<1>8. top \in 0 .. FdSetSize
  BY <1>7 DEF Tops
<1>9. [quiet.clientData EXCEPT ![fd] = NoData] \in [Fds -> Clients \cup {NoData}]
  BY <1>2 DEF AioStates
<1>10. aioDisable(a, fd)
          = [quiet EXCEPT !.fdMask = left,
                          !.handler = Install(quiet.handler, Kinds, fd, "null"),
                          !.clientData = [quiet.clientData EXCEPT ![fd] = NoData],
                          !.maxFd = top]
  <2>1. aioDisable(a, fd)
          = [quiet EXCEPT !.fdMask = left,
                          !.handler = Install(quiet.handler, Kinds, fd, "null"),
                          !.clientData[fd] = NoData,
                          !.maxFd = top]
    BY <1>3 DEF aioDisable
  <2> HIDE DEF top, quiet, left
  <2>2. QED
    BY <2>1, <1>2 DEF AioStates
<1>11. left \in SUBSET Fds
  BY <1>5
<1>12. QED
  <2> DEFINE b == aioDisable(a, fd)
  <2> HIDE DEF top, quiet, left
  <2>1. b \in AioStates
    BY <1>2, <1>4, <1>8, <1>9, <1>10, <1>11 DEF AioStates
  <2>2. b.maxFd = top /\ b.fdMask = left
    BY <1>2, <1>10 DEF AioStates
  <2>3. Accurate(b)
    BY <1>7, <2>2 DEF Accurate
  <2> HIDE DEF b
  <2>4. AioOK(b)
    BY <2>1, <2>3 DEF AioOK
  <2>5. QED
    BY <2>4 DEF b

LEMMA TakenOK ==
    ASSUME NEW a, AioOK(a), NEW fd \in Fds, NEW kind
    PROVE  AioOK(Taken(a, <<fd, kind>>))
BY SuspendOK DEF Taken

-----------------------------------------------------------------------------
(* The parts of the state.                                                 *)

SockStates   == [live : BOOLEAN, fd : Fds \cup {None}, state : States,
                 multiListen : BOOLEAN, acceptedSock : Fds \cup {None}]
KernelStates == [phase : Phases, data : BOOLEAN, fin : BOOLEAN,
                 full : BOOLEAN, oob : BOOLEAN]

\* The inductive invariant.
IInv == TypeOK /\ Accurate(aio)

LEMMA IInvParts ==
    IInv <=> /\ AioOK(aio)
             /\ sock \in [Sockets -> SockStates]
             /\ kernel \in [Fds -> KernelStates]
             /\ events \subseteq Events
             /\ waiting \in [Sockets -> SUBSET Semaphores]
             /\ created \in 0 .. MaxCreated
BY DEF IInv, TypeOK, AioOK, SockStates, KernelStates

LEMMA DescriptorType ==
    ASSUME NEW phase \in Phases
    PROVE  Descriptor(phase) \in KernelStates
BY DEF Descriptor, KernelStates

LEMMA NewSocketType ==
    ASSUME NEW fd \in Fds, NEW state \in States
    PROVE  NewSocket(fd, state) \in SockStates
BY FdAssumption DEF NewSocket, SockStates, Fds

LEMMA NoSocketType == NoSocket \in SockStates
BY DEF NoSocket, SockStates, States

\* A handler is called for an event of the snapshot, on a socket, and the walk
\* goes on over events of the snapshot.
LEMMA HandlingParts ==
    ASSUME IInv, NEW fd, NEW kind, NEW h, NEW data,
           Handling(<<fd, kind>>, h, data)
    PROVE  fd \in Fds /\ kind \in Kinds /\ AioOK(Taken(aio, <<fd, kind>>))
<1>1. <<fd, kind>> \in Events
  BY DEF Handling, IsNext, IInv, TypeOK
<1>2. fd \in Fds /\ kind \in Kinds
  BY <1>1 DEF Events
<1>3. QED
  BY <1>2, TakenOK, IInvParts

LEMMA WalkOnType ==
    ASSUME IInv, NEW e, WalkOn(e)
    PROVE  events' \subseteq Events
BY DEF WalkOn, StillToCall, IInv, TypeOK

LEMMA WaitingType ==
    ASSUME IInv, NEW s \in Sockets, NEW sema \in Semaphores,
           Wait(s, sema) \/ Notify(s, sema)
    PROVE  waiting' \in [Sockets -> SUBSET Semaphores]
BY DEF Wait, Notify, IInv, TypeOK

-----------------------------------------------------------------------------
(* Each primitive keeps the invariant.                                     *)

LEMMA CreateStep ==
    ASSUME IInv, NEW s \in Sockets, Create(s)
    PROVE  IInv'
<1>1. PICK fd \in Fds :
         /\ kernel' = [kernel EXCEPT ![fd] = Descriptor("fresh")]
         /\ sock' = [sock EXCEPT ![s] = NewSocket(fd, "Unconnected")]
  BY DEF Create
<1>2. kernel' \in [Fds -> KernelStates]
  BY <1>1, DescriptorType, IInvParts DEF Phases
<1>3. sock' \in [Sockets -> SockStates]
  BY <1>1, NewSocketType, IInvParts DEF States
<1>4. created' \in 0 .. MaxCreated
  BY BoundAssumption, IInvParts DEF Create
<1>5. AioOK(aio') /\ events' \subseteq Events
         /\ waiting' \in [Sockets -> SUBSET Semaphores]
  BY IInvParts DEF Create
<1>6. QED
  BY <1>2, <1>3, <1>4, <1>5 DEF IInv, TypeOK, AioOK, SockStates, KernelStates

LEMMA ListenOnPortStep ==
    ASSUME IInv, NEW s \in Sockets, NEW multi \in BOOLEAN, ListenOnPort(s, multi)
    PROVE  IInv'
<1> DEFINE fd == sock[s].fd
<1>1. fd \in Fds
  BY IInvParts DEF ListenOnPort, SockStates
<1>2. AioOK(aioEnable(aio, fd, s))
  BY <1>1, EnableOK, IInvParts, SocketAssumption
<1>3. AioOK(aio')
  BY <1>2, HandleOK DEF ListenOnPort, Handlers
<1>4. kernel' \in [Fds -> KernelStates]
  BY ZenonT(60), IInvParts DEF ListenOnPort, KernelStates, Phases
<1>5. sock' \in [Sockets -> SockStates]
  BY IInvParts DEF ListenOnPort, SockStates, States
<1>6. waiting' \in [Sockets -> SUBSET Semaphores]
  BY WaitingType DEF ListenOnPort, Semaphores
<1>7. events' \subseteq Events /\ created' \in 0 .. MaxCreated
  BY IInvParts DEF ListenOnPort
<1>8. QED
  BY <1>3, <1>4, <1>5, <1>6, <1>7
     DEF IInv, TypeOK, AioOK, SockStates, KernelStates

LEMMA ConnectAtOnceStep ==
    ASSUME IInv, NEW s \in Sockets, ConnectAtOnce(s)
    PROVE  IInv'
<1>1. sock[s].fd \in Fds
  BY IInvParts DEF ConnectAtOnce, Connecting, SockStates
<1>2. AioOK(aio')
  BY <1>1, EnableOK, IInvParts, SocketAssumption DEF ConnectAtOnce
<1>3. kernel' \in [Fds -> KernelStates]
  BY ZenonT(60), IInvParts DEF ConnectAtOnce, KernelStates, Phases
<1>4. sock' \in [Sockets -> SockStates]
  BY SMTT(40), IInvParts DEF ConnectAtOnce, SockStates, States
<1>5. waiting' \in [Sockets -> SUBSET Semaphores]
  BY WaitingType DEF ConnectAtOnce, Semaphores
<1>6. events' \subseteq Events /\ created' \in 0 .. MaxCreated
  BY IInvParts DEF ConnectAtOnce
<1>7. QED
  BY <1>2, <1>3, <1>4, <1>5, <1>6
     DEF IInv, TypeOK, AioOK, SockStates, KernelStates

LEMMA ConnectInProgressStep ==
    ASSUME IInv, NEW s \in Sockets, ConnectInProgress(s)
    PROVE  IInv'
<1> DEFINE fd == sock[s].fd
<1>1. fd \in Fds
  BY IInvParts DEF ConnectInProgress, Connecting, SockStates
<1>2. AioOK(aioEnable(aio, fd, s))
  BY <1>1, EnableOK, IInvParts, SocketAssumption
<1>3. AioOK(aio')
  BY <1>2, HandleOK DEF ConnectInProgress, Handlers
<1>4. kernel' \in [Fds -> KernelStates]
  BY ZenonT(60), IInvParts DEF ConnectInProgress, KernelStates, Phases
<1>5. sock' \in [Sockets -> SockStates]
  BY IInvParts DEF ConnectInProgress, SockStates, States
<1>6. waiting' \in [Sockets -> SUBSET Semaphores]
  BY WaitingType DEF ConnectInProgress, Semaphores
<1>7. events' \subseteq Events /\ created' \in 0 .. MaxCreated
  BY IInvParts DEF ConnectInProgress
<1>8. QED
  BY <1>3, <1>4, <1>5, <1>6, <1>7
     DEF IInv, TypeOK, AioOK, SockStates, KernelStates

LEMMA ConnectFailsStep ==
    ASSUME IInv, NEW s \in Sockets, ConnectFails(s)
    PROVE  IInv'
<1>1. sock[s].fd \in Fds
  BY IInvParts DEF ConnectFails, Connecting, SockStates
<1>2. AioOK(aio')
  BY <1>1, EnableOK, IInvParts, SocketAssumption DEF ConnectFails
<1>3. waiting' \in [Sockets -> SUBSET Semaphores]
  BY WaitingType DEF ConnectFails, Semaphores
<1>4. UNCHANGED <<sock, kernel, events, created>>
  BY DEF ConnectFails
<1>5. QED
  BY <1>2, <1>3, <1>4 DEF IInv, TypeOK, AioOK

LEMMA AcceptFromStep ==
    ASSUME IInv, NEW s \in Sockets, NEW server \in Sockets, AcceptFrom(s, server)
    PROVE  IInv'
<1> DEFINE fd == sock[server].acceptedSock
<1>1. fd \in Fds
  BY IInvParts DEF AcceptFrom, SockStates, None
<1>2. AioOK(aioHandle(aio, sock[server].fd, "acceptHandler", {"rd", "ex"}))
  BY HandleOK, IInvParts DEF Handlers
<1>3. AioOK(aio')
  BY <1>1, <1>2, EnableOK, SocketAssumption DEF AcceptFrom
<1>4. sock' \in [Sockets -> SockStates]
  <2>1. NewSocket(fd, "Connected") \in SockStates
    BY <1>1, NewSocketType DEF States
  <2>2. QED
    BY ZenonT(60), <2>1, IInvParts DEF AcceptFrom, SockStates, States
<1>5. created' \in 0 .. MaxCreated
  BY BoundAssumption, IInvParts DEF AcceptFrom
<1>6. waiting' \in [Sockets -> SUBSET Semaphores]
  BY WaitingType DEF AcceptFrom, Semaphores
<1>7. UNCHANGED <<kernel, events>>
  BY DEF AcceptFrom
<1>8. QED
  BY <1>3, <1>4, <1>5, <1>6, <1>7 DEF IInv, TypeOK, AioOK, SockStates

LEMMA CloseConnectionStep ==
    ASSUME IInv, NEW s \in Sockets, CloseConnection(s)
    PROVE  IInv'
<1>1. sock[s].fd \in Fds
  BY IInvParts DEF CloseConnection, SockStates
<1>2. AioOK(aio')
  BY <1>1, DisableOK, IInvParts DEF CloseConnection
<1>3. kernel' \in [Fds -> KernelStates]
  BY DescriptorType, IInvParts DEF CloseConnection, Phases
<1>4. sock' \in [Sockets -> SockStates]
  BY IInvParts DEF CloseConnection, SockStates, States
<1>5. waiting' \in [Sockets -> SUBSET Semaphores]
  BY IInvParts DEF CloseConnection
<1>6. events' \subseteq Events /\ created' \in 0 .. MaxCreated
  BY IInvParts DEF CloseConnection
<1>7. QED
  BY <1>2, <1>3, <1>4, <1>5, <1>6
     DEF IInv, TypeOK, AioOK, SockStates, KernelStates

LEMMA DestroyStep ==
    ASSUME IInv, NEW s \in Sockets, Destroy(s)
    PROVE  IInv'
<1>1. AioOK(aio') /\ kernel' \in [Fds -> KernelStates]
  <2>1. CASE sock[s].fd = None
    BY <2>1, IInvParts DEF Destroy
  <2>2. CASE sock[s].fd # None
    <3>1. sock[s].fd \in Fds
      BY <2>2, IInvParts DEF SockStates
    <3>2. AioOK(aio')
      BY <2>2, <3>1, DisableOK, IInvParts DEF Destroy
    <3>3. kernel' \in [Fds -> KernelStates]
      BY <2>2, DescriptorType, IInvParts DEF Destroy, Phases
    <3>4. QED
      BY <3>2, <3>3
  <2>3. QED
    BY <2>1, <2>2
<1>2. sock' \in [Sockets -> SockStates]
  BY NoSocketType, IInvParts DEF Destroy
<1>3. waiting' \in [Sockets -> SUBSET Semaphores]
  BY IInvParts DEF Destroy
<1>4. events' \subseteq Events /\ created' \in 0 .. MaxCreated
  BY IInvParts DEF Destroy
<1>5. QED
  BY <1>1, <1>2, <1>3, <1>4
     DEF IInv, TypeOK, AioOK, SockStates, KernelStates

LEMMA ConnectionStatusStep ==
    ASSUME IInv, NEW s \in Sockets, ConnectionStatus(s)
    PROVE  IInv'
<1>1. sock' \in [Sockets -> SockStates]
  BY NoSocketType, IInvParts DEF ConnectionStatus
<1>2. UNCHANGED <<aio, kernel, events, waiting, created>>
  BY DEF ConnectionStatus
<1>3. QED
  BY <1>1, <1>2 DEF IInv, TypeOK, SockStates

LEMMA ReceiveDataAvailableStep ==
    ASSUME IInv, NEW s \in Sockets, ReceiveDataAvailable(s)
    PROVE  IInv'
<1>1. AioOK(aio')
  BY HandleOK, IInvParts DEF ReceiveDataAvailable, Handlers
<1>2. sock' \in [Sockets -> SockStates]
  BY IInvParts DEF ReceiveDataAvailable, SockStates, States
<1>3. waiting' \in [Sockets -> SUBSET Semaphores]
  BY WaitingType, IInvParts DEF ReceiveDataAvailable, Semaphores
<1>4. UNCHANGED <<kernel, events, created>>
  BY DEF ReceiveDataAvailable
<1>5. QED
  BY <1>1, <1>2, <1>3, <1>4 DEF IInv, TypeOK, AioOK, SockStates

LEMMA SendDoneStep ==
    ASSUME IInv, NEW s \in Sockets, SendDone(s)
    PROVE  IInv'
<1>1. AioOK(aio')
  BY HandleOK, IInvParts DEF SendDone, Handlers
<1>2. waiting' \in [Sockets -> SUBSET Semaphores]
  BY WaitingType DEF SendDone, Semaphores
<1>3. UNCHANGED <<sock, kernel, events, created>>
  BY DEF SendDone
<1>4. QED
  BY <1>1, <1>2, <1>3 DEF IInv, TypeOK, AioOK

LEMMA ReceiveDataStep ==
    ASSUME IInv, NEW s \in Sockets, ReceiveData(s)
    PROVE  IInv'
<1>1. sock' \in [Sockets -> SockStates]
  BY IInvParts DEF ReceiveData, SockStates, States
<1>2. kernel' \in [Fds -> KernelStates]
  <2>1. sock[s].fd \in Fds
    BY IInvParts DEF ReceiveData, Open, SockStates
  <2>2. \/ kernel' = [kernel EXCEPT ![sock[s].fd].data = FALSE]
        \/ kernel' = kernel
    BY DEF ReceiveData
  <2>3. QED
    BY ZenonT(60), <2>1, <2>2, IInvParts DEF KernelStates
<1>3. waiting' \in [Sockets -> SUBSET Semaphores]
  BY WaitingType, IInvParts DEF ReceiveData, Semaphores
<1>4. UNCHANGED <<aio, events, created>>
  BY DEF ReceiveData
<1>5. QED
  BY <1>1, <1>2, <1>3, <1>4 DEF IInv, TypeOK, SockStates, KernelStates

LEMMA SendDataStep ==
    ASSUME IInv, NEW s \in Sockets, SendData(s)
    PROVE  IInv'
<1>1. sock' \in [Sockets -> SockStates]
  BY IInvParts DEF SendData, SockStates, States
<1>2. kernel' \in [Fds -> KernelStates]
  <2>1. sock[s].fd \in Fds
    BY IInvParts DEF SendData, Open, SockStates
  <2>2. \/ kernel' = [kernel EXCEPT ![sock[s].fd].full = TRUE]
        \/ kernel' = kernel
    BY DEF SendData
  <2>3. QED
    BY ZenonT(60), <2>1, <2>2, IInvParts DEF KernelStates
<1>3. UNCHANGED <<aio, events, waiting, created>>
  BY DEF SendData
<1>4. QED
  BY <1>1, <1>2, <1>3 DEF IInv, TypeOK, SockStates, KernelStates

-----------------------------------------------------------------------------
(* So does each handler.                                                   *)

\* What is left to show of a handler that signals a semaphore.
LEMMA NotifyingStep ==
    ASSUME IInv, NEW e, WalkOn(e), UNCHANGED created,
           NEW s \in Sockets, NEW sema \in Semaphores, Notify(s, sema),
           AioOK(aio'), kernel' \in [Fds -> KernelStates],
           sock' \in [Sockets -> SockStates]
    PROVE  IInv'
<1>1. waiting' \in [Sockets -> SUBSET Semaphores]
  BY WaitingType
<1>2. events' \subseteq Events
  BY WalkOnType
<1>3. QED
  BY <1>1, <1>2 DEF IInv, TypeOK, AioOK, SockStates, KernelStates

\* And of one that signals none and leaves the sockets as they are.
LEMMA QuietStep ==
    ASSUME IInv, NEW e, WalkOn(e), UNCHANGED <<sock, waiting, created>>,
           AioOK(aio'), kernel' \in [Fds -> KernelStates]
    PROVE  IInv'
<1>1. events' \subseteq Events
  BY WalkOnType
<1>2. QED
  BY <1>1 DEF IInv, TypeOK, AioOK, KernelStates

LEMMA AcceptErrorStep ==
    ASSUME IInv, NEW fd \in Fds, NEW s \in Sockets, AcceptError(fd, s)
    PROVE  IInv'
<1>1. AioOK(aio')
  BY HandlingParts, DisableOK DEF AcceptError
<1>2. kernel' \in [Fds -> KernelStates]
  BY DescriptorType, IInvParts DEF AcceptError, Phases
<1>3. sock' \in [Sockets -> SockStates]
  BY ZenonT(60), IInvParts DEF AcceptError, SockStates, States
<1>4. QED
  BY <1>1, <1>2, <1>3, NotifyingStep DEF AcceptError, Handling, Semaphores

LEMMA AcceptAbortedStep ==
    ASSUME IInv, NEW fd \in Fds, NEW s \in Sockets, AcceptAborted(fd, s)
    PROVE  IInv'
<1>1. AioOK(aio')
  BY HandlingParts, HandleOK DEF AcceptAborted, Handlers
<1>2. kernel' \in [Fds -> KernelStates]
  BY IInvParts DEF AcceptAborted, KernelStates
<1>3. QED
  BY <1>1, <1>2, QuietStep DEF AcceptAborted, Handling

LEMMA AcceptFailsStep ==
    ASSUME IInv, NEW fd \in Fds, NEW s \in Sockets, AcceptFails(fd, s)
    PROVE  IInv'
<1>1. AioOK(aio')
  BY HandlingParts, DisableOK DEF AcceptFails
<1>2. kernel' \in [Fds -> KernelStates]
  BY DescriptorType, IInvParts DEF AcceptFails, Phases
<1>3. sock' \in [Sockets -> SockStates]
  BY IInvParts DEF AcceptFails, SockStates, States
<1>4. QED
  BY <1>1, <1>2, <1>3, NotifyingStep DEF AcceptFails, Handling, Semaphores

LEMMA AcceptInPlaceStep ==
    ASSUME IInv, NEW fd \in Fds, NEW s \in Sockets, AcceptInPlace(fd, s)
    PROVE  IInv'
<1> DEFINE taken == Taken(aio, <<fd, "rd">>)
<1>1. AioOK(aioDisable(taken, fd))
  BY HandlingParts, DisableOK DEF AcceptInPlace
<1>2. PICK new \in Fds :
         /\ kernel' = [kernel EXCEPT ![fd] = Descriptor("free"),
                                     ![new] = Descriptor("connected")]
         /\ sock' = [sock EXCEPT ![s].state = "Connected", ![s].fd = new]
         /\ aio' = aioEnable(aioDisable(taken, fd), new, s)
  BY DEF AcceptInPlace
<1>3. AioOK(aio')
  BY <1>1, <1>2, EnableOK, SocketAssumption
<1>4. kernel' \in [Fds -> KernelStates]
  BY <1>2, DescriptorType, IInvParts DEF Phases
<1>5. sock' \in [Sockets -> SockStates]
  BY ZenonT(60), <1>2, IInvParts DEF SockStates, States
<1>6. QED
  BY <1>3, <1>4, <1>5, NotifyingStep DEF AcceptInPlace, Handling, Semaphores

LEMMA AcceptForLaterStep ==
    ASSUME IInv, NEW fd \in Fds, NEW s \in Sockets, AcceptForLater(fd, s)
    PROVE  IInv'
<1>1. AioOK(aio')
  BY HandlingParts DEF AcceptForLater
<1>2. PICK new \in Fds :
         /\ kernel' = [kernel EXCEPT ![fd].data = FALSE,
                                     ![new] = Descriptor("connected")]
         /\ sock' = [sock EXCEPT ![s].state = "Connected",
                                 ![s].acceptedSock = new]
  BY DEF AcceptForLater
<1>3. kernel' \in [Fds -> KernelStates]
  <2>1. Descriptor("connected") \in KernelStates
    BY DescriptorType DEF Phases
  <2>2. QED
    BY <1>2, <2>1, IInvParts DEF KernelStates
<1>4. sock' \in [Sockets -> SockStates]
  BY ZenonT(60), <1>2, IInvParts DEF SockStates, States
<1>5. QED
  BY <1>1, <1>3, <1>4, NotifyingStep DEF AcceptForLater, Handling, Semaphores

LEMMA ErrorReadType ==
    ASSUME NEW d \in KernelStates
    PROVE  ErrorRead(d) \in KernelStates
BY DescriptorType DEF ErrorRead, Phases

LEMMA ConnectErrorStep ==
    ASSUME IInv, NEW fd \in Fds, NEW s \in Sockets, ConnectError(fd, s)
    PROVE  IInv'
<1>1. AioOK(aio')
  BY HandlingParts, DisableOK DEF ConnectError
<1>2. kernel' \in [Fds -> KernelStates]
  BY ErrorReadType, IInvParts DEF ConnectError
<1>3. sock' \in [Sockets -> SockStates]
  BY IInvParts DEF ConnectError, SockStates, States
<1>4. QED
  BY <1>1, <1>2, <1>3, NotifyingStep DEF ConnectError, Handling, Semaphores

LEMMA ConnectCompletesStep ==
    ASSUME IInv, NEW fd \in Fds, NEW s \in Sockets, ConnectCompletes(fd, s)
    PROVE  IInv'
<1>1. AioOK(aio')
  BY HandlingParts DEF ConnectCompletes
<1>2. kernel' \in [Fds -> KernelStates]
  BY ErrorReadType, IInvParts DEF ConnectCompletes
<1>3. sock' \in [Sockets -> SockStates]
  BY IInvParts DEF ConnectCompletes, SockStates, States
<1>4. QED
  BY <1>1, <1>2, <1>3, NotifyingStep DEF ConnectCompletes, Handling, Semaphores

LEMMA DataReadableStep ==
    ASSUME IInv, NEW fd \in Fds, NEW s \in Sockets, DataReadable(fd, s)
    PROVE  IInv'
<1>1. AioOK(aio')
  BY HandlingParts DEF DataReadable
<1>2. kernel' \in [Fds -> KernelStates]
  BY IInvParts DEF DataReadable
<1>3. sock' \in [Sockets -> SockStates]
  BY IInvParts DEF DataReadable, SockStates, States
<1>4. QED
  BY <1>1, <1>2, <1>3, NotifyingStep DEF DataReadable, Handling, Semaphores

LEMMA DataWritableStep ==
    ASSUME IInv, NEW fd \in Fds, NEW s \in Sockets, DataWritable(fd, s)
    PROVE  IInv'
<1>1. AioOK(aio')
  BY HandlingParts DEF DataWritable
<1>2. kernel' \in [Fds -> KernelStates] /\ sock' \in [Sockets -> SockStates]
  BY IInvParts DEF DataWritable
<1>3. QED
  BY <1>1, <1>2, NotifyingStep DEF DataWritable, Handling, Semaphores

LEMMA DataExceptionStep ==
    ASSUME IInv, NEW fd \in Fds, NEW s \in Sockets, DataException(fd, s)
    PROVE  IInv'
<1>1. AioOK(aio')
  BY HandlingParts DEF DataException
<1>2. kernel' \in [Fds -> KernelStates]
  BY IInvParts DEF DataException, KernelStates
<1>3. QED
  BY <1>1, <1>2, QuietStep DEF DataException, Handling

LEMMA DataForNobodyStep ==
    ASSUME IInv, NEW fd \in Fds, NEW kind \in Kinds, DataForNobody(fd, kind)
    PROVE  IInv'
<1>1. AioOK(aio')
  BY HandlingParts DEF DataForNobody
<1>2. kernel' \in [Fds -> KernelStates]
  BY IInvParts DEF DataForNobody
<1>3. QED
  BY <1>1, <1>2, QuietStep DEF DataForNobody, Handling

-----------------------------------------------------------------------------
(* And so do a poll and the peers.                                         *)

LEMMA PollStep ==
    ASSUME IInv, Poll
    PROVE  IInv'
<1>1. events' \subseteq Events
  BY DEF Poll, Asked
<1>2. UNCHANGED <<aio, sock, kernel, waiting, created>>
  BY DEF Poll
<1>3. QED
  BY <1>1, <1>2 DEF IInv, TypeOK

LEMMA ChangesStep ==
    ASSUME IInv, NEW fd \in Fds, NEW d \in KernelStates, Changes(fd, d)
    PROVE  IInv'
<1>1. kernel' \in [Fds -> KernelStates]
  BY IInvParts DEF Changes
<1>2. UNCHANGED <<aio, sock, events, waiting, created>>
  BY DEF Changes
<1>3. QED
  BY <1>1, <1>2 DEF IInv, TypeOK, KernelStates

LEMMA EnvironmentStep ==
    ASSUME IInv, Environment
    PROVE  IInv'
<1>1. PICK fd \in Fds :
         \/ ConnectionArrives(fd) \/ ListenBreaks(fd)
         \/ PeerAccepts(fd) \/ PeerRefuses(fd)
         \/ PeerSends(fd) \/ PeerSendsUrgently(fd)
         \/ PeerReads(fd) \/ PeerCloses(fd)
  BY DEF Environment
<1>2. kernel[fd] \in KernelStates
  BY IInvParts
<1>3. \E d \in KernelStates : Changes(fd, d)
  <2>1. CASE ConnectionArrives(fd) \/ PeerSends(fd)
    <3>1. [kernel[fd] EXCEPT !.data = TRUE] \in KernelStates
      BY <1>2 DEF KernelStates
    <3>2. QED
      BY <2>1, <3>1 DEF ConnectionArrives, PeerSends
  <2>2. CASE ListenBreaks(fd) \/ PeerSendsUrgently(fd)
    <3>1. [kernel[fd] EXCEPT !.oob = TRUE] \in KernelStates
      BY <1>2 DEF KernelStates
    <3>2. QED
      BY <2>2, <3>1 DEF ListenBreaks, PeerSendsUrgently
  <2>3. CASE PeerAccepts(fd)
    <3>1. [kernel[fd] EXCEPT !.phase = "connected"] \in KernelStates
      BY <1>2 DEF KernelStates, Phases
    <3>2. QED
      BY <2>3, <3>1 DEF PeerAccepts
  <2>4. CASE PeerRefuses(fd)
    <3>1. ASSUME NEW exception \in BOOLEAN
          PROVE  [kernel[fd] EXCEPT !.phase = "refused", !.oob = exception]
                    \in KernelStates
      BY <1>2 DEF KernelStates, Phases
    <3>2. QED
      BY <2>4, <3>1 DEF PeerRefuses
  <2>5. CASE PeerReads(fd)
    <3>1. [kernel[fd] EXCEPT !.full = FALSE] \in KernelStates
      BY <1>2 DEF KernelStates
    <3>2. QED
      BY <2>5, <3>1 DEF PeerReads
  <2>6. CASE PeerCloses(fd)
    <3>1. [kernel[fd] EXCEPT !.fin = TRUE] \in KernelStates
      BY <1>2 DEF KernelStates
    <3>2. QED
      BY <2>6, <3>1 DEF PeerCloses
  <2>7. QED
    BY <1>1, <2>1, <2>2, <2>3, <2>4, <2>5, <2>6
<1>4. QED
  BY <1>3, ChangesStep

-----------------------------------------------------------------------------
(* Every step keeps the types and maxFd.                                   *)

LEMMA InitIInv == Init => IInv
<1> SUFFICES ASSUME Init PROVE IInv
  OBVIOUS
<1>1. AioOK(aio)
  BY InitOK DEF Init
<1>2. sock \in [Sockets -> SockStates]
  BY NoSocketType DEF Init
<1>3. kernel \in [Fds -> KernelStates]
  BY DescriptorType DEF Init, Phases
<1>4. /\ events \subseteq Events
      /\ waiting \in [Sockets -> SUBSET Semaphores]
      /\ created \in 0 .. MaxCreated
  BY BoundAssumption DEF Init
<1>5. QED
  BY <1>1, <1>2, <1>3, <1>4, IInvParts

LEMMA StepIInv == IInv /\ [Next]_vars => IInv'
<1> SUFFICES ASSUME IInv, [Next]_vars PROVE IInv'
  OBVIOUS
<1>1. CASE Primitive
  BY <1>1, CreateStep, ListenOnPortStep, ConnectAtOnceStep,
     ConnectInProgressStep, ConnectFailsStep, AcceptFromStep,
     CloseConnectionStep, DestroyStep, ConnectionStatusStep,
     ReceiveDataAvailableStep, SendDoneStep, ReceiveDataStep, SendDataStep
     DEF Primitive
<1>2. CASE Poll
  BY <1>2, PollStep
<1>3. CASE Handler
  BY <1>3, AcceptErrorStep, AcceptAbortedStep, AcceptFailsStep,
     AcceptInPlaceStep, AcceptForLaterStep, ConnectErrorStep,
     ConnectCompletesStep, DataReadableStep, DataWritableStep,
     DataExceptionStep, DataForNobodyStep
     DEF Handler
<1>4. CASE Environment
  BY <1>4, EnvironmentStep
<1>5. CASE UNCHANGED vars
  BY <1>5 DEF vars, IInv, TypeOK
<1>6. QED
  BY <1>1, <1>2, <1>3, <1>4, <1>5 DEF Next

LEMMA IInvMeansAccurate == IInv => MaxFdIsAccurate
<1> SUFFICES ASSUME IInv PROVE aio.maxFd = Trimmed(FdSetSize, aio.fdMask)
  BY DEF MaxFdIsAccurate
<1>1. Tops(aio.maxFd, FdSetSize, aio.fdMask)
  BY DEF IInv, Accurate
<1>2. Tops(Trimmed(FdSetSize, aio.fdMask), FdSetSize, aio.fdMask)
  BY TrimmedTops, FdAssumption
<1>3. QED
  BY <1>1, <1>2, TopsUnique, FdAssumption

-----------------------------------------------------------------------------
(* What the routines of aio.c do to one descriptor, leaving the others be. *)

\* Nothing of descriptor g differs between a and b.
Same(a, b, g) ==
    /\ g \in b.fdMask <=> g \in a.fdMask
    /\ b.clientData[g] = a.clientData[g]
    /\ \A k \in Kinds : /\ g \in b.mask[k] <=> g \in a.mask[k]
                        /\ b.handler[k][g] = a.handler[k][g]

LEMMA EnableEffect ==
    ASSUME NEW a \in AioStates, NEW fd \in Fds, NEW data
    PROVE  LET b == aioEnable(a, fd, data)
           IN /\ \A g \in Fds \ {fd} : Same(a, b, g)
              /\ fd \in a.fdMask => b = a
              /\ fd \notin a.fdMask => /\ fd \in b.fdMask
                                       /\ b.clientData[fd] = data
                                       /\ \A k \in Kinds : fd \notin b.mask[k]
<1> DEFINE b == aioEnable(a, fd, data)
<1>1. CASE fd \in a.fdMask
  BY <1>1 DEF aioEnable, Same
<1>2. CASE fd \notin a.fdMask
  <2>1. /\ b.fdMask = a.fdMask \cup {fd}
        /\ b.clientData = [a.clientData EXCEPT ![fd] = data]
        /\ b.mask = Disarm(a.mask, Kinds, fd)
        /\ b.handler = Install(a.handler, Kinds, fd, "undefinedHandler")
    BY <1>2 DEF aioEnable
  <2>2. a.clientData[fd] \in Clients \cup {NoData} /\ DOMAIN a.clientData = Fds
    BY DEF AioStates
  <2>3. b.clientData[fd] = data /\ \A g \in Fds \ {fd} : b.clientData[g] = a.clientData[g]
    BY <2>1, <2>2
  <2>4. \A k \in Kinds : b.mask[k] = a.mask[k] \ {fd}
    BY <2>1 DEF Disarm
  <2>5. \A k \in Kinds : \A g \in Fds \ {fd} : b.handler[k][g] = a.handler[k][g]
    BY <2>1 DEF Install, AioStates
  <2> HIDE DEF b
  <2>6. QED
    BY <1>2, <2>1, <2>3, <2>4, <2>5 DEF Same, b
<1>3. QED
  BY <1>1, <1>2

LEMMA HandleEffect ==
    ASSUME NEW a \in AioStates, NEW fd \in Fds, NEW h, NEW kinds
    PROVE  LET b == aioHandle(a, fd, h, kinds)
           IN /\ \A g \in Fds \ {fd} : Same(a, b, g)
              /\ b.fdMask = a.fdMask /\ b.clientData = a.clientData
              /\ \A k \in Kinds \cap kinds : /\ fd \in b.mask[k]
                                             /\ b.handler[k][fd] = h
              /\ \A k \in Kinds \ kinds : /\ fd \in b.mask[k] <=> fd \in a.mask[k]
                                          /\ b.handler[k][fd] = a.handler[k][fd]
<1> DEFINE b == aioHandle(a, fd, h, kinds)
<1>1. /\ b.fdMask = a.fdMask /\ b.clientData = a.clientData
      /\ b.mask = Arm(a.mask, kinds, fd)
      /\ b.handler = Install(a.handler, kinds, fd, h)
  BY DEF aioHandle, AioStates
<1>2. \A k \in Kinds : b.mask[k] = IF k \in kinds THEN a.mask[k] \cup {fd}
                                   ELSE a.mask[k]
  BY <1>1 DEF Arm
<1>3. \A k \in Kinds : /\ DOMAIN a.handler[k] = Fds
                       /\ b.handler[k] = IF k \in kinds
                                         THEN [a.handler[k] EXCEPT ![fd] = h]
                                         ELSE a.handler[k]
  BY <1>1 DEF Install, AioStates
<1>4. \A k \in Kinds : \A g \in Fds \ {fd} : b.handler[k][g] = a.handler[k][g]
  BY <1>3
<1> HIDE DEF b
<1>5. QED
  BY <1>1, <1>2, <1>3, <1>4 DEF Same, b

LEMMA SuspendEffect ==
    ASSUME NEW a \in AioStates, NEW fd \in Fds, NEW kinds
    PROVE  LET b == aioSuspend(a, fd, kinds)
           IN /\ \A g \in Fds \ {fd} : Same(a, b, g)
              /\ b.fdMask = a.fdMask /\ b.clientData = a.clientData
              /\ \A k \in Kinds \cap kinds : fd \notin b.mask[k]
              /\ \A k \in Kinds \ kinds : /\ fd \in b.mask[k] <=> fd \in a.mask[k]
                                          /\ b.handler[k][fd] = a.handler[k][fd]
<1> DEFINE b == aioSuspend(a, fd, kinds)
<1>1. /\ b.fdMask = a.fdMask /\ b.clientData = a.clientData
      /\ b.mask = Disarm(a.mask, kinds, fd)
      /\ b.handler = Install(a.handler, kinds, fd, "undefinedHandler")
  BY DEF aioSuspend, AioStates
<1>2. \A k \in Kinds : b.mask[k] = IF k \in kinds THEN a.mask[k] \ {fd}
                                   ELSE a.mask[k]
  BY <1>1 DEF Disarm
<1>3. \A k \in Kinds : /\ DOMAIN a.handler[k] = Fds
                       /\ b.handler[k] = IF k \in kinds
                                         THEN [a.handler[k] EXCEPT ![fd] = "undefinedHandler"]
                                         ELSE a.handler[k]
  BY <1>1 DEF Install, AioStates
<1>4. \A k \in Kinds : \A g \in Fds \ {fd} : b.handler[k][g] = a.handler[k][g]
  BY <1>3
<1> HIDE DEF b
<1>5. QED
  BY <1>1, <1>2, <1>3, <1>4 DEF Same, b

LEMMA DisableEffect ==
    ASSUME NEW a, AioOK(a), NEW fd \in Fds
    PROVE  LET b == aioDisable(a, fd)
           IN /\ \A g \in Fds \ {fd} : Same(a, b, g)
              /\ fd \notin b.fdMask
              /\ b.clientData[fd] = NoData
              /\ \A k \in Kinds : fd \notin b.mask[k]
<1> DEFINE b == aioDisable(a, fd)
           c == aioSuspend(a, fd, Kinds)
<1>1. a \in AioStates /\ AioOK(c)
  BY SuspendOK DEF AioOK
<1>2. c \in AioStates
  BY <1>1 DEF AioOK
<1>3. /\ \A g \in Fds \ {fd} : Same(a, c, g)
      /\ c.fdMask = a.fdMask
      /\ \A k \in Kinds : fd \notin c.mask[k]
  BY <1>1, SuspendEffect
<1>4. b = [c EXCEPT !.fdMask = a.fdMask \ {fd},
                    !.handler = Install(c.handler, Kinds, fd, "null"),
                    !.clientData[fd] = NoData,
                    !.maxFd = Trimmed(c.maxFd, a.fdMask \ {fd})]
  BY DEF aioDisable
<1> HIDE DEF c
<1>5. /\ b.fdMask = a.fdMask \ {fd}
      /\ b.mask = c.mask
      /\ b.handler = Install(c.handler, Kinds, fd, "null")
      /\ b.clientData = [c.clientData EXCEPT ![fd] = NoData]
  <2> HIDE DEF b
  <2>1. QED
    BY <1>2, <1>4 DEF AioStates
<1>6. \A k \in Kinds : \A g \in Fds \ {fd} : b.handler[k][g] = c.handler[k][g]
  <2> HIDE DEF b
  <2>1. QED
    BY <1>2, <1>5 DEF Install, AioStates
<1>7. /\ b.clientData[fd] = NoData
      /\ \A g \in Fds \ {fd} : b.clientData[g] = c.clientData[g]
  <2> HIDE DEF b
  <2>1. QED
    BY <1>2, <1>5 DEF AioStates
<1> HIDE DEF b
<1>8. QED
  BY <1>3, <1>5, <1>6, <1>7 DEF Same, b

LEMMA SameTransitive ==
    ASSUME NEW a, NEW b, NEW c, NEW g, Same(a, b, g), Same(b, c, g)
    PROVE  Same(a, c, g)
BY DEF Same

-----------------------------------------------------------------------------
(* The sockets and their descriptors.                                      *)

\* A socket the image can use; an open descriptor; one of its events armed with
\* a handler; a socket the dispatcher looks after.
Active(s) == sock[s].live /\ sock[s].state # "Invalid"
Opened(fd) == kernel[fd].phase \notin {"free", "foreign"}
Takes(fd, kind, h) == fd \in aio.mask[kind] /\ aio.handler[kind][fd] = h
Watched(s) == sock[s].fd \in aio.fdMask /\ aio.clientData[sock[s].fd] = s

\* An open descriptor is held by a socket.  One that was just made has nothing
\* to report, and a server has a connection or an error to report, not both.
OpenedOK(fd) ==
    /\ fd = 0 => kernel[fd].phase = "foreign"
    /\ Opened(fd) => \E s \in Sockets : Active(s) /\ fd \in Held(s)
    /\ kernel[fd].phase = "fresh" => kernel[fd] = Descriptor("fresh")
    /\ kernel[fd].phase = "listening" =>
          ~kernel[fd].fin /\ ~(kernel[fd].data /\ kernel[fd].oob)

\* What is armed is open and has a handler: acceptHandler exactly while it
\* listens, and then not for writing; connectHandler not for reading.  An event
\* still to be handed out is armed, and a server has cause for it: so the
\* handlers that run before cannot have taken its handler away.
ArmedOK(fd) ==
    /\ \A k \in Kinds : fd \in aio.mask[k] =>
          /\ Opened(fd)
          /\ aio.handler[k][fd] \in {"acceptHandler", "connectHandler", "dataHandler"}
          /\ aio.handler[k][fd] = "acceptHandler" <=> kernel[fd].phase = "listening"
          /\ aio.handler[k][fd] = "connectHandler" => k # "rd"
          /\ aio.handler[k][fd] = "acceptHandler" => k # "wr"
    /\ \A k \in Kinds : <<fd, k>> \in events =>
          /\ fd \in aio.mask[k]
          /\ kernel[fd].phase = "listening" =>
                \/ k = "rd" /\ kernel[fd].data
                \/ k = "ex" /\ kernel[fd].oob

\* The client data of an enabled descriptor is the socket that uses it.  One
\* that is not enabled may still be armed, by receiveDataAvailable of a socket
\* that never connected, but only with dataHandler, which is given none then.
WatchedOK(fd) ==
    /\ fd \in aio.fdMask => /\ aio.clientData[fd] \in Sockets
                            /\ Active(aio.clientData[fd])
                            /\ sock[aio.clientData[fd]].fd = fd
    /\ fd \notin aio.fdMask =>
          /\ aio.clientData[fd] = NoData
          /\ \A k \in Kinds : fd \in aio.mask[k] => aio.handler[k][fd] = "dataHandler"

DescriptorOK(fd) == OpenedOK(fd) /\ ArmedOK(fd) /\ WatchedOK(fd)

\* A server waits for a connection, or keeps one and is not armed for another.
Listening(s) ==
    \/ sock[s].state = "WaitingForConnection"
    \/ Pending(s) /\ ~kernel[sock[s].fd].oob /\ sock[s].fd \notin aio.mask["rd"]

\* A socket that has left "Unconnected" is enabled.  The descriptor it has is
\* open, and its state agrees with the kernel's phase and what is armed.
UsableOK(s) ==
    Active(s) =>
       /\ sock[s].state # "Unconnected" => Watched(s)
       /\ sock[s].fd # None =>
            /\ Opened(sock[s].fd)
            /\ sock[s].state = "Unconnected" => sock[s].fd \notin aio.mask["wr"]
            /\ sock[s].multiListen => kernel[sock[s].fd].phase = "listening"
            /\ kernel[sock[s].fd].phase = "listening" => Listening(s)
            /\ Takes(sock[s].fd, "wr", "connectHandler") =>
                  sock[s].state \in {"WaitingForConnection", "OtherEndClosed"}
       /\ Pending(s) => /\ sock[s].acceptedSock \in Fds \ {sock[s].fd}
                        /\ kernel[sock[s].acceptedSock].phase = "connected"

\* Who waits has left the handler armed that tells it.  A connection that is
\* read or written has no connect to complete, whose failure would disable it.
WaitingOK(s) ==
    /\ "read" \in waiting[s] => Armed(s, "rd", "dataHandler")
    /\ "write" \in waiting[s] => Armed(s, "wr", "dataHandler")
    /\ "conn" \in waiting[s] => \/ Armed(s, "rd", "acceptHandler")
                                \/ Armed(s, "wr", "connectHandler")
    /\ "read" \in waiting[s] \/ "write" \in waiting[s] =>
          /\ sock[s].state \in {"Connected", "OtherEndClosed"}
          /\ \A k \in Kinds : ~Takes(sock[s].fd, k, "connectHandler")

SocketOK(s) == UsableOK(s) /\ WaitingOK(s)

\* No two sockets hold the same descriptor.
Holders(s, t) == s # t /\ Active(s) /\ Active(t)
Disjoint == \A s, t \in Sockets : Holders(s, t) => Held(s) \cap Held(t) \subseteq {None}

\* The inductive invariant of the sockets and their descriptors.
OwnInv == /\ \A fd \in Fds : DescriptorOK(fd)
          /\ \A s \in Sockets : SocketOK(s)
          /\ Disjoint

\* s holds nothing but descriptors of F.
Within(s, F) == Active(s) => Held(s) \subseteq F \cup {None}

LEMMA SocketTypes ==
    ASSUME IInv, NEW s \in Sockets
    PROVE  /\ sock[s].fd \in Fds \cup {None} /\ sock[s].acceptedSock \in Fds \cup {None}
           /\ sock[s].live \in BOOLEAN /\ sock[s].multiListen \in BOOLEAN
           /\ sock[s].state \in States
           /\ waiting[s] \subseteq Semaphores
BY IInvParts DEF SockStates

LEMMA NoneIsNone == None \notin Fds
BY FdAssumption DEF None, Fds

\* Who waits, waits on a socket that is usable and looked after.
LEMMA WaiterActive ==
    ASSUME IInv, OwnInv, NEW s \in Sockets, waiting[s] # {}
    PROVE  Active(s) /\ Watched(s) /\ sock[s].fd \in Fds
<1>1. waiting[s] \subseteq {"conn", "read", "write"}
  BY SocketTypes DEF Semaphores
<1>2. Watched(s)
  BY <1>1 DEF OwnInv, SocketOK, WaitingOK, Armed, Watched
<1>3. sock[s].fd \in Fds
  BY <1>2, IInvParts DEF Watched, AioOK, AioStates
<1>4. QED
  BY <1>2, <1>3 DEF OwnInv, DescriptorOK, WatchedOK, Watched

\* A step that changes the sockets S and the descriptors F, which nobody else
\* holds, keeps the invariant when it keeps it there.
LEMMA Frame ==
    ASSUME IInv, OwnInv, IInv', NEW S \in SUBSET Sockets, NEW F \in SUBSET Fds,
           \A t \in Sockets \ S : sock'[t] = sock[t] /\ waiting'[t] = waiting[t],
           \A g \in Fds \ F : Same(aio, aio', g) /\ kernel'[g] = kernel[g],
           \A g \in Fds \ F : \A k \in Kinds : <<g, k>> \in events' => <<g, k>> \in events,
           \A s \in S : \/ sock'[s] = sock[s]
                        \/ Within(s, F) /\ Within(s, F)',
           \A t \in Sockets \ S : Active(t) => Held(t) \cap F = {},
           \A s \in S : SocketOK(s)',
           \A fd \in F : DescriptorOK(fd)',
           \A s, t \in S : Holders(s, t)' => Held(s)' \cap Held(t)' \subseteq {None}
    PROVE  OwnInv'
<1>1. ASSUME NEW t \in Sockets, t \notin S \/ sock'[t] = sock[t]
      PROVE  /\ Active(t)' <=> Active(t)
             /\ Held(t)' = Held(t)
             /\ Pending(t)' <=> Pending(t)
  BY <1>1 DEF Active, Held, Pending
<1>2. ASSUME NEW g \in Fds \ F PROVE DescriptorOK(g)'
  <2>1. DescriptorOK(g) /\ Same(aio, aio', g) /\ kernel'[g] = kernel[g]
    BY DEF OwnInv
  <2>2. OpenedOK(g)'
    <3>1. Opened(g) => \E s \in Sockets : Active(s)' /\ g \in Held(s)'
      <4>1. SUFFICES ASSUME Opened(g) PROVE \E s \in Sockets : Active(s)' /\ g \in Held(s)'
        OBVIOUS
      <4>2. PICK s \in Sockets : Active(s) /\ g \in Held(s)
        BY <2>1, <4>1 DEF DescriptorOK, OpenedOK
      <4>3. s \notin S \/ sock'[s] = sock[s]
        BY <4>2, NoneIsNone DEF Within
      <4>4. QED
        BY <1>1, <4>2, <4>3
    <3>2. QED
      BY <2>1, <3>1 DEF DescriptorOK, OpenedOK, Opened
  <2>3. ArmedOK(g)'
    BY <2>1 DEF DescriptorOK, ArmedOK, Opened, Same
  <2>4. WatchedOK(g)'
    <3>1. CASE g \in aio.fdMask
      <4>1. /\ aio.clientData[g] \in Sockets /\ Active(aio.clientData[g])
            /\ sock[aio.clientData[g]].fd = g
        BY <2>1, <3>1 DEF DescriptorOK, WatchedOK
      <4>2. \/ aio.clientData[g] \notin S
            \/ sock'[aio.clientData[g]] = sock[aio.clientData[g]]
        BY <4>1, NoneIsNone DEF Held, Within
      <4>3. /\ Active(aio.clientData[g])' <=> Active(aio.clientData[g])'
            /\ g \in aio'.fdMask /\ aio'.clientData[g] = aio.clientData[g]
        BY <2>1, <3>1 DEF Same
      <4>4. QED
        BY <1>1, <4>1, <4>2, <4>3 DEF WatchedOK, Active
    <3>2. CASE g \notin aio.fdMask
      BY <2>1, <3>2 DEF DescriptorOK, WatchedOK, Same
    <3>3. QED
      BY <3>1, <3>2
  <2>5. QED
    BY <2>2, <2>3, <2>4 DEF DescriptorOK
<1>3. ASSUME NEW t \in Sockets \ S PROVE SocketOK(t)'
  <2>1. SocketOK(t) /\ sock'[t] = sock[t] /\ waiting'[t] = waiting[t]
    BY DEF OwnInv
  <2>2. Active(t) /\ sock[t].fd # None => sock[t].fd \in Fds \ F
    BY SocketTypes DEF Held
  <2>3. Active(t) /\ Pending(t) => sock[t].acceptedSock \in Fds \ F
    BY <2>1 DEF Held, SocketOK, UsableOK
  <2>4. Active(t) /\ sock[t].fd = None => sock[t].state = "Unconnected" \/ waiting[t] = {}
    BY SocketTypes, <2>1, NoneIsNone, IInvParts
       DEF SocketOK, UsableOK, Watched, AioOK, AioStates
  <2>5. Active(t) /\ sock[t].fd # None =>
           Same(aio, aio', sock[t].fd) /\ kernel'[sock[t].fd] = kernel[sock[t].fd]
    BY <2>2
  <2>6. Active(t) /\ Pending(t) => kernel'[sock[t].acceptedSock] = kernel[sock[t].acceptedSock]
    BY <2>3
  <2>7. Active(t) /\ sock[t].fd = None => ~Watched(t)
    BY NoneIsNone, IInvParts DEF Watched, AioOK, AioStates
  <2>8. UsableOK(t)'
    BY <1>1, <2>1, <2>5, <2>6, <2>7
       DEF SocketOK, UsableOK, Listening, Watched, Takes, Opened, Same, Kinds, Active, Pending
  <2>9. waiting[t] # {} => Same(aio, aio', sock[t].fd)
    BY WaiterActive, <2>5, NoneIsNone
  <2>10. WaitingOK(t)'
    BY <2>1, <2>9 DEF SocketOK, WaitingOK, Armed, Takes, Same, Kinds
  <2>11. QED
    BY <2>8, <2>10 DEF SocketOK
<1>4. Disjoint'
  <2>1. SUFFICES ASSUME NEW s \in Sockets, NEW t \in Sockets, Holders(s, t)'
                 PROVE  Held(s)' \cap Held(t)' \subseteq {None}
    BY DEF Disjoint
  <2>2. CASE s \in S /\ t \in S
    BY <2>1, <2>2
  <2>3. CASE s \notin S /\ t \notin S
    BY <1>1, <2>1, <2>3 DEF OwnInv, Disjoint, Holders
  <2>4. ASSUME NEW x \in S, NEW y \in Sockets \ S, Holders(x, y)'
        PROVE  Held(x)' \cap Held(y)' \subseteq {None}
    <3>1. Active(y) /\ Held(y)' = Held(y)
      BY <1>1, <2>4 DEF Holders
    <3>2. CASE sock'[x] = sock[x]
      BY <1>1, <2>4, <3>1, <3>2 DEF OwnInv, Disjoint, Holders
    <3>3. CASE Within(x, F)'
      BY <2>4, <3>1, <3>3 DEF Within, Holders
    <3>4. QED
      BY <3>2, <3>3
  <2>5. Holders(t, s)'
    BY <2>1 DEF Holders
  <2>6. QED
    BY <2>1, <2>2, <2>3, <2>4, <2>5
<1>5. QED
  BY <1>2, <1>3, <1>4 DEF OwnInv

\* What an active socket holds is open.
LEMMA HeldOpened ==
    ASSUME IInv, OwnInv, NEW t \in Sockets, Active(t), NEW g \in Held(t), g # None
    PROVE  g \in Fds /\ Opened(g)
<1>1. UsableOK(t) /\ sock[t].fd \in Fds \cup {None}
  BY SocketTypes DEF OwnInv, SocketOK
<1>2. QED
  BY <1>1 DEF UsableOK, Held, Opened

\* A descriptor that is not open is not looked after.
LEMMA ClosedQuiet ==
    ASSUME IInv, OwnInv, NEW fd \in Fds, ~Opened(fd)
    PROVE  /\ fd \notin aio.fdMask /\ aio.clientData[fd] = NoData
           /\ \A k \in Kinds : fd \notin aio.mask[k] /\ <<fd, k>> \notin events
<1>1. OpenedOK(fd) /\ ArmedOK(fd) /\ WatchedOK(fd)
  BY DEF OwnInv, DescriptorOK
<1>2. fd \notin aio.fdMask
  BY <1>1, HeldOpened, NoneIsNone DEF WatchedOK, Held
<1>3. QED
  BY <1>1, <1>2 DEF ArmedOK, WatchedOK

\* A step on one socket and the one descriptor it holds, or comes to hold.
LEMMA OneSocket ==
    ASSUME IInv, OwnInv, IInv', NEW s \in Sockets, NEW fd \in Fds,
           \A t \in Sockets \ {s} : sock'[t] = sock[t] /\ waiting'[t] = waiting[t],
           \A g \in Fds \ {fd} : Same(aio, aio', g) /\ kernel'[g] = kernel[g],
           events' \subseteq events,
           \/ Active(s) /\ Held(s) \subseteq {fd, None} /\ fd \in Held(s)
           \/ ~Active(s) /\ ~Opened(fd),
           Active(s)' => Held(s)' \subseteq {fd, None},
           SocketOK(s)', DescriptorOK(fd)'
    PROVE  OwnInv'
<1> DEFINE S == {s}
           F == {fd}
<1>1. \A t \in Sockets \ S : Active(t) => Held(t) \cap F = {}
  <2>1. SUFFICES ASSUME NEW t \in Sockets \ S, Active(t), fd \in Held(t) PROVE FALSE
    OBVIOUS
  <2>2. Opened(fd)
    BY <2>1, HeldOpened, NoneIsNone
  <2>3. QED
    BY <2>1, <2>2, NoneIsNone DEF OwnInv, Disjoint, Holders
<1>2. \A x, y \in S : Holders(x, y)' => Held(x)' \cap Held(y)' \subseteq {None}
  BY DEF Holders
<1>3. S \in SUBSET Sockets /\ F \in SUBSET Fds
  OBVIOUS
<1>4. \A x \in S : Within(x, F)
  BY DEF Within
<1>5. \A x \in S : Within(x, F)'
  BY DEF Within
<1>6. /\ \A t \in Sockets \ S : sock'[t] = sock[t] /\ waiting'[t] = waiting[t]
      /\ \A g \in Fds \ F : Same(aio, aio', g) /\ kernel'[g] = kernel[g]
      /\ \A g \in Fds \ F : \A k \in Kinds : <<g, k>> \in events' => <<g, k>> \in events
      /\ \A x \in S : SocketOK(x)'
      /\ \A g \in F : DescriptorOK(g)'
  OBVIOUS
<1> HIDE DEF S, F
<1>7. QED
  BY <1>1, <1>2, <1>3, <1>4, <1>5, <1>6, Frame

LEMMA SameSelf == \A a, g : Same(a, a, g)
BY DEF Same

\* A step that changes nothing that matters keeps the invariant.
LEMMA Unmoved ==
    ASSUME IInv, OwnInv, IInv', UNCHANGED <<aio, sock, kernel, events, waiting>>
    PROVE  OwnInv'
<1> DEFINE S == {}
           F == {}
<1>1. /\ S \in SUBSET Sockets /\ F \in SUBSET Fds
      /\ \A t \in Sockets \ S : sock'[t] = sock[t] /\ waiting'[t] = waiting[t]
      /\ \A g \in Fds \ F : Same(aio, aio', g) /\ kernel'[g] = kernel[g]
      /\ \A g \in Fds \ F : \A k \in Kinds : <<g, k>> \in events' => <<g, k>> \in events
      /\ \A x \in S : sock'[x] = sock[x] \/ (Within(x, F) /\ Within(x, F)')
      /\ \A t \in Sockets \ S : Active(t) => Held(t) \cap F = {}
      /\ \A x \in S : SocketOK(x)'
      /\ \A fd \in F : DescriptorOK(fd)'
      /\ \A x, y \in S : Holders(x, y)' => Held(x)' \cap Held(y)' \subseteq {None}
  BY SameSelf
<1> HIDE DEF S, F
<1>2. QED
  BY <1>1, Frame

-----------------------------------------------------------------------------
(* Each primitive keeps the ownership.                                     *)

LEMMA CreateOwn ==
    ASSUME IInv, OwnInv, IInv', NEW s \in Sockets, Create(s)
    PROVE  OwnInv'
<1>1. PICK fd \in Fds :
         /\ kernel[fd].phase = "free"
         /\ kernel' = [kernel EXCEPT ![fd] = Descriptor("fresh")]
         /\ sock' = [sock EXCEPT ![s] = NewSocket(fd, "Unconnected")]
  BY DEF Create, IsNew
<1>2. /\ events = {} /\ ~Active(s)
      /\ UNCHANGED <<aio, events, waiting>>
  BY DEF Create, Active
<1>3. /\ ~Opened(fd) /\ fd # 0 /\ fd # None
  BY <1>1, NoneIsNone DEF Opened, OwnInv, DescriptorOK, OpenedOK
<1>4. /\ fd \notin aio.fdMask /\ aio.clientData[fd] = NoData
      /\ \A k \in Kinds : fd \notin aio.mask[k]
  BY <1>3, ClosedQuiet
<1>5. /\ sock'[s] = NewSocket(fd, "Unconnected")
      /\ \A t \in Sockets \ {s} : sock'[t] = sock[t]
      /\ kernel'[fd] = Descriptor("fresh")
      /\ \A g \in Fds \ {fd} : kernel'[g] = kernel[g]
  BY <1>1, IInvParts
<1>6. waiting'[s] = {}
  BY <1>2, WaiterActive
<1>7. Active(s)' /\ Held(s)' = {fd}
  BY <1>5 DEF Active, Held, Pending, NewSocket
<1>8. SocketOK(s)'
  BY <1>2, <1>4, <1>5, <1>6
     DEF SocketOK, UsableOK, WaitingOK, Active, NewSocket, Descriptor, Opened,
         Takes, Pending, Kinds
<1>9. DescriptorOK(fd)'
  BY <1>2, <1>3, <1>4, <1>5, <1>7
     DEF DescriptorOK, OpenedOK, ArmedOK, WatchedOK, Descriptor, Opened
<1>10. QED
  BY <1>2, <1>3, <1>5, <1>7, <1>8, <1>9, OneSocket, SameSelf

\* The socket of a primitive is active, and if it holds a descriptor of its own
\* and keeps none for acceptFrom, that is all it holds.
LEMMA UsableParts ==
    ASSUME IInv, OwnInv, NEW s \in Sockets, Usable(s)
    PROVE  /\ events = {} /\ Active(s) /\ SocketOK(s)
           /\ ~Pending(s) => Held(s) = {sock[s].fd}
           /\ sock[s].fd # None => /\ sock[s].fd \in Fds /\ sock[s].fd # 0
                                   /\ DescriptorOK(sock[s].fd)
                                   /\ Opened(sock[s].fd)
           /\ sock[s].state \in States
<1>1. events = {} /\ Active(s) /\ SocketOK(s) /\ sock[s].state \in States
  BY SocketTypes DEF Usable, Active, OwnInv
<1>2. ~Pending(s) => Held(s) = {sock[s].fd}
  BY DEF Held
<1>3. ASSUME sock[s].fd # None
      PROVE  /\ sock[s].fd \in Fds /\ sock[s].fd # 0
             /\ DescriptorOK(sock[s].fd) /\ Opened(sock[s].fd)
  <2>1. sock[s].fd \in Fds
    BY <1>3, SocketTypes
  <2>2. DescriptorOK(sock[s].fd) /\ Opened(sock[s].fd)
    BY <1>1, <1>3, <2>1 DEF OwnInv, SocketOK, UsableOK
  <2>3. QED
    BY <2>1, <2>2 DEF DescriptorOK, OpenedOK, Opened
<1>4. QED
  BY <1>1, <1>2, <1>3

\* Nobody waits on a socket that is not connected; if it is looked after, it is
\* the owner.
LEMMA UnconnectedParts ==
    ASSUME IInv, OwnInv, NEW s \in Sockets, Active(s), sock[s].state = "Unconnected",
           sock[s].fd # None
    PROVE  /\ waiting[s] = {} /\ ~Pending(s)
           /\ sock[s].fd \in aio.fdMask => aio.clientData[sock[s].fd] = s
           /\ kernel[sock[s].fd].phase # "listening"
           /\ ~sock[s].multiListen
<1> DEFINE fd == sock[s].fd
<1>1. /\ SocketOK(s) /\ fd \in Fds /\ DescriptorOK(fd) /\ ~Pending(s)
      /\ waiting[s] \subseteq {"conn", "read", "write"}
  BY SocketTypes DEF OwnInv, Pending, Semaphores
<1>2. kernel[fd].phase # "listening" /\ ~sock[s].multiListen
  BY <1>1 DEF SocketOK, UsableOK, Listening
<1>3. waiting[s] = {}
  <2>1. "read" \notin waiting[s] /\ "write" \notin waiting[s]
    BY <1>1 DEF SocketOK, WaitingOK
  <2>2. "conn" \notin waiting[s]
    BY <1>1, <1>2 DEF SocketOK, WaitingOK, UsableOK, Armed, Takes, DescriptorOK,
                      ArmedOK, Kinds
  <2>3. QED
    BY <1>1, <2>1, <2>2
<1>4. ASSUME fd \in aio.fdMask PROVE aio.clientData[fd] = s
  <2> DEFINE t == aio.clientData[fd]
  <2>1. t \in Sockets /\ Active(t) /\ sock[t].fd = fd
    BY <1>1, <1>4 DEF DescriptorOK, WatchedOK
  <2>2. fd \in Held(t) /\ fd \in Held(s)
    BY <2>1 DEF Held
  <2> HIDE DEF t
  <2>3. t = s
    BY <1>1, <2>1, <2>2, NoneIsNone DEF OwnInv, Disjoint, Holders
  <2>4. QED
    BY <2>3 DEF t
<1>5. QED
  BY <1>1, <1>2, <1>3, <1>4

LEMMA ListenOwn ==
    ASSUME IInv, OwnInv, IInv', NEW s \in Sockets, NEW multi \in BOOLEAN,
           ListenOnPort(s, multi)
    PROVE  OwnInv'
<1>0. PICK fd : fd = sock[s].fd
  OBVIOUS
<1> DEFINE a == aioEnable(aio, fd, s)
<1>1. /\ fd # None /\ Usable(s) /\ sock[s].state = "Unconnected"
      /\ kernel[fd].phase = "fresh"
  BY <1>0 DEF ListenOnPort
<1>2. /\ events = {} /\ Active(s) /\ SocketOK(s) /\ Held(s) = {fd}
      /\ fd \in Fds /\ fd # 0 /\ DescriptorOK(fd)
      /\ waiting[s] = {}
      /\ fd \in aio.fdMask => aio.clientData[fd] = s
  BY <1>0, <1>1, UsableParts, UnconnectedParts
<1>3. AioOK(aio) /\ AioOK(a)
  BY <1>2, EnableOK, IInvParts, SocketAssumption
<1>4. aio' = aioHandle(a, fd, "acceptHandler", {"rd", "ex"})
  BY <1>0 DEF ListenOnPort
<1>5. /\ \A g \in Fds \ {fd} : Same(aio, a, g)
      /\ fd \in aio.fdMask => a = aio
      /\ fd \notin aio.fdMask => /\ fd \in a.fdMask /\ a.clientData[fd] = s
                                 /\ \A k \in Kinds : fd \notin a.mask[k]
  BY <1>2, <1>3, EnableEffect DEF AioOK
<1> HIDE DEF a
<1>6. /\ \A g \in Fds \ {fd} : Same(a, aio', g)
      /\ aio'.fdMask = a.fdMask /\ aio'.clientData = a.clientData
      /\ fd \in aio'.mask["rd"] /\ aio'.handler["rd"][fd] = "acceptHandler"
      /\ fd \in aio'.mask["ex"] /\ aio'.handler["ex"][fd] = "acceptHandler"
      /\ fd \in aio'.mask["wr"] <=> fd \in a.mask["wr"]
  BY <1>2, <1>3, <1>4, HandleEffect DEF AioOK, Kinds
<1>7. fd \notin aio'.mask["wr"]
  BY <1>0, <1>1, <1>2, <1>5, <1>6 DEF SocketOK, UsableOK, Kinds
<1>8. fd \in aio'.fdMask /\ aio'.clientData[fd] = s
  BY <1>2, <1>5, <1>6
<1>9. \A g \in Fds \ {fd} : Same(aio, aio', g)
  BY <1>5, <1>6, SameTransitive
<1>10. /\ sock' = [sock EXCEPT ![s].multiListen = multi,
                               ![s].state = "WaitingForConnection"]
       /\ kernel' = [kernel EXCEPT ![fd].phase = "listening"]
       /\ waiting' = [waiting EXCEPT ![s] = @ \cup {"conn"}]
       /\ events' = events
  BY <1>0 DEF ListenOnPort, Wait
<1>11. /\ sock'[s].live = sock[s].live /\ sock'[s].fd = fd
       /\ sock'[s].state = "WaitingForConnection"
       /\ \A t \in Sockets \ {s} : sock'[t] = sock[t] /\ waiting'[t] = waiting[t]
       /\ waiting'[s] = {"conn"}
  BY <1>0, <1>2, <1>10, IInvParts DEF SockStates
<1>12. /\ kernel'[fd].phase = "listening"
       /\ kernel'[fd].data = kernel[fd].data /\ kernel'[fd].fin = kernel[fd].fin
       /\ kernel'[fd].oob = kernel[fd].oob
       /\ \A g \in Fds \ {fd} : kernel'[g] = kernel[g]
  BY <1>2, <1>10, IInvParts DEF KernelStates
<1>13. Active(s)' /\ Held(s)' = {fd} /\ ~Pending(s)'
  BY <1>2, <1>11 DEF Active, Held, Pending
<1>14. SocketOK(s)'
  BY <1>6, <1>7, <1>8, <1>11, <1>12, <1>13
     DEF SocketOK, UsableOK, WaitingOK, Watched, Armed, Opened, Takes, Listening
<1>15. DescriptorOK(fd)'
  <2>1. OpenedOK(fd)'
    <3>1. ~kernel[fd].data /\ ~kernel[fd].fin
      BY <1>1, <1>2 DEF DescriptorOK, OpenedOK, Descriptor
    <3>2. ~kernel'[fd].data /\ ~kernel'[fd].fin
      BY <1>12, <3>1
    <3>3. s \in Sockets /\ Active(s)' /\ fd \in Held(s)'
      BY <1>13
    <3>4. QED
      BY <1>2, <1>12, <3>2, <3>3 DEF OpenedOK
  <2>2. ArmedOK(fd)'
    <3>1. \A k \in Kinds : fd \in aio'.mask[k] =>
             aio'.handler[k][fd] = "acceptHandler" /\ k # "wr"
      BY <1>6, <1>7 DEF Kinds
    <3>2. Opened(fd)'
      BY <1>12 DEF Opened
    <3>3. events' = {}
      BY <1>2, <1>10
    <3>4. QED
      BY <1>12, <3>1, <3>2, <3>3 DEF ArmedOK
  <2>3. WatchedOK(fd)'
    BY <1>8, <1>11, <1>13 DEF WatchedOK
  <2>4. QED
    BY <2>1, <2>2, <2>3 DEF DescriptorOK
<1>16. QED
  BY <1>2, <1>9, <1>10, <1>11, <1>12, <1>13, <1>14, <1>15, OneSocket

LEMMA ConnectAtOnceOwn ==
    ASSUME IInv, OwnInv, IInv', NEW s \in Sockets, ConnectAtOnce(s)
    PROVE  OwnInv'
<1>0. PICK fd : fd = sock[s].fd
  OBVIOUS
<1>1. /\ fd # None /\ Usable(s) /\ sock[s].state = "Unconnected"
      /\ kernel[fd].phase = "fresh"
  BY <1>0 DEF ConnectAtOnce, Connecting
<1>2. /\ events = {} /\ Active(s) /\ SocketOK(s) /\ Held(s) = {fd}
      /\ fd \in Fds /\ fd # 0 /\ DescriptorOK(fd)
      /\ waiting[s] = {} /\ ~sock[s].multiListen
      /\ fd \in aio.fdMask => aio.clientData[fd] = s
  BY <1>0, <1>1, UsableParts, UnconnectedParts
<1>3. AioOK(aio) /\ aio' = aioEnable(aio, fd, s)
  BY <1>0, IInvParts DEF ConnectAtOnce
<1>4. /\ \A g \in Fds \ {fd} : Same(aio, aio', g)
      /\ fd \in aio.fdMask => aio' = aio
      /\ fd \notin aio.fdMask => /\ fd \in aio'.fdMask /\ aio'.clientData[fd] = s
                                 /\ \A k \in Kinds : fd \notin aio'.mask[k]
  BY <1>2, <1>3, EnableEffect DEF AioOK
<1>5. fd \in aio'.fdMask /\ aio'.clientData[fd] = s /\ fd \notin aio'.mask["wr"]
  BY <1>0, <1>1, <1>2, <1>4 DEF SocketOK, UsableOK, Kinds
<1>6. /\ sock' = [sock EXCEPT ![s].state = "Connected"]
      /\ kernel' = [kernel EXCEPT ![fd].phase = "connected"]
      /\ waiting' = [waiting EXCEPT ![s] = @ \ {"conn"}]
      /\ events' = events
  BY <1>0 DEF ConnectAtOnce, Notify
<1>7. /\ sock'[s].live = sock[s].live /\ sock'[s].fd = fd
      /\ sock'[s].state = "Connected" /\ sock'[s].multiListen = sock[s].multiListen
      /\ \A t \in Sockets \ {s} : sock'[t] = sock[t] /\ waiting'[t] = waiting[t]
      /\ waiting'[s] = {}
  BY <1>0, <1>2, <1>6, IInvParts DEF SockStates
<1>8. /\ kernel'[fd].phase = "connected"
      /\ \A g \in Fds \ {fd} : kernel'[g] = kernel[g]
  BY <1>2, <1>6, IInvParts DEF KernelStates
<1>9. Active(s)' /\ Held(s)' = {fd} /\ ~Pending(s)'
  BY <1>2, <1>7 DEF Active, Held, Pending
<1>10. SocketOK(s)'
  BY <1>2, <1>5, <1>7, <1>8, <1>9
     DEF SocketOK, UsableOK, WaitingOK, Watched, Opened, Takes
<1>11. DescriptorOK(fd)'
  <2>1. OpenedOK(fd)'
    BY <1>2, <1>8, <1>9 DEF OpenedOK
  <2>2. ArmedOK(fd)'
    <3>1. \A k \in Kinds : fd \in aio'.mask[k] => aio' = aio
      BY <1>4
    <3>2. Opened(fd)'
      BY <1>8 DEF Opened
    <3>3. events' = {}
      BY <1>2, <1>6
    <3>4. QED
      BY <1>1, <1>2, <1>8, <3>1, <3>2, <3>3 DEF DescriptorOK, ArmedOK
  <2>3. WatchedOK(fd)'
    BY <1>5, <1>7, <1>9 DEF WatchedOK
  <2>4. QED
    BY <2>1, <2>2, <2>3 DEF DescriptorOK
<1>12. QED
  BY <1>2, <1>4, <1>6, <1>7, <1>8, <1>9, <1>10, <1>11, OneSocket

LEMMA ConnectInProgressOwn ==
    ASSUME IInv, OwnInv, IInv', NEW s \in Sockets, ConnectInProgress(s)
    PROVE  OwnInv'
<1>0. PICK fd : fd = sock[s].fd
  OBVIOUS
<1> DEFINE a == aioEnable(aio, fd, s)
<1>1. /\ fd # None /\ Usable(s) /\ sock[s].state = "Unconnected"
      /\ kernel[fd].phase = "fresh"
  BY <1>0 DEF ConnectInProgress, Connecting
<1>2. /\ events = {} /\ Active(s) /\ SocketOK(s) /\ Held(s) = {fd}
      /\ fd \in Fds /\ fd # 0 /\ DescriptorOK(fd)
      /\ waiting[s] = {} /\ ~sock[s].multiListen
      /\ fd \in aio.fdMask => aio.clientData[fd] = s
  BY <1>0, <1>1, UsableParts, UnconnectedParts
<1>3. AioOK(aio) /\ AioOK(a)
  BY <1>2, EnableOK, IInvParts, SocketAssumption
<1>4. aio' = aioHandle(a, fd, "connectHandler", {"wr", "ex"})
  BY <1>0 DEF ConnectInProgress
<1>5. /\ \A g \in Fds \ {fd} : Same(aio, a, g)
      /\ fd \in aio.fdMask => a = aio
      /\ fd \notin aio.fdMask => /\ fd \in a.fdMask /\ a.clientData[fd] = s
                                 /\ \A k \in Kinds : fd \notin a.mask[k]
  BY <1>2, <1>3, EnableEffect DEF AioOK
<1> HIDE DEF a
<1>6. /\ \A g \in Fds \ {fd} : Same(a, aio', g)
      /\ aio'.fdMask = a.fdMask /\ aio'.clientData = a.clientData
      /\ fd \in aio'.mask["wr"] /\ aio'.handler["wr"][fd] = "connectHandler"
      /\ fd \in aio'.mask["ex"] /\ aio'.handler["ex"][fd] = "connectHandler"
      /\ fd \in aio'.mask["rd"] <=> fd \in a.mask["rd"]
      /\ aio'.handler["rd"][fd] = a.handler["rd"][fd]
  BY <1>2, <1>3, <1>4, HandleEffect DEF AioOK, Kinds
<1>7. fd \in aio'.fdMask /\ aio'.clientData[fd] = s
  BY <1>2, <1>5, <1>6
<1>8. fd \in aio'.mask["rd"] => aio'.handler["rd"][fd] = "dataHandler"
  BY <1>1, <1>2, <1>5, <1>6 DEF DescriptorOK, ArmedOK, Kinds
<1>9. \A g \in Fds \ {fd} : Same(aio, aio', g)
  BY <1>5, <1>6, SameTransitive
<1>10. /\ sock' = [sock EXCEPT ![s].state = "WaitingForConnection"]
       /\ kernel' = [kernel EXCEPT ![fd].phase = "connecting"]
       /\ waiting' = [waiting EXCEPT ![s] = @ \cup {"conn"}]
       /\ events' = events
  BY <1>0 DEF ConnectInProgress, Wait
<1>11. /\ sock'[s].live = sock[s].live /\ sock'[s].fd = fd
       /\ sock'[s].state = "WaitingForConnection"
       /\ sock'[s].multiListen = sock[s].multiListen
       /\ \A t \in Sockets \ {s} : sock'[t] = sock[t] /\ waiting'[t] = waiting[t]
       /\ waiting'[s] = {"conn"}
  BY <1>0, <1>2, <1>10, IInvParts DEF SockStates
<1>12. /\ kernel'[fd].phase = "connecting"
       /\ \A g \in Fds \ {fd} : kernel'[g] = kernel[g]
  BY <1>2, <1>10, IInvParts DEF KernelStates
<1>13. Active(s)' /\ Held(s)' = {fd} /\ ~Pending(s)'
  BY <1>2, <1>11 DEF Active, Held, Pending
<1>14. SocketOK(s)'
  BY <1>2, <1>6, <1>7, <1>11, <1>12, <1>13
     DEF SocketOK, UsableOK, WaitingOK, Watched, Armed, Opened, Takes, Listening
<1>15. DescriptorOK(fd)'
  <2>1. OpenedOK(fd)'
    BY <1>2, <1>12, <1>13 DEF OpenedOK
  <2>2. ArmedOK(fd)'
    <3>1. \A k \in Kinds : fd \in aio'.mask[k] =>
             \/ aio'.handler[k][fd] = "connectHandler" /\ k # "rd"
             \/ aio'.handler[k][fd] = "dataHandler"
      BY <1>6, <1>8 DEF Kinds
    <3>2. Opened(fd)'
      BY <1>12 DEF Opened
    <3>3. events' = {}
      BY <1>2, <1>10
    <3>4. QED
      BY <1>12, <3>1, <3>2, <3>3 DEF ArmedOK
  <2>3. WatchedOK(fd)'
    BY <1>7, <1>11, <1>13 DEF WatchedOK
  <2>4. QED
    BY <2>1, <2>2, <2>3 DEF DescriptorOK
<1>16. QED
  BY <1>2, <1>9, <1>10, <1>11, <1>12, <1>13, <1>14, <1>15, OneSocket

LEMMA ConnectFailsOwn ==
    ASSUME IInv, OwnInv, IInv', NEW s \in Sockets, ConnectFails(s)
    PROVE  OwnInv'
<1>0. PICK fd : fd = sock[s].fd
  OBVIOUS
<1>1. fd # None /\ Usable(s) /\ sock[s].state = "Unconnected"
  BY <1>0 DEF ConnectFails, Connecting
<1>2. /\ events = {} /\ Active(s) /\ SocketOK(s) /\ Held(s) = {fd}
      /\ fd \in Fds /\ fd # 0 /\ DescriptorOK(fd) /\ Opened(fd)
      /\ waiting[s] = {} /\ ~sock[s].multiListen /\ ~Pending(s)
      /\ kernel[fd].phase # "listening"
      /\ fd \in aio.fdMask => aio.clientData[fd] = s
  BY <1>0, <1>1, UsableParts, UnconnectedParts
<1>3. AioOK(aio) /\ aio' = aioEnable(aio, fd, s)
  BY <1>0, IInvParts DEF ConnectFails
<1>4. /\ \A g \in Fds \ {fd} : Same(aio, aio', g)
      /\ fd \in aio.fdMask => aio' = aio
      /\ fd \notin aio.fdMask => /\ fd \in aio'.fdMask /\ aio'.clientData[fd] = s
                                 /\ \A k \in Kinds : fd \notin aio'.mask[k]
  BY <1>2, <1>3, EnableEffect DEF AioOK
<1>5. fd \in aio'.fdMask /\ aio'.clientData[fd] = s /\ fd \notin aio'.mask["wr"]
  BY <1>0, <1>1, <1>2, <1>4 DEF SocketOK, UsableOK, Kinds
<1>6. /\ UNCHANGED <<sock, kernel, events>>
      /\ waiting' = [waiting EXCEPT ![s] = @ \ {"conn"}]
  BY DEF ConnectFails, Notify
<1>7. /\ \A t \in Sockets \ {s} : sock'[t] = sock[t] /\ waiting'[t] = waiting[t]
      /\ waiting'[s] = {}
  BY <1>2, <1>6, IInvParts
<1>8. Active(s)' /\ Held(s)' = {fd} /\ ~Pending(s)'
  BY <1>2, <1>6 DEF Active, Held, Pending
<1>9. SocketOK(s)'
  BY <1>0, <1>1, <1>2, <1>5, <1>6, <1>7, <1>8
     DEF SocketOK, UsableOK, WaitingOK, Watched, Opened, Takes
<1>10. DescriptorOK(fd)'
  <2>1. OpenedOK(fd)'
    BY <1>2, <1>6, <1>8 DEF DescriptorOK, OpenedOK
  <2>2. ArmedOK(fd)'
    <3>1. \A k \in Kinds : fd \in aio'.mask[k] => aio' = aio
      BY <1>4
    <3>2. events' = {}
      BY <1>2, <1>6
    <3>3. QED
      BY <1>2, <1>6, <3>1, <3>2 DEF DescriptorOK, ArmedOK, Opened
  <2>3. WatchedOK(fd)'
    BY <1>0, <1>2, <1>5, <1>6, <1>8 DEF WatchedOK
  <2>4. QED
    BY <2>1, <2>2, <2>3 DEF DescriptorOK
<1>11. QED
  BY <1>2, <1>4, <1>6, <1>7, <1>8, <1>9, <1>10, OneSocket

\* A descriptor that is disabled and closed is in order.
LEMMA ClosedOK ==
    ASSUME NEW fd \in Fds, fd # 0, kernel'[fd] = Descriptor("free"),
           fd \notin aio'.fdMask, aio'.clientData[fd] = NoData,
           \A k \in Kinds : fd \notin aio'.mask[k] /\ <<fd, k>> \notin events'
    PROVE  DescriptorOK(fd)'
<1>1. kernel'[fd].phase = "free"
  BY DEF Descriptor
<1>2. OpenedOK(fd)'
  BY <1>1 DEF OpenedOK, Opened
<1>3. ArmedOK(fd)' /\ WatchedOK(fd)'
  BY DEF ArmedOK, WatchedOK
<1>4. QED
  BY <1>2, <1>3 DEF DescriptorOK

LEMMA CloseOwn ==
    ASSUME IInv, OwnInv, IInv', NEW s \in Sockets, CloseConnection(s)
    PROVE  OwnInv'
<1>0. PICK fd : fd = sock[s].fd
  OBVIOUS
<1>1. fd # None /\ Usable(s) /\ ~Pending(s)
  BY <1>0 DEF CloseConnection
<1>2. /\ events = {} /\ Active(s) /\ SocketOK(s) /\ Held(s) = {fd}
      /\ fd \in Fds /\ fd # 0
  BY <1>0, <1>1, UsableParts
<1>3. AioOK(aio) /\ aio' = aioDisable(aio, fd)
  BY <1>0, IInvParts DEF CloseConnection
<1>4. /\ \A g \in Fds \ {fd} : Same(aio, aio', g)
      /\ fd \notin aio'.fdMask /\ aio'.clientData[fd] = NoData
      /\ \A k \in Kinds : fd \notin aio'.mask[k]
  BY <1>2, <1>3, DisableEffect
<1>5. /\ sock' = [sock EXCEPT ![s].state = "Unconnected", ![s].fd = None]
      /\ kernel' = [kernel EXCEPT ![fd] = Descriptor("free")]
      /\ waiting' = [waiting EXCEPT ![s] = {}]
      /\ events' = events
  BY <1>0 DEF CloseConnection
<1>6. /\ sock'[s].fd = None /\ sock'[s].state = "Unconnected"
      /\ \A t \in Sockets \ {s} : sock'[t] = sock[t] /\ waiting'[t] = waiting[t]
      /\ waiting'[s] = {}
      /\ kernel'[fd] = Descriptor("free")
      /\ \A g \in Fds \ {fd} : kernel'[g] = kernel[g]
  BY <1>2, <1>5, IInvParts DEF SockStates
<1>7. Held(s)' = {None} /\ ~Pending(s)'
  BY <1>6 DEF Held, Pending
<1>8. SocketOK(s)'
  BY <1>6, <1>7 DEF SocketOK, UsableOK, WaitingOK
<1>9. DescriptorOK(fd)'
  BY <1>2, <1>4, <1>5, <1>6, ClosedOK
<1>10. QED
  BY <1>2, <1>4, <1>5, <1>6, <1>7, <1>8, <1>9, OneSocket

\* A step that drops a socket that holds nothing.
LEMMA Dropped ==
    ASSUME IInv, OwnInv, IInv', NEW s \in Sockets,
           sock' = [sock EXCEPT ![s] = NoSocket],
           Active(s) => Held(s) = {None},
           \A t \in Sockets \ {s} : waiting'[t] = waiting[t], waiting'[s] = {},
           UNCHANGED <<aio, kernel, events>>
    PROVE  OwnInv'
<1> DEFINE S == {s}
           F == {}
<1>1. sock'[s] = NoSocket /\ \A t \in Sockets \ {s} : sock'[t] = sock[t]
  BY IInvParts
<1>2. ~Active(s)'
  BY <1>1 DEF Active, NoSocket
<1>3. SocketOK(s)'
  BY <1>2 DEF SocketOK, UsableOK, WaitingOK
<1>4. /\ S \in SUBSET Sockets /\ F \in SUBSET Fds
      /\ \A t \in Sockets \ S : sock'[t] = sock[t] /\ waiting'[t] = waiting[t]
      /\ \A g \in Fds \ F : Same(aio, aio', g) /\ kernel'[g] = kernel[g]
      /\ \A g \in Fds \ F : \A k \in Kinds : <<g, k>> \in events' => <<g, k>> \in events
      /\ \A x \in S : sock'[x] = sock[x] \/ (Within(x, F) /\ Within(x, F)')
      /\ \A t \in Sockets \ S : Active(t) => Held(t) \cap F = {}
      /\ \A x \in S : SocketOK(x)'
      /\ \A fd \in F : DescriptorOK(fd)'
      /\ \A x, y \in S : Holders(x, y)' => Held(x)' \cap Held(y)' \subseteq {None}
  BY <1>1, <1>2, <1>3, SameSelf DEF Holders, Within
<1> HIDE DEF S, F
<1>5. QED
  BY <1>4, Frame

LEMMA DestroyOwn ==
    ASSUME IInv, OwnInv, IInv', NEW s \in Sockets, Destroy(s)
    PROVE  OwnInv'
<1>0. PICK fd : fd = sock[s].fd
  OBVIOUS
<1>1. Usable(s) /\ ~Pending(s)
  BY DEF Destroy
<1>2. /\ events = {} /\ Active(s) /\ Held(s) = {fd}
      /\ fd # None => fd \in Fds /\ fd # 0
  BY <1>0, <1>1, UsableParts
<1>3. /\ sock' = [sock EXCEPT ![s] = NoSocket]
      /\ waiting' = [waiting EXCEPT ![s] = {}]
      /\ events' = events
  BY DEF Destroy
<1>4. /\ sock'[s] = NoSocket
      /\ \A t \in Sockets \ {s} : sock'[t] = sock[t] /\ waiting'[t] = waiting[t]
      /\ waiting'[s] = {}
  BY <1>3, IInvParts
<1>5. CASE fd = None
  <2>1. UNCHANGED <<aio, kernel, events>>
    BY <1>0, <1>3, <1>5 DEF Destroy
  <2>2. QED
    BY <1>2, <1>3, <1>4, <1>5, <2>1, Dropped
<1>6. CASE fd # None
  <2>1. /\ AioOK(aio) /\ aio' = aioDisable(aio, fd)
        /\ kernel' = [kernel EXCEPT ![fd] = Descriptor("free")]
    BY <1>0, <1>6, IInvParts DEF Destroy
  <2>2. /\ \A g \in Fds \ {fd} : Same(aio, aio', g)
        /\ fd \notin aio'.fdMask /\ aio'.clientData[fd] = NoData
        /\ \A k \in Kinds : fd \notin aio'.mask[k]
    BY <1>2, <1>6, <2>1, DisableEffect
  <2>3. /\ kernel'[fd] = Descriptor("free")
        /\ \A g \in Fds \ {fd} : kernel'[g] = kernel[g]
    BY <1>2, <1>6, <2>1, IInvParts
  <2>4. DescriptorOK(fd)'
    BY <1>2, <1>3, <1>6, <2>2, <2>3, ClosedOK
  <2>5. ~Active(s)'
    BY <1>4 DEF Active, NoSocket
  <2>6. SocketOK(s)'
    BY <1>4, <2>5 DEF SocketOK, UsableOK, WaitingOK
  <2>7. QED
    BY <1>2, <1>3, <1>4, <1>6, <2>2, <2>3, <2>4, <2>5, <2>6, OneSocket
<1>7. QED
  BY <1>5, <1>6

LEMMA ConnectionStatusOwn ==
    ASSUME IInv, OwnInv, IInv', NEW s \in Sockets, ConnectionStatus(s)
    PROVE  OwnInv'
<1>1. ~Active(s)
  BY DEF ConnectionStatus, Active
<1>2. waiting[s] = {}
  BY <1>1, WaiterActive
<1>3. QED
  BY <1>1, <1>2, Dropped DEF ConnectionStatus

LEMMA ReceiveDataAvailableOwn ==
    ASSUME IInv, OwnInv, IInv', NEW s \in Sockets, ReceiveDataAvailable(s)
    PROVE  OwnInv'
<1>0. PICK fd : fd = sock[s].fd
  OBVIOUS
<1>1. /\ Usable(s) /\ ~sock[s].multiListen
      /\ sock[s].state # "WaitingForConnection"
  BY DEF ReceiveDataAvailable, IsStream
<1>2. /\ events = {} /\ Active(s) /\ SocketOK(s) /\ Held(s) = {fd} /\ ~Pending(s)
      /\ fd # None => fd \in Fds /\ fd # 0 /\ DescriptorOK(fd) /\ Opened(fd)
  BY <1>0, <1>1, UsableParts DEF Pending
<1>3. /\ AioOK(aio) /\ aio' = aioHandle(aio, fd, "dataHandler", {"rd", "ex"})
      /\ UNCHANGED <<kernel, events>>
  BY <1>0, IInvParts DEF ReceiveDataAvailable
<1>4. fd # None => kernel[fd].phase # "listening"
  BY <1>0, <1>1, <1>2 DEF SocketOK, UsableOK, Listening
<1>5. \/ UNCHANGED <<sock, waiting>>
      \/ /\ sock[s].state = "Connected" /\ UNCHANGED waiting
         /\ sock' = [sock EXCEPT ![s].state = "OtherEndClosed"]
      \/ /\ sock[s].state = "Connected" /\ UNCHANGED sock
         /\ waiting' = [waiting EXCEPT ![s] = @ \cup {"read"}]
  BY DEF ReceiveDataAvailable, Wait
<1>6. CASE fd = None
  <2>1. aio' = aio
    BY <1>3, <1>6, NoneIsNone DEF aioHandle
  <2>2. ~Watched(s)
    BY <1>0, <1>3, <1>6, NoneIsNone DEF Watched, AioOK, AioStates
  <2>3. sock[s].state = "Unconnected"
    BY <1>2, <2>2 DEF SocketOK, UsableOK
  <2>4. UNCHANGED <<aio, sock, kernel, events, waiting>>
    BY <1>3, <1>5, <2>1, <2>3
  <2>5. QED
    BY <2>4, Unmoved
<1>7. CASE fd # None
  <2>1. /\ \A g \in Fds \ {fd} : Same(aio, aio', g)
        /\ aio'.fdMask = aio.fdMask /\ aio'.clientData = aio.clientData
        /\ fd \in aio'.mask["rd"] /\ aio'.handler["rd"][fd] = "dataHandler"
        /\ fd \in aio'.mask["ex"] /\ aio'.handler["ex"][fd] = "dataHandler"
        /\ fd \in aio'.mask["wr"] <=> fd \in aio.mask["wr"]
        /\ aio'.handler["wr"][fd] = aio.handler["wr"][fd]
    BY <1>2, <1>3, <1>7, HandleEffect DEF AioOK, Kinds
  <2>2. /\ sock'[s].live = sock[s].live /\ sock'[s].fd = fd
        /\ sock'[s].multiListen = sock[s].multiListen
        /\ \/ sock'[s].state = sock[s].state
           \/ sock[s].state = "Connected" /\ sock'[s].state = "OtherEndClosed"
        /\ \A t \in Sockets \ {s} : sock'[t] = sock[t] /\ waiting'[t] = waiting[t]
        /\ \/ waiting'[s] = waiting[s]
           \/ sock[s].state = "Connected" /\ waiting'[s] = waiting[s] \cup {"read"}
    BY <1>0, <1>5, IInvParts DEF SockStates
  <2>3. Active(s)' /\ Held(s)' = {fd} /\ ~Pending(s)'
    BY <1>1, <1>2, <2>2 DEF Active, Held, Pending
  <2>4. ~("conn" \in waiting[s] /\ Armed(s, "rd", "acceptHandler"))
    BY <1>0, <1>2, <1>4, <1>7 DEF Armed, DescriptorOK, ArmedOK, Kinds
  <2>5. UsableOK(s)'
    BY <1>0, <1>2, <1>3, <1>4, <1>7, <2>1, <2>2, <2>3
       DEF SocketOK, UsableOK, Watched, Opened, Takes
  <2>6. WaitingOK(s)'
    <3>1. sock[s].state = "Connected" =>
             /\ fd \in aio.fdMask /\ aio.clientData[fd] = s
             /\ ~Takes(fd, "wr", "connectHandler")
      BY <1>0, <1>2, <1>7 DEF SocketOK, UsableOK, Watched
    <3>2. "read" \in waiting'[s] \/ "write" \in waiting'[s] =>
             ~Takes(fd, "wr", "connectHandler")
      BY <1>0, <1>2, <2>2, <3>1 DEF SocketOK, WaitingOK, Kinds
    <3>3. "read" \in waiting'[s] \/ "write" \in waiting'[s] =>
             /\ sock'[s].state \in {"Connected", "OtherEndClosed"}
             /\ fd \in aio.fdMask /\ aio.clientData[fd] = s
      BY <1>0, <1>2, <2>2, <3>1 DEF SocketOK, WaitingOK, Armed
    <3>4. "read" \in waiting'[s] => Armed(s, "rd", "dataHandler")'
      BY <2>1, <2>2, <3>3 DEF Armed
    <3>5. "write" \in waiting'[s] => Armed(s, "wr", "dataHandler")'
      BY <1>0, <1>2, <2>1, <2>2 DEF SocketOK, WaitingOK, Armed
    <3>6. "conn" \in waiting'[s] => Armed(s, "wr", "connectHandler")'
      BY <1>0, <1>2, <2>1, <2>2, <2>4 DEF SocketOK, WaitingOK, Armed
    <3>7. \A k \in Kinds : Takes(fd, k, "connectHandler")' =>
                              Takes(fd, "wr", "connectHandler")
      BY <2>1 DEF Takes, Kinds
    <3>8. QED
      BY <2>2, <3>2, <3>3, <3>4, <3>5, <3>6, <3>7 DEF WaitingOK
  <2>7. DescriptorOK(fd)'
    <3>1. OpenedOK(fd)'
      BY <1>2, <1>3, <1>7, <2>3 DEF OpenedOK, DescriptorOK
    <3>2. ArmedOK(fd)'
      <4>1. \A k \in Kinds : fd \in aio'.mask[k] =>
               \/ aio'.handler[k][fd] = "dataHandler"
               \/ k = "wr" /\ fd \in aio.mask["wr"]
                  /\ aio'.handler[k][fd] = aio.handler["wr"][fd]
        BY <2>1 DEF Kinds
      <4>2. events' = {}
        BY <1>2, <1>3
      <4>3. QED
        BY <1>2, <1>3, <1>4, <1>7, <4>1, <4>2
           DEF DescriptorOK, ArmedOK, Opened, Kinds
    <3>3. WatchedOK(fd)'
      <4>1. fd \in aio.fdMask => aio.clientData[fd] = s
        BY <1>0, <1>2, <1>7, NoneIsNone
           DEF DescriptorOK, WatchedOK, OwnInv, Disjoint, Holders, Held
      <4>2. fd \notin aio.fdMask => /\ aio.clientData[fd] = NoData
                                    /\ fd \notin aio.mask["wr"]
        BY <1>0, <1>2, <1>7 DEF SocketOK, UsableOK, Watched, DescriptorOK, WatchedOK
      <4>3. fd \notin aio.fdMask =>
               \A k \in Kinds : fd \in aio'.mask[k] => aio'.handler[k][fd] = "dataHandler"
        BY <2>1, <4>2 DEF Kinds
      <4>4. QED
        BY <2>1, <2>2, <2>3, <4>1, <4>2, <4>3 DEF WatchedOK
    <3>4. QED
      BY <3>1, <3>2, <3>3 DEF DescriptorOK
  <2>8. SocketOK(s)'
    BY <2>5, <2>6 DEF SocketOK
  <2>9. QED
    BY <1>2, <1>3, <1>7, <2>1, <2>2, <2>3, <2>7, <2>8, OneSocket
<1>8. QED
  BY <1>6, <1>7

LEMMA SendDoneOwn ==
    ASSUME IInv, OwnInv, IInv', NEW s \in Sockets, SendDone(s)
    PROVE  OwnInv'
<1>0. PICK fd : fd = sock[s].fd
  OBVIOUS
<1>1. /\ Usable(s) /\ ~sock[s].multiListen /\ sock[s].state = "Connected"
  BY DEF SendDone, IsStream
<1>2. /\ events = {} /\ Active(s) /\ SocketOK(s) /\ Held(s) = {fd} /\ ~Pending(s)
  BY <1>0, <1>1, UsableParts DEF Pending
<1>3. fd \in aio.fdMask /\ aio.clientData[fd] = s
  BY <1>0, <1>1, <1>2 DEF SocketOK, UsableOK, Watched
<1>4. /\ fd \in Fds /\ fd # None /\ fd # 0 /\ DescriptorOK(fd) /\ Opened(fd)
  BY <1>0, <1>1, <1>3, UsableParts, NoneIsNone, IInvParts DEF AioOK, AioStates
<1>5. /\ AioOK(aio) /\ aio' = aioHandle(aio, fd, "dataHandler", {"wr", "ex"})
      /\ UNCHANGED <<sock, kernel, events>>
      /\ waiting' = [waiting EXCEPT ![s] = @ \cup {"write"}]
  BY <1>0, IInvParts DEF SendDone, Wait
<1>6. kernel[fd].phase # "listening"
  BY <1>0, <1>1, <1>2, <1>4 DEF SocketOK, UsableOK, Listening
<1>7. /\ \A g \in Fds \ {fd} : Same(aio, aio', g)
      /\ aio'.fdMask = aio.fdMask /\ aio'.clientData = aio.clientData
      /\ fd \in aio'.mask["wr"] /\ aio'.handler["wr"][fd] = "dataHandler"
      /\ fd \in aio'.mask["ex"] /\ aio'.handler["ex"][fd] = "dataHandler"
      /\ fd \in aio'.mask["rd"] <=> fd \in aio.mask["rd"]
      /\ aio'.handler["rd"][fd] = aio.handler["rd"][fd]
  BY <1>4, <1>5, HandleEffect DEF AioOK, Kinds
<1>8. /\ \A t \in Sockets \ {s} : sock'[t] = sock[t] /\ waiting'[t] = waiting[t]
      /\ waiting'[s] = waiting[s] \cup {"write"}
  BY <1>5, IInvParts
<1>9. Active(s)' /\ Held(s)' = {fd} /\ ~Pending(s)'
  BY <1>2, <1>5 DEF Active, Held, Pending
<1>10. \A k \in Kinds : fd \in aio'.mask[k] =>
          \/ aio'.handler[k][fd] = "dataHandler"
          \/ /\ k = "rd" /\ fd \in aio.mask["rd"]
             /\ aio'.handler[k][fd] = aio.handler["rd"][fd]
  BY <1>7 DEF Kinds
<1>11. fd \in aio.mask["rd"] => aio.handler["rd"][fd] = "dataHandler"
  BY <1>4, <1>6 DEF DescriptorOK, ArmedOK, Kinds
<1>12. \A k \in Kinds : fd \in aio'.mask[k] => aio'.handler[k][fd] = "dataHandler"
  BY <1>10, <1>11
<1>13. UsableOK(s)'
  BY <1>0, <1>1, <1>2, <1>3, <1>4, <1>5, <1>6, <1>7, <1>9
     DEF UsableOK, Watched, Opened, Takes
<1>14. WaitingOK(s)'
  <2>1. "conn" \notin waiting[s]
    BY <1>0, <1>1, <1>2, <1>4, <1>11 DEF SocketOK, WaitingOK, UsableOK, Armed, Takes
  <2>2. "read" \in waiting'[s] => Armed(s, "rd", "dataHandler")'
    BY <1>0, <1>2, <1>3, <1>5, <1>7, <1>8 DEF SocketOK, WaitingOK, Armed
  <2>3. Armed(s, "wr", "dataHandler")'
    BY <1>0, <1>3, <1>5, <1>7 DEF Armed
  <2>4. \A k \in Kinds : ~Takes(fd, k, "connectHandler")'
    BY <1>12 DEF Takes
  <2>5. QED
    BY <1>0, <1>1, <1>5, <1>8, <2>1, <2>2, <2>3, <2>4 DEF WaitingOK
<1>15. DescriptorOK(fd)'
  <2>1. OpenedOK(fd)'
    BY <1>4, <1>5, <1>9 DEF OpenedOK, DescriptorOK
  <2>2. ArmedOK(fd)'
    BY SMTT(40), <1>2, <1>4, <1>5, <1>6, <1>12 DEF ArmedOK, Opened
  <2>3. WatchedOK(fd)'
    BY <1>0, <1>3, <1>5, <1>7, <1>9 DEF WatchedOK
  <2>4. QED
    BY <2>1, <2>2, <2>3 DEF DescriptorOK
<1>16. SocketOK(s)'
  BY <1>13, <1>14 DEF SocketOK
<1>17. QED
  BY <1>2, <1>4, <1>5, <1>7, <1>8, <1>9, <1>15, <1>16, OneSocket

\* Reading and writing a connection, which may show that it has ended.
LEMMA StreamStep ==
    ASSUME IInv, OwnInv, IInv', NEW s \in Sockets, Open(s), NEW fd, fd = sock[s].fd,
           UNCHANGED <<aio, events>>,
           \A t \in Sockets \ {s} : sock'[t] = sock[t] /\ waiting'[t] = waiting[t],
           \/ sock'[s] = sock[s]
           \/ sock'[s] = [sock[s] EXCEPT !.state = "OtherEndClosed"],
           waiting'[s] \subseteq waiting[s],
           \A g \in Fds \ {fd} : kernel'[g] = kernel[g],
           kernel'[fd] = kernel[fd] \/ kernel[fd].phase = "connected",
           kernel'[fd].phase = kernel[fd].phase
    PROVE  OwnInv'
<1>1. /\ Usable(s) /\ ~sock[s].multiListen /\ fd # None
      /\ sock[s].state \in {"Connected", "OtherEndClosed"}
  BY DEF Open, IsStream
<1>2. /\ events = {} /\ Active(s) /\ SocketOK(s) /\ Held(s) = {fd} /\ ~Pending(s)
      /\ fd \in Fds /\ fd # 0 /\ DescriptorOK(fd) /\ Opened(fd)
  BY <1>1, UsableParts DEF Pending
<1>3. /\ sock'[s].live = sock[s].live /\ sock'[s].fd = fd
      /\ ~sock'[s].multiListen
      /\ sock'[s].state \in {sock[s].state, "OtherEndClosed"}
  BY <1>1, SocketTypes, IInvParts DEF SockStates
<1>4. Active(s)' /\ Held(s)' = {fd} /\ ~Pending(s)'
  BY <1>1, <1>2, <1>3 DEF Active, Held, Pending
<1>5. kernel[fd].phase # "listening"
  BY <1>1, <1>2 DEF SocketOK, UsableOK, Listening
<1>6. SocketOK(s)'
  <2>1. UsableOK(s)'
    BY <1>1, <1>2, <1>3, <1>4, <1>5
       DEF SocketOK, UsableOK, Watched, Opened, Takes
  <2>2. WaitingOK(s)'
    BY <1>1, <1>2, <1>3 DEF SocketOK, WaitingOK, Armed, Takes
  <2>3. QED
    BY <2>1, <2>2 DEF SocketOK
<1>7. DescriptorOK(fd)'
  <2>1. OpenedOK(fd)'
    <3>1. kernel[fd].phase = "fresh" => kernel'[fd] = kernel[fd]
      BY SMTT(40)
    <3>2. QED
      BY <1>2, <1>4, <1>5, <3>1 DEF DescriptorOK, OpenedOK
  <2>2. ArmedOK(fd)'
    BY <1>2, <1>5 DEF DescriptorOK, ArmedOK, Opened
  <2>3. WatchedOK(fd)'
    <3>1. fd \in aio.fdMask /\ aio.clientData[fd] = s
      BY <1>1, <1>2 DEF SocketOK, UsableOK, Watched
    <3>2. QED
      BY <1>3, <1>4, <3>1 DEF WatchedOK
  <2>4. QED
    BY <2>1, <2>2, <2>3 DEF DescriptorOK
<1>8. \A g \in Fds \ {fd} : Same(aio, aio', g)
  BY SameSelf
<1>9. events' \subseteq events
  OBVIOUS
<1>10. QED
  BY <1>2, <1>4, <1>6, <1>7, <1>8, <1>9, OneSocket

LEMMA ReceiveDataOwn ==
    ASSUME IInv, OwnInv, IInv', NEW s \in Sockets, ReceiveData(s)
    PROVE  OwnInv'
<1>0. PICK fd : fd = sock[s].fd
  OBVIOUS
<1>1. Open(s) /\ UNCHANGED <<aio, events>> /\ fd \in Fds
  BY <1>0, SocketTypes DEF ReceiveData, Open
<1>2. CASE /\ HasData(fd)
           /\ kernel' = [kernel EXCEPT ![fd].data = FALSE]
           /\ UNCHANGED <<sock, waiting>>
  <2>1. /\ kernel[fd].phase = "connected" /\ kernel'[fd].phase = kernel[fd].phase
        /\ \A g \in Fds \ {fd} : kernel'[g] = kernel[g]
    BY <1>1, <1>2, IInvParts DEF HasData, KernelStates
  <2>2. QED
    BY <1>0, <1>1, <1>2, <2>1, StreamStep
<1>3. CASE /\ sock' = [sock EXCEPT ![s].state = "OtherEndClosed"]
           /\ Notify(s, "conn")
           /\ UNCHANGED kernel
  <2>1. /\ sock'[s] = [sock[s] EXCEPT !.state = "OtherEndClosed"]
        /\ \A t \in Sockets \ {s} : sock'[t] = sock[t] /\ waiting'[t] = waiting[t]
        /\ waiting'[s] \subseteq waiting[s]
    BY <1>3, IInvParts DEF Notify
  <2>2. QED
    BY <1>0, <1>1, <1>3, <2>1, StreamStep
<1>4. QED
  BY <1>0, <1>2, <1>3 DEF ReceiveData

LEMMA SendDataOwn ==
    ASSUME IInv, OwnInv, IInv', NEW s \in Sockets, SendData(s)
    PROVE  OwnInv'
<1>0. PICK fd : fd = sock[s].fd
  OBVIOUS
<1>1. /\ Open(s) /\ UNCHANGED <<aio, events, waiting>> /\ fd \in Fds
      /\ kernel[fd].phase = "connected"
  BY <1>0, SocketTypes DEF SendData, Open
<1>2. CASE kernel' = [kernel EXCEPT ![fd].full = TRUE] /\ UNCHANGED sock
  <2>1. /\ kernel'[fd].phase = kernel[fd].phase
        /\ \A g \in Fds \ {fd} : kernel'[g] = kernel[g]
    BY <1>1, <1>2, IInvParts DEF KernelStates
  <2>2. QED
    BY <1>0, <1>1, <1>2, <2>1, StreamStep
<1>3. CASE sock' = [sock EXCEPT ![s].state = "OtherEndClosed"] /\ UNCHANGED kernel
  <2>1. /\ sock'[s] = [sock[s] EXCEPT !.state = "OtherEndClosed"]
        /\ \A t \in Sockets \ {s} : sock'[t] = sock[t]
    BY <1>3, IInvParts
  <2>2. QED
    BY <1>0, <1>1, <1>3, <2>1, StreamStep
<1>4. QED
  BY <1>0, <1>2, <1>3 DEF SendData

LEMMA AcceptFromOwn ==
    ASSUME IInv, OwnInv, IInv', NEW s \in Sockets, NEW server \in Sockets,
           AcceptFrom(s, server)
    PROVE  OwnInv'
<1>0. PICK fd, gd : fd = sock[server].acceptedSock /\ gd = sock[server].fd
  OBVIOUS
<1> DEFINE S == {s, server}
           F == {fd, gd}
           a == aioHandle(aio, gd, "acceptHandler", {"rd", "ex"})
<1>1. /\ Usable(server) /\ Pending(server) /\ ~sock[s].live
      /\ sock[server].state = "Connected" /\ sock[server].multiListen
  BY DEF AcceptFrom, Pending
<1>2. /\ events = {} /\ Active(server) /\ SocketOK(server) /\ ~Active(s)
      /\ s # server /\ Held(server) = {fd, gd}
  BY <1>0, <1>1, UsableParts DEF Active, Held
<1>3. gd \in aio.fdMask /\ aio.clientData[gd] = server
  BY <1>0, <1>1, <1>2 DEF SocketOK, UsableOK, Watched
<1>4. /\ gd \in Fds /\ gd # None /\ gd # 0 /\ DescriptorOK(gd) /\ Opened(gd)
  BY <1>0, <1>1, <1>3, UsableParts, NoneIsNone, IInvParts DEF AioOK, AioStates
<1>5. /\ fd \in Fds /\ fd # gd /\ fd # None /\ DescriptorOK(fd)
      /\ kernel[fd].phase = "connected" /\ fd # 0
  BY <1>0, <1>1, <1>2, NoneIsNone
     DEF SocketOK, UsableOK, OwnInv, DescriptorOK, OpenedOK
<1>6. fd \notin aio.fdMask
  <2>1. SUFFICES ASSUME fd \in aio.fdMask PROVE FALSE
    OBVIOUS
  <2>2. PICK t \in Sockets : Active(t) /\ sock[t].fd = fd
    BY <1>5, <2>1 DEF DescriptorOK, WatchedOK
  <2>3. fd \in Held(t) \cap Held(server)
    BY <1>2, <2>2 DEF Held
  <2>4. QED
    BY <1>0, <1>2, <1>5, <2>2, <2>3 DEF OwnInv, Disjoint, Holders
<1>7. /\ kernel[gd].phase = "listening" /\ gd \notin aio.mask["rd"]
      /\ gd \notin aio.mask["wr"]
  BY <1>0, <1>1, <1>2, <1>4
     DEF SocketOK, UsableOK, Listening, DescriptorOK, ArmedOK, Kinds
<1>8. AioOK(aio) /\ AioOK(a)
  BY HandleOK, IInvParts DEF Handlers
<1>9. /\ \A g \in Fds \ {gd} : Same(aio, a, g)
      /\ a.fdMask = aio.fdMask /\ a.clientData = aio.clientData
      /\ gd \in a.mask["rd"] /\ a.handler["rd"][gd] = "acceptHandler"
      /\ gd \in a.mask["ex"] /\ a.handler["ex"][gd] = "acceptHandler"
      /\ gd \notin a.mask["wr"]
  BY <1>4, <1>7, <1>8, HandleEffect DEF AioOK, Kinds
<1>10. aio' = aioEnable(a, fd, s)
  BY <1>0 DEF AcceptFrom
<1> HIDE DEF a
<1>11. /\ \A g \in Fds \ {fd} : Same(a, aio', g)
       /\ fd \in aio'.fdMask /\ aio'.clientData[fd] = s
       /\ \A k \in Kinds : fd \notin aio'.mask[k]
  BY <1>5, <1>6, <1>8, <1>9, <1>10, EnableEffect DEF AioOK
<1>12. \A g \in Fds \ F : Same(aio, aio', g)
  BY <1>9, <1>11, SameTransitive
<1>13. /\ gd \in aio'.fdMask /\ aio'.clientData[gd] = server
       /\ gd \in aio'.mask["rd"] /\ aio'.handler["rd"][gd] = "acceptHandler"
       /\ gd \in aio'.mask["ex"] /\ aio'.handler["ex"][gd] = "acceptHandler"
       /\ gd \notin aio'.mask["wr"]
  BY <1>3, <1>4, <1>5, <1>9, <1>11 DEF Same, Kinds
<1>14. /\ sock' = [sock EXCEPT ![s] = NewSocket(fd, "Connected"),
                               ![server].acceptedSock = None,
                               ![server].state = "WaitingForConnection"]
       /\ waiting' = [waiting EXCEPT ![server] = @ \cup {"conn"}]
       /\ UNCHANGED <<kernel, events>>
  BY <1>0 DEF AcceptFrom, Wait
<1>15. /\ sock'[s] = NewSocket(fd, "Connected")
       /\ sock'[server].live = sock[server].live /\ sock'[server].fd = gd
       /\ sock'[server].state = "WaitingForConnection"
       /\ \A t \in Sockets \ S : sock'[t] = sock[t] /\ waiting'[t] = waiting[t]
       /\ waiting'[server] = waiting[server] \cup {"conn"}
       /\ waiting'[s] = {}
  BY <1>0, <1>2, <1>14, WaiterActive, IInvParts DEF SockStates
<1>16. Active(s)' /\ Held(s)' = {fd} /\ Active(server)' /\ Held(server)' = {gd}
       /\ ~Pending(s)' /\ ~Pending(server)'
  BY SMTT(40), <1>2, <1>15 DEF Active, Held, Pending, NewSocket
<1>17. SocketOK(s)'
  BY <1>5, <1>11, <1>14, <1>15, <1>16
     DEF SocketOK, UsableOK, WaitingOK, Watched, Opened, Takes, NewSocket, Kinds
<1>18. SocketOK(server)'
  <2>1. UsableOK(server)'
    BY <1>4, <1>7, <1>13, <1>14, <1>15, <1>16
       DEF UsableOK, Watched, Opened, Takes, Listening
  <2>2. "read" \notin waiting[server] /\ "write" \notin waiting[server]
    BY <1>0, <1>2, <1>7 DEF SocketOK, WaitingOK, Armed
  <2>3. WaitingOK(server)'
    BY <1>13, <1>15, <2>2 DEF WaitingOK, Armed
  <2>4. QED
    BY <2>1, <2>3 DEF SocketOK
<1>19. DescriptorOK(fd)'
  <2>1. OpenedOK(fd)'
    BY <1>5, <1>14, <1>16 DEF DescriptorOK, OpenedOK
  <2>2. ArmedOK(fd)'
    BY <1>2, <1>11, <1>14 DEF ArmedOK
  <2>3. WatchedOK(fd)'
    BY <1>11, <1>15, <1>16 DEF WatchedOK, NewSocket
  <2>4. QED
    BY <2>1, <2>2, <2>3 DEF DescriptorOK
<1>20. DescriptorOK(gd)'
  <2>1. OpenedOK(gd)'
    BY <1>4, <1>14, <1>16 DEF DescriptorOK, OpenedOK
  <2>2. ArmedOK(gd)'
    <3>1. \A k \in Kinds : gd \in aio'.mask[k] =>
             aio'.handler[k][gd] = "acceptHandler" /\ k # "wr"
      BY <1>13 DEF Kinds
    <3>2. QED
      BY <1>2, <1>4, <1>7, <1>14, <3>1 DEF ArmedOK, Opened
  <2>3. WatchedOK(gd)'
    BY <1>13, <1>15, <1>16 DEF WatchedOK
  <2>4. QED
    BY <2>1, <2>2, <2>3 DEF DescriptorOK
<1>21. \A t \in Sockets \ S : Active(t) => Held(t) \cap F = {}
  BY <1>2, <1>4, <1>5 DEF OwnInv, Disjoint, Holders
<1>22. \A x \in S : Within(x, F) /\ Within(x, F)' /\ SocketOK(x)'
  BY <1>2, <1>16, <1>17, <1>18 DEF Within
<1>23. \A x, y \in S : Holders(x, y)' => Held(x)' \cap Held(y)' \subseteq {None}
  BY <1>5, <1>16 DEF Holders
<1>24. \A x \in F : DescriptorOK(x)'
  BY <1>19, <1>20
<1>25. /\ S \in SUBSET Sockets /\ F \in SUBSET Fds
       /\ \A g \in Fds \ F : kernel'[g] = kernel[g]
       /\ \A g \in Fds \ F : \A k \in Kinds : <<g, k>> \in events' => <<g, k>> \in events
  BY <1>4, <1>5, <1>14
<1> HIDE DEF S, F
<1>26. QED
  BY <1>12, <1>15, <1>21, <1>22, <1>23, <1>24, <1>25, Frame

-----------------------------------------------------------------------------
(* aioPoll.                                                                *)

\* A server is readable when it has a connection to accept.
LEMMA ReadyToRead ==
    ASSUME NEW fd, Ready(<<fd, "rd">>), kernel[fd].phase = "listening"
    PROVE  kernel[fd].data \/ kernel[fd].fin
<1> DEFINE d == kernel[fd]
<1>1. \/ d.phase \in {"fresh", "refused"}
      \/ d.phase \in {"listening", "connected"} /\ (d.data \/ d.fin)
  BY DEF Ready
<1>2. QED
  BY <1>1

\* A poll hands out events that are armed, and of a listening socket a
\* connection or an error.
LEMMA PollOwn ==
    ASSUME IInv, OwnInv, IInv', Poll
    PROVE  OwnInv'
<1>1. UNCHANGED <<aio, sock, kernel, waiting>>
  BY DEF Poll
<1>2. ASSUME NEW fd \in Fds PROVE DescriptorOK(fd)'
  <2>1. DescriptorOK(fd)
    BY DEF OwnInv
  <2>2. ASSUME NEW k \in Kinds, <<fd, k>> \in events'
        PROVE  /\ fd \in aio.mask[k]
               /\ kernel[fd].phase = "listening" =>
                     \/ k = "rd" /\ kernel[fd].data
                     \/ k = "ex" /\ kernel[fd].oob
    <3>1. /\ <<fd, k>> \in Asked(aio)
          /\ Ready(<<fd, k>>) \/ Spurious(<<fd, k>>)
      BY <2>2 DEF Poll
    <3>2. fd \in aio.mask[k]
      BY <3>1 DEF Asked
    <3>3. ASSUME kernel[fd].phase = "listening"
          PROVE  \/ k = "rd" /\ kernel[fd].data
                 \/ k = "ex" /\ kernel[fd].oob
      <4>1. Ready(<<fd, k>>)
        BY <3>1, <3>3 DEF Spurious
      <4>2. k # "wr" /\ ~kernel[fd].fin
        BY <2>1, <3>2, <3>3 DEF DescriptorOK, ArmedOK, OpenedOK
      <4>3. CASE k = "rd"
        <5>1. Ready(<<fd, "rd">>)
          BY <4>1, <4>3
        <5>2. kernel[fd].data \/ kernel[fd].fin
          BY <3>3, <5>1, ReadyToRead
        <5>3. QED
          BY <4>2, <4>3, <5>2
      <4>4. CASE k = "ex"
        BY <3>3, <4>1, <4>4 DEF Ready
      <4>5. QED
        BY <4>2, <4>3, <4>4 DEF Kinds
    <3>4. QED
      BY <3>2, <3>3
  <2>3. ArmedOK(fd)'
    BY <1>1, <2>1, <2>2 DEF DescriptorOK, ArmedOK, Opened
  <2>4. OpenedOK(fd)' /\ WatchedOK(fd)'
    BY <1>1, <2>1 DEF DescriptorOK, OpenedOK, WatchedOK, Opened, Active, Held, Pending
  <2>5. QED
    BY <2>3, <2>4 DEF DescriptorOK
<1>3. ASSUME NEW s \in Sockets PROVE SocketOK(s)'
  BY <1>1 DEF OwnInv, SocketOK, UsableOK, WaitingOK, Watched, Opened, Takes, Listening,
              Pending, Active, Armed
<1>4. Disjoint'
  BY <1>1 DEF OwnInv, Disjoint, Holders, Active, Held, Pending
<1>5. QED
  BY <1>2, <1>3, <1>4 DEF OwnInv

-----------------------------------------------------------------------------
(* The handlers.                                                           *)

\* The handler of an event is called on an active socket, whose descriptor it
\* is, and which is looked after.
LEMMA CalledParts ==
    ASSUME IInv, OwnInv, NEW fd, NEW kind, NEW h, NEW s \in Sockets,
           Handling(<<fd, kind>>, h, s)
    PROVE  /\ fd \in Fds /\ kind \in Kinds /\ fd # 0 /\ fd # None
           /\ Active(s) /\ sock[s].fd = fd
           /\ fd \in aio.fdMask /\ aio.clientData[fd] = s
           /\ fd \in aio.mask[kind] /\ aio.handler[kind][fd] = h
           /\ <<fd, kind>> \in events
           /\ DescriptorOK(fd) /\ SocketOK(s) /\ Opened(fd)
           /\ AioOK(aio) /\ AioOK(Taken(aio, <<fd, kind>>))
<1>1. fd \in Fds /\ kind \in Kinds /\ AioOK(Taken(aio, <<fd, kind>>))
  BY HandlingParts
<1>2. /\ <<fd, kind>> \in events /\ aio.handler[kind][fd] = h
      /\ aio.clientData[fd] = s
  BY DEF Handling, IsNext
<1>3. DescriptorOK(fd) /\ SocketOK(s) /\ AioOK(aio)
  BY <1>1, IInvParts DEF OwnInv
<1>4. fd \in aio.mask[kind] /\ Opened(fd)
  BY <1>1, <1>2, <1>3 DEF DescriptorOK, ArmedOK
<1>5. fd \in aio.fdMask
  BY <1>2, <1>3, ClientAssumption, SocketAssumption DEF DescriptorOK, WatchedOK
<1>6. Active(s) /\ sock[s].fd = fd
  BY <1>2, <1>3, <1>5 DEF DescriptorOK, WatchedOK
<1>7. fd # 0 /\ fd # None
  BY <1>1, <1>3, <1>4, NoneIsNone DEF DescriptorOK, OpenedOK, Opened
<1>8. QED
  BY <1>1, <1>2, <1>3, <1>4, <1>5, <1>6, <1>7

\* Before its handler is called, the event is disarmed, and nothing else.
LEMMA TakenEffect ==
    ASSUME NEW a, AioOK(a), NEW fd \in Fds, NEW kind \in Kinds
    PROVE  LET b == Taken(a, <<fd, kind>>)
           IN /\ \A g \in Fds \ {fd} : Same(a, b, g)
              /\ b.fdMask = a.fdMask /\ b.clientData = a.clientData
              /\ fd \notin b.mask[kind]
              /\ \A k \in Kinds \ {kind} : /\ fd \in b.mask[k] <=> fd \in a.mask[k]
                                           /\ b.handler[k][fd] = a.handler[k][fd]
<1> DEFINE b == Taken(a, <<fd, kind>>)
<1>1. b = aioSuspend(a, fd, {kind}) /\ a \in AioStates
  BY DEF Taken, AioOK
<1> HIDE DEF b
<1>2. kind \in Kinds \cap {kind}
  OBVIOUS
<1>3. QED
  BY <1>1, <1>2, SuspendEffect DEF b

\* The walk goes on over events of the snapshot, without the one handled.
LEMMA WalkParts ==
    ASSUME NEW e, WalkOn(e)
    PROVE  events' \subseteq events /\ e \notin events'
BY DEF WalkOn, StillToCall

\* The exception of a descriptor is the last of its events.
LEMMA ExceptionIsLast ==
    ASSUME NEW fd \in Fds, IsNext(<<fd, "ex">>, events), NEW k \in Kinds,
           <<fd, k>> \in events
    PROVE  k = "ex"
<1>1. SUFFICES ASSUME k # "ex" PROVE FALSE
  OBVIOUS
<1>2. Before(<<fd, "ex">>, <<fd, k>>)
  BY <1>1 DEF IsNext
<1>3. Rank["ex"] < Rank[k]
  BY <1>2, FdAssumption DEF Before, Fds
<1>4. QED
  BY <1>1, <1>3 DEF Rank, Kinds

\* acceptHandler is called on a server that waits for a connection, and no
\* other event of its descriptor is left to hand out.
LEMMA ServerParts ==
    ASSUME IInv, OwnInv, NEW fd, NEW kind, NEW s \in Sockets,
           Handling(<<fd, kind>>, "acceptHandler", s), WalkOn(<<fd, kind>>)
    PROVE  /\ kernel[fd].phase = "listening" /\ ~kernel[fd].fin
           /\ kind = "rd" => kernel[fd].data /\ ~kernel[fd].oob
           /\ fd \notin aio.mask["wr"]
           /\ sock[s].state = "WaitingForConnection" /\ ~Pending(s)
           /\ Held(s) = {fd}
           /\ waiting[s] \subseteq {"conn"}
           /\ \A k \in Kinds : <<fd, k>> \notin events'
<1>1. /\ fd \in Fds /\ kind \in Kinds /\ Active(s) /\ sock[s].fd = fd /\ fd # None
      /\ fd \in aio.mask[kind] /\ aio.handler[kind][fd] = "acceptHandler"
      /\ <<fd, kind>> \in events /\ DescriptorOK(fd) /\ SocketOK(s)
  BY CalledParts
<1>2. kernel[fd].phase = "listening"
  BY <1>1 DEF DescriptorOK, ArmedOK
<1>3. fd \notin aio.mask["wr"]
  BY <1>1, <1>2 DEF DescriptorOK, ArmedOK, Kinds
<1>4. /\ \A k \in Kinds : <<fd, k>> \in events => \/ k = "rd" /\ kernel[fd].data
                                                  \/ k = "ex" /\ kernel[fd].oob
      /\ ~(kernel[fd].data /\ kernel[fd].oob) /\ ~kernel[fd].fin
  BY <1>1, <1>2 DEF DescriptorOK, ArmedOK, OpenedOK
<1>5. \/ kind = "rd" /\ kernel[fd].data
      \/ kind = "ex" /\ kernel[fd].oob
  BY <1>1, <1>4
<1>6. sock[s].state = "WaitingForConnection"
  BY <1>1, <1>2, <1>5 DEF SocketOK, UsableOK, Listening
<1>7. ~Pending(s) /\ Held(s) = {fd}
  BY <1>1, <1>6 DEF Pending, Held
<1>8. waiting[s] \subseteq {"conn"}
  <2>1. "read" \notin waiting[s] /\ "write" \notin waiting[s]
    BY <1>1, <1>6 DEF SocketOK, WaitingOK
  <2>2. QED
    BY <2>1, SocketTypes DEF Semaphores
<1>9. \A k \in Kinds : <<fd, k>> \notin events'
  BY <1>4, <1>5, WalkParts
<1>10. QED
  BY <1>2, <1>3, <1>4, <1>5, <1>6, <1>7, <1>8, <1>9
\* A server that fails is invalid, and its descriptor disabled and closed.
LEMMA ServerGone ==
    ASSUME IInv, OwnInv, IInv', NEW fd, NEW kind, NEW s \in Sockets,
           Handling(<<fd, kind>>, "acceptHandler", s), WalkOn(<<fd, kind>>),
           aio' = aioDisable(Taken(aio, <<fd, kind>>), fd),
           kernel' = [kernel EXCEPT ![fd] = Descriptor("free")],
           sock'[s].state = "Invalid",
           \A t \in Sockets \ {s} : sock'[t] = sock[t],
           Notify(s, "conn")
    PROVE  OwnInv'
<1>1. /\ fd \in Fds /\ kind \in Kinds /\ Active(s) /\ fd # 0 /\ fd # None
      /\ AioOK(aio) /\ AioOK(Taken(aio, <<fd, kind>>))
  BY CalledParts
<1>2. /\ Held(s) = {fd} /\ waiting[s] \subseteq {"conn"}
      /\ \A k \in Kinds : <<fd, k>> \notin events'
  BY ServerParts
<1>3. /\ \A g \in Fds \ {fd} : Same(aio, aio', g)
      /\ fd \notin aio'.fdMask /\ aio'.clientData[fd] = NoData
      /\ \A k \in Kinds : fd \notin aio'.mask[k]
  <2>1. \A g \in Fds \ {fd} : Same(aio, Taken(aio, <<fd, kind>>), g)
    BY <1>1, TakenEffect
  <2>2. /\ \A g \in Fds \ {fd} : Same(Taken(aio, <<fd, kind>>), aio', g)
        /\ fd \notin aio'.fdMask /\ aio'.clientData[fd] = NoData
        /\ \A k \in Kinds : fd \notin aio'.mask[k]
    BY <1>1, DisableEffect
  <2>3. QED
    BY <2>1, <2>2, SameTransitive
<1>4. /\ kernel'[fd] = Descriptor("free")
      /\ \A g \in Fds \ {fd} : kernel'[g] = kernel[g]
      /\ waiting'[s] = {} /\ \A t \in Sockets \ {s} : waiting'[t] = waiting[t]
  BY <1>1, <1>2, IInvParts DEF Notify
<1>5. ~Active(s)'
  BY DEF Active
<1>6. SocketOK(s)'
  BY <1>4, <1>5 DEF SocketOK, UsableOK, WaitingOK
<1>7. DescriptorOK(fd)'
  BY <1>1, <1>2, <1>3, <1>4, ClosedOK
<1>8. events' \subseteq events
  BY WalkParts
<1>9. QED
  BY <1>1, <1>2, <1>3, <1>4, <1>5, <1>6, <1>7, <1>8, OneSocket

LEMMA AcceptErrorOwn ==
    ASSUME IInv, OwnInv, IInv', NEW fd, NEW s \in Sockets, AcceptError(fd, s)
    PROVE  OwnInv'
<1>1. /\ sock'[s].state = "Invalid"
      /\ \A t \in Sockets \ {s} : sock'[t] = sock[t]
  BY IInvParts DEF AcceptError, SockStates
<1>2. QED
  BY <1>1, ServerGone DEF AcceptError

LEMMA AcceptFailsOwn ==
    ASSUME IInv, OwnInv, IInv', NEW fd, NEW s \in Sockets, AcceptFails(fd, s)
    PROVE  OwnInv'
<1>1. /\ sock'[s].state = "Invalid"
      /\ \A t \in Sockets \ {s} : sock'[t] = sock[t]
  BY IInvParts DEF AcceptFails, SockStates
<1>2. QED
  BY <1>1, ServerGone DEF AcceptFails

LEMMA AcceptAbortedOwn ==
    ASSUME IInv, OwnInv, IInv', NEW fd, NEW s \in Sockets, AcceptAborted(fd, s)
    PROVE  OwnInv'
<1> DEFINE e == <<fd, "rd">>
           a == Taken(aio, e)
<1>1. /\ Handling(e, "acceptHandler", s) /\ WalkOn(e)
      /\ aio' = aioHandle(a, fd, "acceptHandler", {"rd", "ex"})
      /\ kernel' = [kernel EXCEPT ![fd].data = FALSE]
      /\ UNCHANGED <<sock, waiting>>
  BY DEF AcceptAborted
<1>2. /\ fd \in Fds /\ fd # 0 /\ fd # None /\ Active(s) /\ sock[s].fd = fd
      /\ fd \in aio.fdMask /\ aio.clientData[fd] = s
      /\ DescriptorOK(fd) /\ SocketOK(s) /\ Opened(fd)
      /\ AioOK(aio) /\ AioOK(a)
  BY <1>1, CalledParts
<1>3. /\ kernel[fd].phase = "listening" /\ ~kernel[fd].fin /\ ~kernel[fd].oob
      /\ fd \notin aio.mask["wr"]
      /\ sock[s].state = "WaitingForConnection" /\ ~Pending(s)
      /\ Held(s) = {fd} /\ waiting[s] \subseteq {"conn"}
      /\ \A k \in Kinds : <<fd, k>> \notin events'
  BY <1>1, ServerParts
<1>4. events' \subseteq events
  BY <1>1, WalkParts
<1>5. /\ \A g \in Fds \ {fd} : Same(aio, a, g)
      /\ a.fdMask = aio.fdMask /\ a.clientData = aio.clientData
      /\ fd \notin a.mask["wr"]
  BY <1>2, <1>3, TakenEffect DEF Kinds
<1> HIDE DEF a
<1>6. /\ \A g \in Fds \ {fd} : Same(a, aio', g)
      /\ aio'.fdMask = a.fdMask /\ aio'.clientData = a.clientData
      /\ fd \in aio'.mask["rd"] /\ aio'.handler["rd"][fd] = "acceptHandler"
      /\ fd \in aio'.mask["ex"] /\ aio'.handler["ex"][fd] = "acceptHandler"
      /\ fd \notin aio'.mask["wr"]
  BY <1>1, <1>2, <1>5, HandleEffect DEF AioOK, Kinds
<1>7. \A g \in Fds \ {fd} : Same(aio, aio', g)
  BY <1>5, <1>6, SameTransitive
<1>8. fd \in aio'.fdMask /\ aio'.clientData[fd] = s
  BY <1>2, <1>5, <1>6
<1>9. /\ kernel'[fd].phase = "listening" /\ ~kernel'[fd].fin /\ ~kernel'[fd].oob
      /\ \A g \in Fds \ {fd} : kernel'[g] = kernel[g]
  BY <1>1, <1>2, <1>3, IInvParts DEF KernelStates
<1>10. Active(s)' /\ Held(s)' = {fd} /\ ~Pending(s)'
  BY <1>1, <1>2, <1>3 DEF Active, Held, Pending
<1>11. SocketOK(s)'
  <2>1. UsableOK(s)'
    BY <1>1, <1>2, <1>3, <1>6, <1>8, <1>9, <1>10
       DEF UsableOK, Watched, Opened, Takes, Listening
  <2>2. WaitingOK(s)'
    BY <1>1, <1>2, <1>3, <1>6, <1>8 DEF WaitingOK, Armed
  <2>3. QED
    BY <2>1, <2>2 DEF SocketOK
<1>12. DescriptorOK(fd)'
  <2>1. OpenedOK(fd)'
    BY <1>2, <1>9, <1>10 DEF OpenedOK
  <2>2. ArmedOK(fd)'
    <3>1. \A k \in Kinds : fd \in aio'.mask[k] =>
             aio'.handler[k][fd] = "acceptHandler" /\ k # "wr"
      BY <1>6 DEF Kinds
    <3>2. QED
      BY <1>3, <1>9, <3>1 DEF ArmedOK, Opened
  <2>3. WatchedOK(fd)'
    BY <1>1, <1>2, <1>8, <1>10 DEF WatchedOK
  <2>4. QED
    BY <2>1, <2>2, <2>3 DEF DescriptorOK
<1>13. \A t \in Sockets \ {s} : sock'[t] = sock[t] /\ waiting'[t] = waiting[t]
  BY <1>1
<1>14. QED
  BY <1>2, <1>3, <1>4, <1>7, <1>9, <1>10, <1>11, <1>12, <1>13, OneSocket

\* A descriptor that is new is nobody's.
LEMMA NewIsNobodys ==
    ASSUME IInv, OwnInv, NEW new \in Fds, IsNew(new)
    PROVE  /\ new # 0 /\ new # None /\ ~Opened(new)
           /\ \A t \in Sockets : Active(t) => new \notin Held(t)
           /\ new \notin aio.fdMask /\ aio.clientData[new] = NoData
           /\ \A k \in Kinds : new \notin aio.mask[k] /\ <<new, k>> \notin events
<1>1. kernel[new].phase = "free"
  BY DEF IsNew
<1>2. new # 0 /\ new # None /\ ~Opened(new)
  BY <1>1, NoneIsNone DEF Opened, OwnInv, DescriptorOK, OpenedOK
<1>3. QED
  BY <1>2, ClosedQuiet, HeldOpened

\* Nobody else holds what the socket of an event holds.
LEMMA NobodyElse ==
    ASSUME OwnInv, NEW s \in Sockets, Active(s), NEW t \in Sockets \ {s}, Active(t)
    PROVE  Held(s) \cap Held(t) \subseteq {None}
BY DEF OwnInv, Disjoint, Holders

\* The server's descriptor is closed, and the socket is the client's from now.
LEMMA AcceptInPlaceOwn ==
    ASSUME IInv, OwnInv, IInv', NEW fd, NEW s \in Sockets, AcceptInPlace(fd, s)
    PROVE  OwnInv'
<1> DEFINE e == <<fd, "rd">>
           a == Taken(aio, e)
           b == aioDisable(a, fd)
<1>1. /\ Handling(e, "acceptHandler", s) /\ WalkOn(e) /\ Notify(s, "conn")
      /\ ~sock[s].multiListen
  BY DEF AcceptInPlace
<1>2. PICK new \in Fds :
         /\ IsNew(new)
         /\ kernel' = [kernel EXCEPT ![fd] = Descriptor("free"),
                                     ![new] = Descriptor("connected")]
         /\ sock' = [sock EXCEPT ![s].state = "Connected", ![s].fd = new]
         /\ aio' = aioEnable(b, new, s)
  BY DEF AcceptInPlace
<1>3. /\ fd \in Fds /\ fd # 0 /\ fd # None /\ Active(s) /\ sock[s].fd = fd
      /\ DescriptorOK(fd) /\ SocketOK(s) /\ Opened(fd)
      /\ AioOK(aio) /\ AioOK(a)
  BY <1>1, CalledParts
<1>4. /\ Held(s) = {fd} /\ waiting[s] \subseteq {"conn"}
      /\ \A k \in Kinds : <<fd, k>> \notin events'
  BY <1>1, ServerParts
<1>5. /\ new # 0 /\ new # None /\ ~Opened(new) /\ new # fd
      /\ \A t \in Sockets : Active(t) => new \notin Held(t)
      /\ new \notin aio.fdMask
      /\ \A k \in Kinds : <<new, k>> \notin events
  BY <1>2, <1>3, NewIsNobodys
<1>6. events' \subseteq events
  BY <1>1, WalkParts
<1>7. \A g \in Fds \ {fd} : Same(aio, a, g)
  BY <1>3, TakenEffect DEF Kinds
<1> HIDE DEF a
<1>8. /\ \A g \in Fds \ {fd} : Same(a, b, g)
      /\ fd \notin b.fdMask /\ b.clientData[fd] = NoData
      /\ \A k \in Kinds : fd \notin b.mask[k]
      /\ AioOK(b)
  BY <1>3, DisableEffect, DisableOK
<1> HIDE DEF b
<1>9. new \notin b.fdMask
  BY <1>5, <1>7, <1>8 DEF Same
<1>10. /\ \A g \in Fds \ {new} : Same(b, aio', g)
       /\ new \in aio'.fdMask /\ aio'.clientData[new] = s
       /\ \A k \in Kinds : new \notin aio'.mask[k]
  BY <1>2, <1>8, <1>9, EnableEffect DEF AioOK
<1>11. \A g \in Fds \ {fd, new} : Same(aio, aio', g)
  BY <1>7, <1>8, <1>10, SameTransitive
<1>12. /\ fd \notin aio'.fdMask /\ aio'.clientData[fd] = NoData
       /\ \A k \in Kinds : fd \notin aio'.mask[k]
  BY <1>3, <1>5, <1>8, <1>10 DEF Same
<1>13. /\ kernel'[fd] = Descriptor("free") /\ kernel'[new] = Descriptor("connected")
       /\ \A g \in Fds \ {fd, new} : kernel'[g] = kernel[g]
  BY <1>2, <1>3, <1>5, IInvParts
<1>14. /\ sock'[s].live = sock[s].live /\ sock'[s].fd = new
       /\ sock'[s].state = "Connected" /\ ~sock'[s].multiListen
       /\ \A t \in Sockets \ {s} : sock'[t] = sock[t] /\ waiting'[t] = waiting[t]
       /\ waiting'[s] = {}
  BY <1>1, <1>2, <1>4, IInvParts DEF SockStates, Notify
<1>15. Active(s)' /\ Held(s)' = {new} /\ ~Pending(s)'
  BY <1>3, <1>14 DEF Active, Held, Pending
<1>16. kernel'[new].phase = "connected"
  BY <1>13 DEF Descriptor
<1>17. SocketOK(s)'
  BY <1>10, <1>14, <1>15, <1>16
     DEF SocketOK, UsableOK, WaitingOK, Watched, Opened, Takes, Kinds
<1>18. DescriptorOK(fd)'
  BY <1>3, <1>4, <1>12, <1>13, ClosedOK
<1>19. DescriptorOK(new)'
  <2>1. OpenedOK(new)'
    BY <1>5, <1>15, <1>16 DEF OpenedOK
  <2>2. ArmedOK(new)'
    BY <1>5, <1>6, <1>10 DEF ArmedOK
  <2>3. WatchedOK(new)'
    BY <1>10, <1>14, <1>15 DEF WatchedOK
  <2>4. QED
    BY <2>1, <2>2, <2>3 DEF DescriptorOK
<1> DEFINE S == {s}
           F == {fd, new}
<1>20. \A t \in Sockets \ S : Active(t) => Held(t) \cap F = {}
  BY <1>3, <1>4, <1>5, NobodyElse
<1>21. /\ S \in SUBSET Sockets /\ F \in SUBSET Fds
       /\ \A t \in Sockets \ S : sock'[t] = sock[t] /\ waiting'[t] = waiting[t]
       /\ \A g \in Fds \ F : Same(aio, aio', g) /\ kernel'[g] = kernel[g]
       /\ \A g \in Fds \ F : \A k \in Kinds : <<g, k>> \in events' => <<g, k>> \in events
  BY <1>3, <1>6, <1>11, <1>13, <1>14
<1>22. \A x \in S : Within(x, F) /\ Within(x, F)' /\ SocketOK(x)'
  BY <1>4, <1>15, <1>17 DEF Within
<1>23. \A g \in F : DescriptorOK(g)'
  BY <1>18, <1>19
<1>24. \A x, y \in S : Holders(x, y)' => Held(x)' \cap Held(y)' \subseteq {None}
  BY DEF Holders
<1> HIDE DEF S, F
<1>25. QED
  BY <1>20, <1>21, <1>22, <1>23, <1>24, Frame

\* The server holds the connection until acceptFrom, and is not armed.
LEMMA AcceptForLaterOwn ==
    ASSUME IInv, OwnInv, IInv', NEW fd, NEW s \in Sockets, AcceptForLater(fd, s)
    PROVE  OwnInv'
<1> DEFINE e == <<fd, "rd">>
<1>1. /\ Handling(e, "acceptHandler", s) /\ WalkOn(e) /\ Notify(s, "conn")
      /\ sock[s].multiListen /\ aio' = Taken(aio, e)
  BY DEF AcceptForLater
<1>2. PICK new \in Fds :
         /\ IsNew(new)
         /\ kernel' = [kernel EXCEPT ![fd].data = FALSE,
                                     ![new] = Descriptor("connected")]
         /\ sock' = [sock EXCEPT ![s].state = "Connected", ![s].acceptedSock = new]
  BY DEF AcceptForLater
<1>3. /\ fd \in Fds /\ fd # 0 /\ fd # None /\ Active(s) /\ sock[s].fd = fd
      /\ fd \in aio.fdMask /\ aio.clientData[fd] = s
      /\ DescriptorOK(fd) /\ SocketOK(s) /\ Opened(fd)
      /\ AioOK(aio)
  BY <1>1, CalledParts
<1>4. /\ kernel[fd].phase = "listening" /\ ~kernel[fd].fin /\ ~kernel[fd].oob
      /\ fd \notin aio.mask["wr"]
      /\ Held(s) = {fd} /\ waiting[s] \subseteq {"conn"}
      /\ \A k \in Kinds : <<fd, k>> \notin events'
  BY <1>1, ServerParts
<1>5. /\ new # 0 /\ new # None /\ ~Opened(new) /\ new # fd
      /\ \A t \in Sockets : Active(t) => new \notin Held(t)
      /\ new \notin aio.fdMask /\ aio.clientData[new] = NoData
      /\ \A k \in Kinds : new \notin aio.mask[k] /\ <<new, k>> \notin events
  BY <1>2, <1>3, NewIsNobodys
<1>6. events' \subseteq events
  BY <1>1, WalkParts
<1>7. /\ \A g \in Fds \ {fd} : Same(aio, aio', g)
      /\ aio'.fdMask = aio.fdMask /\ aio'.clientData = aio.clientData
      /\ fd \notin aio'.mask["rd"] /\ fd \notin aio'.mask["wr"]
      /\ fd \in aio'.mask["ex"] <=> fd \in aio.mask["ex"]
      /\ aio'.handler["ex"][fd] = aio.handler["ex"][fd]
  BY <1>1, <1>3, <1>4, TakenEffect DEF Kinds
<1>8. /\ kernel'[fd].phase = "listening" /\ ~kernel'[fd].fin /\ ~kernel'[fd].oob
      /\ kernel'[new] = Descriptor("connected")
      /\ \A g \in Fds \ {fd, new} : kernel'[g] = kernel[g]
  BY <1>2, <1>3, <1>4, <1>5, IInvParts DEF KernelStates
<1>9. kernel'[new].phase = "connected"
  BY <1>8 DEF Descriptor
<1>10. /\ sock'[s].live = sock[s].live /\ sock'[s].fd = fd
       /\ sock'[s].state = "Connected" /\ sock'[s].multiListen
       /\ sock'[s].acceptedSock = new
       /\ \A t \in Sockets \ {s} : sock'[t] = sock[t] /\ waiting'[t] = waiting[t]
       /\ waiting'[s] = {}
  BY <1>1, <1>2, <1>3, <1>4, IInvParts DEF SockStates, Notify
<1>11. Active(s)' /\ Held(s)' = {fd, new} /\ Pending(s)'
  BY <1>3, <1>10 DEF Active, Held, Pending
<1>12. SocketOK(s)'
  <2>1. Listening(s)'
    BY <1>7, <1>8, <1>10, <1>11 DEF Listening
  <2>2. QED
    BY <1>3, <1>5, <1>7, <1>8, <1>9, <1>10, <1>11, <2>1
       DEF SocketOK, UsableOK, WaitingOK, Watched, Opened, Takes
<1>13. DescriptorOK(fd)'
  <2>1. OpenedOK(fd)'
    BY <1>3, <1>8, <1>11 DEF OpenedOK
  <2>2. ArmedOK(fd)'
    <3>1. \A k \in Kinds : fd \in aio'.mask[k] =>
             k = "ex" /\ aio'.handler[k][fd] = "acceptHandler"
      BY <1>3, <1>4, <1>7 DEF DescriptorOK, ArmedOK, Kinds
    <3>2. QED
      BY <1>4, <1>8, <3>1 DEF ArmedOK, Opened
  <2>3. WatchedOK(fd)'
    BY <1>3, <1>7, <1>10, <1>11 DEF WatchedOK
  <2>4. QED
    BY <2>1, <2>2, <2>3 DEF DescriptorOK
<1>14. DescriptorOK(new)'
  <2>1. OpenedOK(new)'
    BY <1>5, <1>9, <1>11 DEF OpenedOK
  <2>2. ArmedOK(new)' /\ WatchedOK(new)'
    BY <1>5, <1>6, <1>7 DEF ArmedOK, WatchedOK, Same
  <2>3. QED
    BY <2>1, <2>2 DEF DescriptorOK
<1> DEFINE S == {s}
           F == {fd, new}
<1>15. \A t \in Sockets \ S : Active(t) => Held(t) \cap F = {}
  BY <1>3, <1>4, <1>5, NobodyElse
<1>16. /\ S \in SUBSET Sockets /\ F \in SUBSET Fds
       /\ \A t \in Sockets \ S : sock'[t] = sock[t] /\ waiting'[t] = waiting[t]
       /\ \A g \in Fds \ F : Same(aio, aio', g) /\ kernel'[g] = kernel[g]
       /\ \A g \in Fds \ F : \A k \in Kinds : <<g, k>> \in events' => <<g, k>> \in events
  BY <1>3, <1>6, <1>7, <1>8, <1>10
<1>17. \A x \in S : Within(x, F) /\ Within(x, F)' /\ SocketOK(x)'
  BY <1>4, <1>11, <1>12 DEF Within
<1>18. \A g \in F : DescriptorOK(g)'
  BY <1>13, <1>14
<1>19. \A x, y \in S : Holders(x, y)' => Held(x)' \cap Held(y)' \subseteq {None}
  BY DEF Holders
<1> HIDE DEF S, F
<1>20. QED
  BY <1>15, <1>16, <1>17, <1>18, <1>19, Frame

\* connectHandler is called on a client, which nobody reads or writes yet.
LEMMA ClientParts ==
    ASSUME IInv, OwnInv, NEW fd, NEW kind, NEW s \in Sockets,
           Handling(<<fd, kind>>, "connectHandler", s)
    PROVE  /\ kernel[fd].phase # "listening" /\ ~sock[s].multiListen /\ ~Pending(s)
           /\ Held(s) = {fd}
           /\ waiting[s] \subseteq {"conn"}
<1>1. /\ fd \in Fds /\ kind \in Kinds /\ Active(s) /\ sock[s].fd = fd /\ fd # None
      /\ fd \in aio.mask[kind] /\ aio.handler[kind][fd] = "connectHandler"
      /\ DescriptorOK(fd) /\ SocketOK(s)
  BY CalledParts
<1>2. kernel[fd].phase # "listening"
  BY <1>1 DEF DescriptorOK, ArmedOK
<1>3. ~sock[s].multiListen
  BY <1>1, <1>2 DEF SocketOK, UsableOK
<1>4. ~Pending(s) /\ Held(s) = {fd}
  BY <1>1, <1>3 DEF Pending, Held
<1>5. "read" \notin waiting[s] /\ "write" \notin waiting[s]
  BY <1>1 DEF SocketOK, WaitingOK, Takes
<1>6. waiting[s] \subseteq {"conn"}
  BY <1>5, SocketTypes DEF Semaphores
<1>7. QED
  BY <1>2, <1>3, <1>4, <1>6

\* Reading the error of a descriptor changes its phase at most from refused.
LEMMA ErrorReadParts ==
    ASSUME NEW fd, OpenedOK(fd), Opened(fd), kernel[fd].phase # "listening"
    PROVE  LET d == ErrorRead(kernel[fd])
           IN /\ d.phase \notin {"free", "foreign", "listening"}
              /\ d.phase = "fresh" => d = Descriptor("fresh")
BY DEF ErrorRead, Opened, OpenedOK, Descriptor

LEMMA ConnectErrorOwn ==
    ASSUME IInv, OwnInv, IInv', NEW fd, NEW s \in Sockets, ConnectError(fd, s)
    PROVE  OwnInv'
<1> DEFINE e == <<fd, "ex">>
           a == Taken(aio, e)
<1>1. /\ Handling(e, "connectHandler", s) /\ WalkOn(e) /\ Notify(s, "conn")
      /\ aio' = aioDisable(a, fd)
      /\ kernel' = [kernel EXCEPT ![fd] = ErrorRead(@)]
      /\ sock' = [sock EXCEPT ![s].state = "Unconnected"]
  BY DEF ConnectError
<1>2. /\ fd \in Fds /\ fd # 0 /\ fd # None /\ Active(s) /\ sock[s].fd = fd
      /\ DescriptorOK(fd) /\ SocketOK(s) /\ Opened(fd)
      /\ AioOK(aio) /\ AioOK(a)
  BY <1>1, CalledParts
<1>3. /\ kernel[fd].phase # "listening" /\ ~sock[s].multiListen
      /\ Held(s) = {fd} /\ waiting[s] \subseteq {"conn"}
  BY <1>1, ClientParts
<1>4. events' \subseteq events /\ \A k \in Kinds : <<fd, k>> \notin events'
  <2>1. IsNext(e, events)
    BY <1>1 DEF Handling
  <2>2. QED
    BY <1>1, <1>2, <2>1, WalkParts, ExceptionIsLast
<1>5. \A g \in Fds \ {fd} : Same(aio, a, g)
  BY <1>2, TakenEffect DEF Kinds
<1> HIDE DEF a
<1>6. /\ \A g \in Fds \ {fd} : Same(a, aio', g)
      /\ fd \notin aio'.fdMask /\ aio'.clientData[fd] = NoData
      /\ \A k \in Kinds : fd \notin aio'.mask[k]
  BY <1>1, <1>2, DisableEffect
<1>7. \A g \in Fds \ {fd} : Same(aio, aio', g)
  BY <1>5, <1>6, SameTransitive
<1>8. /\ kernel'[fd] = ErrorRead(kernel[fd])
      /\ \A g \in Fds \ {fd} : kernel'[g] = kernel[g]
  BY <1>1, <1>2, IInvParts
<1>9. /\ kernel'[fd].phase \notin {"free", "foreign", "listening"}
      /\ kernel'[fd].phase = "fresh" => kernel'[fd] = Descriptor("fresh")
  BY <1>2, <1>3, <1>8, ErrorReadParts DEF DescriptorOK
<1>10. /\ sock'[s].live = sock[s].live /\ sock'[s].fd = fd
       /\ sock'[s].state = "Unconnected" /\ ~sock'[s].multiListen
       /\ \A t \in Sockets \ {s} : sock'[t] = sock[t] /\ waiting'[t] = waiting[t]
       /\ waiting'[s] = {}
  BY <1>1, <1>2, <1>3, IInvParts DEF SockStates, Notify
<1>11. Active(s)' /\ Held(s)' = {fd} /\ ~Pending(s)'
  BY <1>2, <1>10 DEF Active, Held, Pending
<1>12. SocketOK(s)'
  BY <1>6, <1>9, <1>10, <1>11
     DEF SocketOK, UsableOK, WaitingOK, Opened, Takes, Kinds
<1>13. DescriptorOK(fd)'
  <2>1. OpenedOK(fd)'
    BY <1>2, <1>9, <1>11 DEF OpenedOK
  <2>2. ArmedOK(fd)' /\ WatchedOK(fd)'
    BY <1>4, <1>6 DEF ArmedOK, WatchedOK
  <2>3. QED
    BY <2>1, <2>2 DEF DescriptorOK
<1>14. QED
  BY <1>2, <1>3, <1>4, <1>7, <1>8, <1>10, <1>11, <1>12, <1>13, OneSocket

LEMMA ConnectCompletesOwn ==
    ASSUME IInv, OwnInv, IInv', NEW fd, NEW s \in Sockets, ConnectCompletes(fd, s)
    PROVE  OwnInv'
<1> DEFINE e == <<fd, "wr">>
<1>1. /\ Handling(e, "connectHandler", s) /\ WalkOn(e) /\ Notify(s, "conn")
      /\ aio' = Taken(aio, e)
      /\ kernel' = [kernel EXCEPT ![fd] = ErrorRead(@)]
      /\ \/ sock' = [sock EXCEPT ![s].state = "Unconnected"]
         \/ sock' = [sock EXCEPT ![s].state = "Connected"]
  BY DEF ConnectCompletes
<1>2. /\ fd \in Fds /\ fd # 0 /\ fd # None /\ Active(s) /\ sock[s].fd = fd
      /\ fd \in aio.fdMask /\ aio.clientData[fd] = s
      /\ DescriptorOK(fd) /\ SocketOK(s) /\ Opened(fd)
      /\ AioOK(aio)
  BY <1>1, CalledParts
<1>3. /\ kernel[fd].phase # "listening" /\ ~sock[s].multiListen
      /\ Held(s) = {fd} /\ waiting[s] \subseteq {"conn"}
  BY <1>1, ClientParts
<1>4. events' \subseteq events /\ e \notin events'
  BY <1>1, WalkParts
<1>5. /\ \A g \in Fds \ {fd} : Same(aio, aio', g)
      /\ aio'.fdMask = aio.fdMask /\ aio'.clientData = aio.clientData
      /\ fd \notin aio'.mask["wr"]
      /\ \A k \in Kinds \ {"wr"} : /\ fd \in aio'.mask[k] <=> fd \in aio.mask[k]
                                   /\ aio'.handler[k][fd] = aio.handler[k][fd]
  <2>1. "wr" \in Kinds
    BY DEF Kinds
  <2>2. QED
    BY <1>1, <1>2, <2>1, TakenEffect
<1>6. /\ kernel'[fd] = ErrorRead(kernel[fd])
      /\ \A g \in Fds \ {fd} : kernel'[g] = kernel[g]
  BY <1>1, <1>2, IInvParts
<1>7. /\ kernel'[fd].phase \notin {"free", "foreign", "listening"}
      /\ kernel'[fd].phase = "fresh" => kernel'[fd] = Descriptor("fresh")
  BY <1>2, <1>3, <1>6, ErrorReadParts DEF DescriptorOK
<1>8. /\ sock'[s].live = sock[s].live /\ sock'[s].fd = fd
      /\ sock'[s].state \in {"Unconnected", "Connected"} /\ ~sock'[s].multiListen
      /\ \A t \in Sockets \ {s} : sock'[t] = sock[t] /\ waiting'[t] = waiting[t]
      /\ waiting'[s] = {}
  BY <1>1, <1>2, <1>3, IInvParts DEF SockStates, Notify
<1>9. Active(s)' /\ Held(s)' = {fd} /\ ~Pending(s)'
  BY <1>2, <1>8 DEF Active, Held, Pending
<1>10. SocketOK(s)'
  BY <1>2, <1>5, <1>7, <1>8, <1>9
     DEF SocketOK, UsableOK, WaitingOK, Watched, Opened, Takes
<1>11. DescriptorOK(fd)'
  <2>1. OpenedOK(fd)'
    BY <1>2, <1>7, <1>9 DEF OpenedOK
  <2>2. ArmedOK(fd)'
    <3>1. \A k \in Kinds : fd \in aio'.mask[k] =>
             k # "wr" /\ fd \in aio.mask[k] /\ aio'.handler[k][fd] = aio.handler[k][fd]
      BY <1>5
    <3>2. \A k \in Kinds : <<fd, k>> \in events' => k # "wr" /\ fd \in aio.mask[k]
      BY <1>2, <1>4 DEF DescriptorOK, ArmedOK
    <3>3. \A k \in Kinds : <<fd, k>> \in events' => fd \in aio'.mask[k]
      BY <1>5, <3>2
    <3>4. QED
      BY <1>2, <1>3, <1>7, <3>1, <3>3 DEF DescriptorOK, ArmedOK, Opened
  <2>3. WatchedOK(fd)'
    BY <1>2, <1>5, <1>8, <1>9 DEF WatchedOK
  <2>4. QED
    BY <2>1, <2>2, <2>3 DEF DescriptorOK
<1>12. QED
  BY <1>2, <1>3, <1>4, <1>5, <1>6, <1>8, <1>9, <1>10, <1>11, OneSocket

\* dataHandler takes its event, tells who waits for it, and may find that the
\* other end has closed or read the exception away.
LEMMA DataStep ==
    ASSUME IInv, OwnInv, IInv', NEW fd, NEW kind, NEW s \in Sockets,
           Handling(<<fd, kind>>, "dataHandler", s), WalkOn(<<fd, kind>>),
           aio' = Taken(aio, <<fd, kind>>),
           \A t \in Sockets \ {s} : sock'[t] = sock[t] /\ waiting'[t] = waiting[t],
           \/ sock'[s] = sock[s]
           \/ sock'[s] = [sock[s] EXCEPT !.state = "OtherEndClosed"],
           waiting'[s] \subseteq waiting[s],
           kind = "rd" => "read" \notin waiting'[s],
           kind = "wr" => "write" \notin waiting'[s],
           \A g \in Fds \ {fd} : kernel'[g] = kernel[g],
           \/ kernel'[fd] = kernel[fd]
           \/ kernel'[fd] = [kernel[fd] EXCEPT !.oob = FALSE]
    PROVE  OwnInv'
<1>1. /\ fd \in Fds /\ kind \in Kinds /\ fd # 0 /\ fd # None
      /\ Active(s) /\ sock[s].fd = fd
      /\ fd \in aio.fdMask /\ aio.clientData[fd] = s
      /\ fd \in aio.mask[kind] /\ aio.handler[kind][fd] = "dataHandler"
      /\ DescriptorOK(fd) /\ SocketOK(s) /\ Opened(fd)
      /\ AioOK(aio)
  BY CalledParts
<1>2. kernel[fd].phase # "listening"
  BY <1>1 DEF DescriptorOK, ArmedOK
<1>3. ~sock[s].multiListen /\ Held(s) = {fd}
  BY <1>1, <1>2 DEF SocketOK, UsableOK, Pending, Held
<1>4. events' \subseteq events /\ <<fd, kind>> \notin events'
  BY WalkParts
<1>5. /\ \A g \in Fds \ {fd} : Same(aio, aio', g)
      /\ aio'.fdMask = aio.fdMask /\ aio'.clientData = aio.clientData
      /\ fd \notin aio'.mask[kind]
      /\ \A k \in Kinds \ {kind} : /\ fd \in aio'.mask[k] <=> fd \in aio.mask[k]
                                   /\ aio'.handler[k][fd] = aio.handler[k][fd]
  BY <1>1, TakenEffect
<1>6. \A k \in Kinds : fd \in aio'.mask[k] =>
         /\ k # kind /\ fd \in aio.mask[k]
         /\ aio'.handler[k][fd] = aio.handler[k][fd]
  BY <1>5
<1>7. /\ sock'[s].live = sock[s].live /\ sock'[s].fd = fd
      /\ ~sock'[s].multiListen
      /\ sock'[s].state \in {sock[s].state, "OtherEndClosed"}
  BY <1>1, <1>3, IInvParts DEF SockStates
<1>8. Active(s)' /\ Held(s)' = {fd} /\ ~Pending(s)'
  BY <1>1, <1>7 DEF Active, Held, Pending
<1>9. kernel'[fd].phase = kernel[fd].phase
  BY <1>1, IInvParts DEF KernelStates
<1>10. Watched(s)'
  BY <1>1, <1>5, <1>7 DEF Watched
<1>11. UsableOK(s)'
  <2>1. sock'[s].state = "Unconnected" => fd \notin aio'.mask["wr"]
    BY <1>1, <1>6, <1>7 DEF SocketOK, UsableOK, Kinds
  <2>2. Takes(fd, "wr", "connectHandler")' =>
           sock'[s].state \in {"WaitingForConnection", "OtherEndClosed"}
    BY <1>1, <1>6, <1>7 DEF SocketOK, UsableOK, Takes, Kinds
  <2>3. QED
    BY <1>1, <1>2, <1>7, <1>8, <1>9, <1>10, <2>1, <2>2 DEF UsableOK, Opened
<1>12. WaitingOK(s)'
  <2>1. "read" \in waiting'[s] => Armed(s, "rd", "dataHandler")'
    BY <1>1, <1>5, <1>7 DEF SocketOK, WaitingOK, Armed, Kinds
  <2>2. "write" \in waiting'[s] => Armed(s, "wr", "dataHandler")'
    BY <1>1, <1>5, <1>7 DEF SocketOK, WaitingOK, Armed, Kinds
  <2>3. "conn" \in waiting'[s] => Armed(s, "wr", "connectHandler")'
    <3>1. ~Armed(s, "rd", "acceptHandler")
      BY <1>1, <1>2 DEF Armed, DescriptorOK, ArmedOK, Kinds
    <3>2. QED
      BY <1>1, <1>5, <1>7, <3>1 DEF SocketOK, WaitingOK, Armed, Kinds
  <2>4. "read" \in waiting'[s] \/ "write" \in waiting'[s] =>
           /\ sock'[s].state \in {"Connected", "OtherEndClosed"}
           /\ \A k \in Kinds : ~Takes(fd, k, "connectHandler")'
    BY <1>1, <1>6, <1>7 DEF SocketOK, WaitingOK, Takes
  <2>5. QED
    BY <1>7, <2>1, <2>2, <2>3, <2>4 DEF WaitingOK
<1>13. DescriptorOK(fd)'
  <2>1. OpenedOK(fd)'
    <3>1. kernel[fd].phase = "fresh" => kernel'[fd] = kernel[fd]
      <4>1. kernel[fd].phase = "fresh" => kernel[fd] = Descriptor("fresh")
        BY <1>1 DEF DescriptorOK, OpenedOK
      <4>2. kernel[fd].phase = "fresh" => kernel[fd].oob = FALSE
        BY <4>1 DEF Descriptor
      <4>3. kernel[fd] \in KernelStates
        BY <1>1, IInvParts
      <4>4. kernel[fd].oob = FALSE => [kernel[fd] EXCEPT !.oob = FALSE] = kernel[fd]
        BY <4>3 DEF KernelStates
      <4>5. QED
        BY <4>2, <4>4
    <3>2. QED
      BY <1>1, <1>2, <1>8, <1>9, <3>1 DEF DescriptorOK, OpenedOK
  <2>2. ArmedOK(fd)'
    <3>1. \A k \in Kinds : <<fd, k>> \in events' => fd \in aio'.mask[k]
      BY <1>1, <1>4, <1>5 DEF DescriptorOK, ArmedOK
    <3>2. QED
      BY <1>1, <1>2, <1>6, <1>9, <3>1 DEF DescriptorOK, ArmedOK, Opened
  <2>3. WatchedOK(fd)'
    BY <1>1, <1>5, <1>7, <1>8 DEF WatchedOK
  <2>4. QED
    BY <2>1, <2>2, <2>3 DEF DescriptorOK
<1>14. SocketOK(s)'
  BY <1>11, <1>12 DEF SocketOK
<1>15. QED
  BY <1>1, <1>3, <1>4, <1>5, <1>8, <1>13, <1>14, OneSocket

LEMMA DataReadableOwn ==
    ASSUME IInv, OwnInv, IInv', NEW fd, NEW s \in Sockets, DataReadable(fd, s)
    PROVE  OwnInv'
<1>1. /\ Handling(<<fd, "rd">>, "dataHandler", s) /\ WalkOn(<<fd, "rd">>)
      /\ aio' = Taken(aio, <<fd, "rd">>) /\ kernel' = kernel
  BY DEF DataReadable
<1>2. \/ sock' = [sock EXCEPT ![s].state = sock[s].state]
      \/ sock' = [sock EXCEPT ![s].state = "OtherEndClosed"]
  BY DEF DataReadable
<1>3. /\ \A t \in Sockets \ {s} : sock'[t] = sock[t]
      /\ \/ sock'[s] = sock[s]
         \/ sock'[s] = [sock[s] EXCEPT !.state = "OtherEndClosed"]
  BY <1>2, IInvParts DEF SockStates
<1>4. waiting' = [waiting EXCEPT ![s] = @ \ {"read"}]
  BY DEF DataReadable, Notify
<1>5. /\ \A t \in Sockets \ {s} : waiting'[t] = waiting[t]
      /\ waiting'[s] \subseteq waiting[s] /\ "read" \notin waiting'[s]
  BY <1>4, IInvParts
<1>6. QED
  BY <1>1, <1>3, <1>5, DataStep

LEMMA DataWritableOwn ==
    ASSUME IInv, OwnInv, IInv', NEW fd, NEW s \in Sockets, DataWritable(fd, s)
    PROVE  OwnInv'
<1>1. /\ Handling(<<fd, "wr">>, "dataHandler", s) /\ WalkOn(<<fd, "wr">>)
      /\ aio' = Taken(aio, <<fd, "wr">>) /\ kernel' = kernel /\ sock' = sock
      /\ waiting' = [waiting EXCEPT ![s] = @ \ {"write"}]
  BY DEF DataWritable, Notify
<1>2. /\ \A t \in Sockets \ {s} : waiting'[t] = waiting[t]
      /\ waiting'[s] \subseteq waiting[s] /\ "write" \notin waiting'[s]
  BY <1>1, IInvParts
<1>3. QED
  BY <1>1, <1>2, DataStep

LEMMA DataExceptionOwn ==
    ASSUME IInv, OwnInv, IInv', NEW fd, NEW s \in Sockets, DataException(fd, s)
    PROVE  OwnInv'
<1>1. /\ Handling(<<fd, "ex">>, "dataHandler", s) /\ WalkOn(<<fd, "ex">>)
      /\ aio' = Taken(aio, <<fd, "ex">>) /\ sock' = sock /\ waiting' = waiting
      /\ kernel' = [kernel EXCEPT ![fd].oob = FALSE]
  BY DEF DataException
<1>2. fd \in Fds
  BY <1>1, CalledParts
<1>3. /\ kernel'[fd] = [kernel[fd] EXCEPT !.oob = FALSE]
      /\ \A g \in Fds \ {fd} : kernel'[g] = kernel[g]
  BY <1>1, <1>2, IInvParts
<1>4. QED
  BY <1>1, <1>3, DataStep

\* A step that changes one descriptor and no socket keeps the invariant when the
\* descriptor and the sockets that hold it stay in order.
LEMMA DescriptorStep ==
    ASSUME IInv, OwnInv, IInv', NEW fd \in Fds, UNCHANGED <<sock, waiting>>,
           \A g \in Fds \ {fd} : Same(aio, aio', g) /\ kernel'[g] = kernel[g],
           events' \subseteq events, DescriptorOK(fd)',
           \A t \in Sockets : Active(t) /\ fd \in Held(t) => SocketOK(t)'
    PROVE  OwnInv'
<1> DEFINE S == {t \in Sockets : Active(t) /\ fd \in Held(t)}
           F == {fd}
<1>1. /\ S \in SUBSET Sockets /\ F \in SUBSET Fds
      /\ \A t \in Sockets \ S : sock'[t] = sock[t] /\ waiting'[t] = waiting[t]
      /\ \A g \in Fds \ F : Same(aio, aio', g) /\ kernel'[g] = kernel[g]
      /\ \A g \in Fds \ F : \A k \in Kinds : <<g, k>> \in events' => <<g, k>> \in events
      /\ \A x \in S : sock'[x] = sock[x] /\ SocketOK(x)'
      /\ \A t \in Sockets \ S : Active(t) => Held(t) \cap F = {}
      /\ \A g \in F : DescriptorOK(g)'
  OBVIOUS
<1>2. \A x, y \in S : Holders(x, y)' => Held(x)' \cap Held(y)' \subseteq {None}
  BY DEF OwnInv, Disjoint, Holders, Active, Held, Pending
<1> HIDE DEF S, F
<1>3. QED
  BY <1>1, <1>2, Frame

\* dataHandler is given none for a descriptor nobody looks after.
LEMMA DataForNobodyOwn ==
    ASSUME IInv, OwnInv, IInv', NEW fd, NEW kind, DataForNobody(fd, kind)
    PROVE  OwnInv'
<1>1. /\ Handling(<<fd, kind>>, "dataHandler", NoData) /\ WalkOn(<<fd, kind>>)
      /\ aio' = Taken(aio, <<fd, kind>>) /\ UNCHANGED <<sock, kernel, waiting>>
  BY DEF DataForNobody
<1>2. fd \in Fds /\ kind \in Kinds /\ AioOK(aio) /\ DescriptorOK(fd)
  BY <1>1, HandlingParts, IInvParts DEF OwnInv
<1>3. fd \notin aio.fdMask /\ aio.clientData[fd] = NoData
  BY <1>1, <1>2, ClientAssumption, SocketAssumption
     DEF Handling, DescriptorOK, WatchedOK
<1>4. events' \subseteq events /\ <<fd, kind>> \notin events'
  BY <1>1, WalkParts
<1>5. /\ \A g \in Fds \ {fd} : Same(aio, aio', g)
      /\ aio'.fdMask = aio.fdMask /\ aio'.clientData = aio.clientData
      /\ fd \notin aio'.mask[kind]
      /\ \A k \in Kinds \ {kind} : /\ fd \in aio'.mask[k] <=> fd \in aio.mask[k]
                                   /\ aio'.handler[k][fd] = aio.handler[k][fd]
  BY <1>1, <1>2, TakenEffect
<1>6. \A k \in Kinds : fd \in aio'.mask[k] =>
         fd \in aio.mask[k] /\ aio'.handler[k][fd] = aio.handler[k][fd]
  BY <1>5
<1>7. DescriptorOK(fd)'
  <2>1. OpenedOK(fd)'
    BY <1>1, <1>2 DEF DescriptorOK, OpenedOK, Opened, Active, Held, Pending
  <2>2. ArmedOK(fd)'
    <3>1. \A k \in Kinds : <<fd, k>> \in events' => fd \in aio'.mask[k]
      BY <1>2, <1>4, <1>5 DEF DescriptorOK, ArmedOK
    <3>2. QED
      BY <1>1, <1>2, <1>4, <1>6, <3>1 DEF DescriptorOK, ArmedOK, Opened
  <2>3. WatchedOK(fd)'
    BY <1>2, <1>3, <1>5, <1>6 DEF DescriptorOK, WatchedOK
  <2>4. QED
    BY <2>1, <2>2, <2>3 DEF DescriptorOK
<1>8. ASSUME NEW t \in Sockets, Active(t), fd \in Held(t)
      PROVE  SocketOK(t)'
  <2>1. SocketOK(t) /\ sock[t].fd \in Fds \cup {None}
    BY SocketTypes DEF OwnInv
  <2>2. waiting[t] # {} => sock[t].fd \in Fds \ {fd}
    BY <1>3, WaiterActive DEF Watched
  <2>3. waiting[t] # {} => Same(aio, aio', sock[t].fd)
    BY <1>5, <2>2
  <2>4. WaitingOK(t)'
    BY <1>1, <2>1, <2>3 DEF SocketOK, WaitingOK, Armed, Takes, Same, Kinds
  <2>5. \A k \in Kinds : sock[t].fd \in aio'.mask[k] /\ sock[t].fd # None =>
           /\ sock[t].fd \in aio.mask[k]
           /\ aio'.handler[k][sock[t].fd] = aio.handler[k][sock[t].fd]
    BY <1>5, <1>6, <2>1 DEF Same
  <2>6. UsableOK(t)'
    BY <1>1, <1>5, <2>1, <2>5
       DEF SocketOK, UsableOK, Listening, Watched, Takes, Opened, Kinds, Active, Pending
  <2>7. QED
    BY <2>4, <2>6 DEF SocketOK
<1>9. \A g \in Fds \ {fd} : Same(aio, aio', g) /\ kernel'[g] = kernel[g]
  BY <1>1, <1>5
<1>10. QED
  BY <1>1, <1>2, <1>4, <1>7, <1>8, <1>9, DescriptorStep

-----------------------------------------------------------------------------
(* The kernel and the peers.                                               *)

\* They complete a connect, and otherwise change what an open descriptor has to
\* report; a server breaks only while it keeps no connection.
LEMMA ChangesOwn ==
    ASSUME IInv, OwnInv, IInv', NEW fd \in Fds, NEW d, Changes(fd, d),
           \/ d.phase = kernel[fd].phase
           \/ kernel[fd].phase = "connecting" /\ d.phase \in {"connected", "refused"},
           kernel[fd].phase # "fresh",
           kernel[fd].phase = "listening" =>
              /\ ~d.fin /\ ~(d.data /\ d.oob)
              /\ kernel[fd].data => d.data
              /\ kernel[fd].oob => d.oob
              /\ d.oob => \/ kernel[fd].oob
                          \/ \A t \in Sockets : Active(t) /\ sock[t].fd = fd => ~Pending(t)
    PROVE  OwnInv'
<1>1. /\ UNCHANGED <<aio, sock, events, waiting>>
      /\ kernel'[fd] = d
      /\ \A g \in Fds \ {fd} : kernel'[g] = kernel[g]
  BY IInvParts DEF Changes
<1>2. DescriptorOK(fd)
  BY DEF OwnInv
<1>3. kernel'[fd].phase = "listening" <=> kernel[fd].phase = "listening"
  BY <1>1
<1>4. Opened(fd)' <=> Opened(fd)
  BY <1>1 DEF Opened
<1>5. DescriptorOK(fd)'
  <2>1. OpenedOK(fd)'
    <3>1. Opened(fd) => \E s \in Sockets : Active(s)' /\ fd \in Held(s)'
      BY <1>1, <1>2 DEF DescriptorOK, OpenedOK, Active, Held, Pending
    <3>2. kernel'[fd].phase # "fresh"
      BY <1>1
    <3>3. kernel'[fd].phase = "listening" =>
             ~kernel'[fd].fin /\ ~(kernel'[fd].data /\ kernel'[fd].oob)
      BY <1>1, <1>3
    <3>4. fd = 0 => kernel'[fd].phase = "foreign"
      BY <1>1, <1>2 DEF DescriptorOK, OpenedOK
    <3>5. QED
      BY <1>4, <3>1, <3>2, <3>3, <3>4 DEF OpenedOK
  <2>2. ArmedOK(fd)'
    <3>1. \A k \in Kinds : <<fd, k>> \in events =>
             \/ kernel[fd].phase # "listening"
             \/ k = "rd" /\ kernel'[fd].data
             \/ k = "ex" /\ kernel'[fd].oob
      BY <1>1, <1>2 DEF DescriptorOK, ArmedOK
    <3>2. QED
      BY <1>1, <1>2, <1>3, <1>4, <3>1 DEF DescriptorOK, ArmedOK
  <2>3. WatchedOK(fd)'
    BY <1>1, <1>2 DEF DescriptorOK, WatchedOK, Active
  <2>4. QED
    BY <2>1, <2>2, <2>3 DEF DescriptorOK
<1>6. ASSUME NEW t \in Sockets, Active(t), fd \in Held(t)
      PROVE  SocketOK(t)'
  <2>1. SocketOK(t) /\ sock[t].fd \in Fds \cup {None}
    BY SocketTypes DEF OwnInv
  <2>2. WaitingOK(t)'
    BY <1>1, <2>1 DEF SocketOK, WaitingOK, Armed, Takes
  <2>3. sock[t].fd # None => Opened(sock[t].fd)'
    BY <1>1, <1>4, <1>6, <2>1 DEF SocketOK, UsableOK, Opened
  <2>4. sock[t].fd # None => (kernel'[sock[t].fd].phase = "listening" <=>
                                 kernel[sock[t].fd].phase = "listening")
    BY <1>1, <1>3, <2>1
  <2>5. sock[t].fd # None /\ kernel[sock[t].fd].phase = "listening" => Listening(t)'
    <3>1. SUFFICES ASSUME sock[t].fd # None, kernel[sock[t].fd].phase = "listening"
                   PROVE  Listening(t)'
      OBVIOUS
    <3>2. Listening(t)
      BY <1>6, <2>1, <3>1 DEF SocketOK, UsableOK
    <3>3. CASE sock[t].state = "WaitingForConnection"
      BY <1>1, <3>3 DEF Listening
    <3>4. CASE Pending(t) /\ ~kernel[sock[t].fd].oob /\ sock[t].fd \notin aio.mask["rd"]
      <4>1. ~kernel'[sock[t].fd].oob
        BY <1>1, <1>6, <2>1, <3>1, <3>4
      <4>2. QED
        BY <1>1, <3>4, <4>1 DEF Listening, Pending
    <3>5. QED
      BY <3>2, <3>3, <3>4 DEF Listening
  <2>6. Pending(t) => kernel'[sock[t].acceptedSock].phase = "connected"
    BY <1>1, <1>6, <2>1 DEF SocketOK, UsableOK
  <2>7. UsableOK(t)'
    BY <1>1, <1>6, <2>1, <2>3, <2>4, <2>5, <2>6
       DEF SocketOK, UsableOK, Watched, Takes, Active, Pending
  <2>8. QED
    BY <2>2, <2>7 DEF SocketOK
<1>7. \A g \in Fds \ {fd} : Same(aio, aio', g) /\ kernel'[g] = kernel[g]
  BY <1>1, SameSelf
<1>8. QED
  BY <1>1, <1>5, <1>6, <1>7, DescriptorStep

\* A server that has brought no connection keeps none: descriptor 0, which
\* calloc leaves in acceptedSock, is no connection.
LEMMA NothingPending ==
    ASSUME IInv, OwnInv, NEW t \in Sockets, Active(t), sock[t].acceptedSock = 0
    PROVE  ~Pending(t)
<1>1. SUFFICES ASSUME Pending(t) PROVE FALSE
  OBVIOUS
<1>2. 0 \in Fds /\ kernel[0].phase = "connected"
  BY <1>1 DEF OwnInv, SocketOK, UsableOK
<1>3. kernel[0].phase = "foreign"
  BY <1>2 DEF OwnInv, DescriptorOK, OpenedOK
<1>4. QED
  BY <1>2, <1>3

LEMMA EnvironmentOwn ==
    ASSUME IInv, OwnInv, IInv', Environment
    PROVE  OwnInv'
<1>1. PICK fd \in Fds :
         \/ ConnectionArrives(fd) \/ ListenBreaks(fd)
         \/ PeerAccepts(fd) \/ PeerRefuses(fd)
         \/ PeerSends(fd) \/ PeerSendsUrgently(fd)
         \/ PeerReads(fd) \/ PeerCloses(fd)
  BY DEF Environment
<1>2. kernel[fd] \in KernelStates /\ DescriptorOK(fd)
  BY IInvParts DEF OwnInv
<1>3. CASE ConnectionArrives(fd)
  <2> DEFINE d == [kernel[fd] EXCEPT !.data = TRUE]
  <2>1. Changes(fd, d) /\ kernel[fd].phase = "listening" /\ ~kernel[fd].oob
    BY <1>3 DEF ConnectionArrives
  <2>2. /\ d.phase = kernel[fd].phase /\ d.data /\ d.fin = kernel[fd].fin
        /\ d.oob = kernel[fd].oob
    BY <1>2 DEF KernelStates
  <2>3. ~kernel[fd].fin
    BY <1>2, <2>1 DEF DescriptorOK, OpenedOK
  <2> HIDE DEF d
  <2>4. QED
    BY <2>1, <2>2, <2>3, ChangesOwn
<1>4. CASE ListenBreaks(fd)
  <2> DEFINE d == [kernel[fd] EXCEPT !.oob = TRUE]
  <2>1. Changes(fd, d) /\ kernel[fd].phase = "listening" /\ ~kernel[fd].data
    BY <1>4 DEF ListenBreaks
  <2>2. \A t \in Sockets : Active(t) /\ sock[t].fd = fd => ~Pending(t)
    BY <1>4, NothingPending DEF ListenBreaks, Active
  <2>3. /\ d.phase = kernel[fd].phase /\ d.oob /\ d.fin = kernel[fd].fin
        /\ d.data = kernel[fd].data
    BY <1>2 DEF KernelStates
  <2>4. ~kernel[fd].fin
    BY <1>2, <2>1 DEF DescriptorOK, OpenedOK
  <2> HIDE DEF d
  <2>5. QED
    BY <2>1, <2>2, <2>3, <2>4, ChangesOwn
<1>5. CASE PeerAccepts(fd)
  <2> DEFINE d == [kernel[fd] EXCEPT !.phase = "connected"]
  <2>1. Changes(fd, d) /\ kernel[fd].phase = "connecting"
    BY <1>5 DEF PeerAccepts
  <2>2. d.phase = "connected"
    BY <1>2 DEF KernelStates
  <2> HIDE DEF d
  <2>3. QED
    BY <2>1, <2>2, ChangesOwn
<1>6. CASE PeerRefuses(fd)
  <2>1. PICK exception \in BOOLEAN :
           Changes(fd, [kernel[fd] EXCEPT !.phase = "refused", !.oob = exception])
    BY <1>6 DEF PeerRefuses
  <2> DEFINE d == [kernel[fd] EXCEPT !.phase = "refused", !.oob = exception]
  <2>2. d.phase = "refused" /\ kernel[fd].phase = "connecting"
    BY <1>2, <1>6 DEF KernelStates, PeerRefuses
  <2>3. Changes(fd, d)
    BY <2>1
  <2> HIDE DEF d
  <2>4. QED
    BY <2>2, <2>3, ChangesOwn
<1>7. CASE PeerSends(fd)
  <2> DEFINE d == [kernel[fd] EXCEPT !.data = TRUE]
  <2>1. Changes(fd, d) /\ kernel[fd].phase = "connected"
    BY <1>7 DEF PeerSends
  <2>2. d.phase = kernel[fd].phase
    BY <1>2 DEF KernelStates
  <2> HIDE DEF d
  <2>3. QED
    BY <2>1, <2>2, ChangesOwn
<1>8. CASE PeerSendsUrgently(fd)
  <2> DEFINE d == [kernel[fd] EXCEPT !.oob = TRUE]
  <2>1. Changes(fd, d) /\ kernel[fd].phase = "connected"
    BY <1>8 DEF PeerSendsUrgently
  <2>2. d.phase = kernel[fd].phase
    BY <1>2 DEF KernelStates
  <2> HIDE DEF d
  <2>3. QED
    BY <2>1, <2>2, ChangesOwn
<1>9. CASE PeerReads(fd)
  <2> DEFINE d == [kernel[fd] EXCEPT !.full = FALSE]
  <2>1. Changes(fd, d) /\ kernel[fd].full
    BY <1>9 DEF PeerReads
  <2>2. /\ d.phase = kernel[fd].phase /\ d.fin = kernel[fd].fin
        /\ d.data = kernel[fd].data /\ d.oob = kernel[fd].oob
    BY <1>2 DEF KernelStates
  <2>3. kernel[fd].phase # "fresh"
    BY <1>2, <2>1 DEF DescriptorOK, OpenedOK, Descriptor
  <2>4. kernel[fd].phase = "listening" =>
           ~kernel[fd].fin /\ ~(kernel[fd].data /\ kernel[fd].oob)
    BY <1>2 DEF DescriptorOK, OpenedOK
  <2> HIDE DEF d
  <2>5. QED
    BY <2>1, <2>2, <2>3, <2>4, ChangesOwn
<1>10. CASE PeerCloses(fd)
  <2> DEFINE d == [kernel[fd] EXCEPT !.fin = TRUE]
  <2>1. Changes(fd, d) /\ kernel[fd].phase = "connected"
    BY <1>10 DEF PeerCloses
  <2>2. d.phase = kernel[fd].phase
    BY <1>2 DEF KernelStates
  <2> HIDE DEF d
  <2>3. QED
    BY <2>1, <2>2, ChangesOwn
<1>11. QED
  BY <1>1, <1>3, <1>4, <1>5, <1>6, <1>7, <1>8, <1>9, <1>10

-----------------------------------------------------------------------------
(* Every step keeps the ownership.                                         *)

LEMMA InitOwnInv == Init => OwnInv
<1> SUFFICES ASSUME Init PROVE OwnInv
  OBVIOUS
<1>1. \A s \in Sockets : ~Active(s)
  BY DEF Init, NoSocket, Active
<1>2. ASSUME NEW fd \in Fds PROVE DescriptorOK(fd)
  <2>1. kernel[fd].phase = IF fd = 0 THEN "foreign" ELSE "free"
    BY DEF Init, Descriptor
  <2>2. /\ fd \notin aio.fdMask /\ aio.clientData[fd] = NoData /\ events = {}
        /\ \A k \in Kinds : fd \notin aio.mask[k]
    BY DEF Init, aioInit
  <2>3. QED
    BY <2>1, <2>2 DEF DescriptorOK, OpenedOK, ArmedOK, WatchedOK, Opened
<1>3. ASSUME NEW s \in Sockets PROVE SocketOK(s)
  <2>1. waiting[s] = {}
    BY DEF Init
  <2>2. QED
    BY <1>1, <2>1 DEF SocketOK, UsableOK, WaitingOK
<1>4. Disjoint
  BY <1>1 DEF Disjoint, Holders
<1>5. QED
  BY <1>2, <1>3, <1>4 DEF OwnInv

LEMMA StepOwnInv == IInv /\ OwnInv /\ [Next]_vars => OwnInv'
<1> SUFFICES ASSUME IInv, OwnInv, [Next]_vars PROVE OwnInv'
  OBVIOUS
<1>0. IInv'
  BY StepIInv
<1>1. CASE Primitive
  BY <1>0, <1>1, CreateOwn, ListenOwn, ConnectAtOnceOwn, ConnectInProgressOwn,
     ConnectFailsOwn, AcceptFromOwn, CloseOwn, DestroyOwn, ConnectionStatusOwn,
     ReceiveDataAvailableOwn, SendDoneOwn, ReceiveDataOwn, SendDataOwn
     DEF Primitive
<1>2. CASE Poll
  BY <1>0, <1>2, PollOwn
<1>3. CASE Handler
  BY <1>0, <1>3, AcceptErrorOwn, AcceptAbortedOwn, AcceptFailsOwn,
     AcceptInPlaceOwn, AcceptForLaterOwn, ConnectErrorOwn, ConnectCompletesOwn,
     DataReadableOwn, DataWritableOwn, DataExceptionOwn, DataForNobodyOwn
     DEF Handler
<1>4. CASE Environment
  BY <1>0, <1>4, EnvironmentOwn
<1>5. CASE UNCHANGED vars
  BY <1>0, <1>5, Unmoved DEF vars
<1>6. QED
  BY <1>1, <1>2, <1>3, <1>4, <1>5 DEF Next

-----------------------------------------------------------------------------
(* The theorems.                                                           *)

\* The state of the dispatcher, the sockets and the kernel keeps its type: no
\* routine installs a handler or an event for a descriptor that is none, and
\* maxFd stays within the bits of a mask.
THEOREM TypeCorrect == Spec => []TypeOK
<1>1. IInv => TypeOK
  BY DEF IInv
<1>2. QED
  BY InitIInv, StepIInv, <1>1, PTL DEF Spec

\* Whatever primitives and handlers enable, suspend and disable, and in
\* whatever order, maxFd is one above the highest enabled descriptor.
THEOREM MaxFdAccurate == Spec => []MaxFdIsAccurate
BY InitIInv, StepIInv, IInvMeansAccurate, PTL DEF Spec

\* So select, which looks at the descriptors below maxFd only, is asked about
\* each event that is armed for an enabled descriptor.
THEOREM EnabledIsAsked ==
    Spec => [](\A e \in Events :
                  e[1] \in aio.fdMask /\ e[1] \in aio.mask[e[2]] => e \in Asked(aio))
<1>1. ASSUME IInv, NEW e \in Events, e[1] \in aio.fdMask, e[1] \in aio.mask[e[2]]
      PROVE  e \in Asked(aio)
  <2>1. Tops(aio.maxFd, FdSetSize, aio.fdMask) /\ e[1] \in Fds
    BY <1>1 DEF IInv, Accurate, Events
  <2>2. e[1] < aio.maxFd
    <3>1. aio.maxFd \in 0 .. FdSetSize
      BY <2>1 DEF Tops
    <3>2. SUFFICES ASSUME aio.maxFd <= e[1] PROVE FALSE
      BY <2>1, <3>1, FdAssumption DEF Fds
    <3>3. e[1] + 1 \in aio.maxFd + 1 .. FdSetSize
      BY <2>1, <3>1, <3>2, FdAssumption DEF Fds
    <3>4. (e[1] + 1) - 1 \notin aio.fdMask
      BY <2>1, <3>3 DEF Tops
    <3>5. (e[1] + 1) - 1 = e[1]
      BY <2>1 DEF Fds
    <3>6. QED
      BY <1>1, <3>4, <3>5
  <2>3. QED
    BY <1>1, <2>2 DEF Asked
<1>2. QED
  <2>1. IInv => \A e \in Events :
                   e[1] \in aio.fdMask /\ e[1] \in aio.mask[e[2]] => e \in Asked(aio)
    BY <1>1
  <2>2. QED
    BY InitIInv, StepIInv, <2>1, PTL DEF Spec

LEMMA SpecInvariants == Spec => [](IInv /\ OwnInv)
<1>1. Init => IInv /\ OwnInv
  BY InitIInv, InitOwnInv
<1>2. (IInv /\ OwnInv) /\ [Next]_vars => (IInv /\ OwnInv)'
  BY StepIInv, StepOwnInv
<1>3. QED
  BY <1>1, <1>2, PTL DEF Spec

\* A poll never comes to an event whose handler is gone.
THEOREM HandlersAreSet == Spec => []HandlerIsSet
<1>1. IInv /\ OwnInv => HandlerIsSet
  <2>1. SUFFICES ASSUME IInv, OwnInv, NEW e \in events
                 PROVE  aio.handler[e[2]][e[1]] \notin {"undefinedHandler", "null"}
    BY DEF HandlerIsSet
  <2>2. e[1] \in Fds /\ e[2] \in Kinds /\ e = <<e[1], e[2]>>
    BY <2>1, IInvParts DEF Events
  <2>3. ArmedOK(e[1])
    BY <2>1, <2>2 DEF OwnInv, DescriptorOK
  <2>4. QED
    BY <2>1, <2>2, <2>3 DEF ArmedOK
<1>2. QED
  BY <1>1, SpecInvariants, PTL

\* An armed event is one of an open descriptor, and its handler will be given
\* the socket whose descriptor it is.
THEOREM EventsReach == Spec => []EventsReachTheirSocket
<1>1. IInv /\ OwnInv => EventsReachTheirSocket
  <2>1. SUFFICES ASSUME IInv, OwnInv, NEW kind \in Kinds, NEW fd \in aio.mask[kind]
                 PROVE  /\ kernel[fd].phase \notin {"free", "foreign"}
                        /\ IF aio.clientData[fd] = NoData
                           THEN aio.handler[kind][fd] = "dataHandler"
                           ELSE /\ sock[aio.clientData[fd]].live
                                /\ sock[aio.clientData[fd]].fd = fd
    BY DEF EventsReachTheirSocket
  <2>2. fd \in Fds
    BY <2>1, IInvParts DEF AioOK, AioStates
  <2>3. ArmedOK(fd) /\ WatchedOK(fd)
    BY <2>1, <2>2 DEF OwnInv, DescriptorOK
  <2>4. QED
    BY <2>1, <2>3, ClientAssumption, SocketAssumption DEF ArmedOK, WatchedOK, Opened, Active
<1>2. QED
  BY <1>1, SpecInvariants, PTL

\* No descriptor is used by two sockets, and no usable socket holds one that is
\* closed.
THEOREM OneOwner == Spec => []DescriptorHasOneOwner
<1>1. IInv /\ OwnInv => DescriptorHasOneOwner
  <2>1. SUFFICES ASSUME IInv, OwnInv, NEW s \in Sockets, Active(s),
                        NEW fd \in Held(s) \ {None}
                 PROVE  /\ kernel[fd].phase \notin {"free", "foreign"}
                        /\ \A t \in Sockets \ {s} : Active(t) => fd \notin Held(t)
    BY DEF DescriptorHasOneOwner, Active
  <2>2. kernel[fd].phase \notin {"free", "foreign"}
    BY <2>1, HeldOpened DEF Opened
  <2>3. \A t \in Sockets \ {s} : Active(t) => fd \notin Held(t)
    BY <2>1, NobodyElse
  <2>4. QED
    BY <2>2, <2>3
<1>2. QED
  BY <1>1, SpecInvariants, PTL

\* No descriptor leaks: each open one is held by some socket.
THEOREM EveryOneOwned == Spec => []EveryDescriptorIsOwned
<1>1. OwnInv => EveryDescriptorIsOwned
  BY DEF OwnInv, DescriptorOK, OpenedOK, Opened, Active, EveryDescriptorIsOwned
<1>2. QED
  BY <1>1, SpecInvariants, PTL

\* Whoever waits on a socket's semaphore has left the handler armed that will
\* signal it.
THEOREM WaitersAreArmed == Spec => []WaiterIsArmed
<1>1. OwnInv => WaiterIsArmed
  BY DEF OwnInv, SocketOK, WaitingOK, WaiterIsArmed
<1>2. QED
  BY <1>1, SpecInvariants, PTL
=============================================================================
