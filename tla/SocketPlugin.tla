---------------------------- MODULE SocketPlugin ----------------------------
(***************************************************************************)
(* TCP sockets on Unix (platforms/unix/plugins/SocketPlugin/               *)
(* sqUnixSocket.c) over module Aio, the kernel and the peers.              *)
(*                                                                         *)
(* The image calls a primitive, is told "not yet" and waits on one of the  *)
(* socket's three semaphores; a later poll runs the handler the primitive  *)
(* left armed, which signals the semaphore.  Primitives and handlers run   *)
(* on one thread, each an action of its own; a poll is a snapshot of the   *)
(* events and one action for each handler it calls.  The kernel and the    *)
(* peers act in between.  UDP and raw sockets are left out.                *)
(***************************************************************************)
EXTENDS Aio

CONSTANTS Sockets,
          MaxCreated,   \* bound: sockets created in all
          Slow,         \* bound: the descriptors whose peers read slowly
          Urgent        \* bound: those whose peers send out-of-band data

ASSUME SocketAssumption == Clients = Sockets
ASSUME BoundAssumption  == MaxCreated \in Nat /\ Slow \cup Urgent \subseteq Fds

VARIABLES aio,       \* see AioStates
          sock,      \* the private structure of each socket
          kernel,    \* what each descriptor is to the operating system
          events,    \* events the poll in progress has still to hand out
          waiting,   \* the semaphores the image waits on, for each socket
          created    \* sockets created so far (bound)

vars == <<aio, sock, kernel, events, waiting, created>>

None       == -1     \* a descriptor that is none
States     == {"Invalid", "Unconnected", "WaitingForConnection", "Connected",
               "OtherEndClosed", "ThisEndClosed"}
Semaphores == {"conn", "read", "write"}
Phases     == {"free", "foreign", "fresh", "listening", "connecting",
               "refused", "connected"}

\* data: bytes to read, or a connection to accept.  fin: the other end has
\* closed.  full: no room to send.  oob: an exception to report, for instance
\* out-of-band data.
Descriptor(phase) == [phase |-> phase, data |-> FALSE, fin |-> FALSE,
                      full |-> FALSE, oob |-> FALSE]

NoSocket == [live |-> FALSE, fd |-> None, state |-> "Unconnected",
             multiListen |-> FALSE, acceptedSock |-> None]

\* calloc leaves zero in acceptedSock.
NewSocket(fd, state) == [live |-> TRUE, fd |-> fd, state |-> state,
                         multiListen |-> FALSE, acceptedSock |-> 0]

\* Descriptor 0 is the VM's standard input.
Init ==
    /\ aio = aioInit
    /\ sock = [s \in Sockets |-> NoSocket]
    /\ kernel = [fd \in Fds |-> Descriptor(IF fd = 0 THEN "foreign" ELSE "free")]
    /\ events = {}
    /\ waiting = [s \in Sockets |-> {}]
    /\ created = 0

\* The kernel gives out the lowest descriptor that is free.
IsNew(fd) == /\ kernel[fd].phase = "free"
             /\ \A g \in 0 .. fd - 1 : kernel[g].phase # "free"

\* A listening socket that keeps what it accepted for acceptFrom.
Pending(s) == sock[s].multiListen /\ sock[s].state = "Connected"

Wait(s, sema)   == waiting' = [waiting EXCEPT ![s] = @ \cup {sema}]
Notify(s, sema) == waiting' = [waiting EXCEPT ![s] = @ \ {sema}]

-----------------------------------------------------------------------------
(* The primitives.  The image asks an Invalid socket only for its status,  *)
(* which is how it learns that it is one.                                  *)

Usable(s) == /\ events = {}
             /\ sock[s].live
             /\ sock[s].state # "Invalid"

\* A stream socket the image reads and writes.
IsStream(s) == ~sock[s].multiListen /\ sock[s].state # "WaitingForConnection"

Create(s) ==
    /\ events = {}
    /\ created < MaxCreated /\ created' = created + 1
    /\ ~sock[s].live
    /\ \E fd \in Fds :
          /\ IsNew(fd)
          /\ kernel' = [kernel EXCEPT ![fd] = Descriptor("fresh")]
          /\ sock' = [sock EXCEPT ![s] = NewSocket(fd, "Unconnected")]
    /\ UNCHANGED <<aio, events, waiting>>

\* The image listens on sockets it has not connected.
ListenOnPort(s, multi) ==
    LET fd == sock[s].fd
    IN /\ Usable(s)
       /\ sock[s].state = "Unconnected" /\ fd # None
       /\ kernel[fd].phase = "fresh"
       /\ kernel' = [kernel EXCEPT ![fd].phase = "listening"]
       /\ sock' = [sock EXCEPT ![s].multiListen = multi,
                               ![s].state = "WaitingForConnection"]
       /\ aio' = aioHandle(aioEnable(aio, fd, s), fd, "acceptHandler",
                           {"rd", "ex"})
       /\ Wait(s, "conn")
       /\ UNCHANGED <<events, created>>

Connecting(s) == /\ Usable(s)
                 /\ sock[s].state = "Unconnected" /\ sock[s].fd # None

\* connect() succeeds at once.
ConnectAtOnce(s) ==
    LET fd == sock[s].fd
    IN /\ Connecting(s)
       /\ kernel[fd].phase = "fresh"
       /\ kernel' = [kernel EXCEPT ![fd].phase = "connected"]
       /\ sock' = [sock EXCEPT ![s].state = "Connected"]
       /\ aio' = aioEnable(aio, fd, s)
       /\ Notify(s, "conn")
       /\ UNCHANGED <<events, created>>

ConnectInProgress(s) ==
    LET fd == sock[s].fd
    IN /\ Connecting(s)
       /\ kernel[fd].phase = "fresh"
       /\ kernel' = [kernel EXCEPT ![fd].phase = "connecting"]
       /\ sock' = [sock EXCEPT ![s].state = "WaitingForConnection"]
       /\ aio' = aioHandle(aioEnable(aio, fd, s), fd, "connectHandler",
                           {"wr", "ex"})
       /\ Wait(s, "conn")
       /\ UNCHANGED <<events, created>>

\* connect() fails at once.
ConnectFails(s) ==
    /\ Connecting(s)
    /\ aio' = aioEnable(aio, sock[s].fd, s)
    /\ Notify(s, "conn")
    /\ UNCHANGED <<sock, kernel, events, created>>

\* "The image has already called waitForConnection": it accepts when the
\* server is connected, and then waits for the next connection.
AcceptFrom(s, server) ==
    LET fd == sock[server].acceptedSock
    IN /\ Usable(server) /\ Pending(server) /\ fd >= 0
       /\ ~sock[s].live
       /\ created < MaxCreated /\ created' = created + 1
       /\ sock' = [sock EXCEPT ![s] = NewSocket(fd, "Connected"),
                               ![server].acceptedSock = None,
                               ![server].state = "WaitingForConnection"]
       /\ aio' = aioEnable(aioHandle(aio, sock[server].fd, "acceptHandler",
                                     {"rd", "ex"}), fd, s)
       /\ Wait(server, "conn")
       /\ UNCHANGED <<kernel, events>>

\* Mutant of CloseConnection: the socket keeps the closed descriptor.
CloseKeepingDescriptor(s) ==
    LET fd == sock[s].fd
    IN /\ Usable(s) /\ ~Pending(s) /\ fd # None
       /\ aio' = aioDisable(aio, fd)
       /\ kernel' = [kernel EXCEPT ![fd] = Descriptor("free")]
       /\ sock' = [sock EXCEPT ![s].state = "Unconnected"]
       /\ waiting' = [waiting EXCEPT ![s] = {}]
       /\ UNCHANGED <<events, created>>

\* Mutant of CloseConnection: the descriptor is closed before it is disabled,
\* and not disabled then.
CloseStillEnabled(s) ==
    LET fd == sock[s].fd
    IN /\ Usable(s) /\ ~Pending(s) /\ fd # None
       /\ kernel' = [kernel EXCEPT ![fd] = Descriptor("free")]
       /\ sock' = [sock EXCEPT ![s].state = "Unconnected", ![s].fd = None]
       /\ waiting' = [waiting EXCEPT ![s] = {}]
       /\ UNCHANGED <<aio, events, created>>

\* close() is taken to complete at once.  Nobody who waits on the socket is
\* told: closing is the image's own doing, and so is waking its processes.
CloseConnection(s) ==
    LET fd == sock[s].fd
    IN /\ Usable(s) /\ ~Pending(s) /\ fd # None
       /\ aio' = aioDisable(aio, fd)
       /\ kernel' = [kernel EXCEPT ![fd] = Descriptor("free")]
       /\ sock' = [sock EXCEPT ![s].state = "Unconnected", ![s].fd = None]
       /\ waiting' = [waiting EXCEPT ![s] = {}]
       /\ UNCHANGED <<events, created>>

\* The connection is aborted, if it is open, and the structure freed.
Destroy(s) ==
    LET fd == sock[s].fd
    IN /\ Usable(s) /\ ~Pending(s)
       /\ IF fd = None
          THEN UNCHANGED <<aio, kernel>>
          ELSE /\ aio' = aioDisable(aio, fd)
               /\ kernel' = [kernel EXCEPT ![fd] = Descriptor("free")]
       /\ sock' = [sock EXCEPT ![s] = NoSocket]
       /\ waiting' = [waiting EXCEPT ![s] = {}]
       /\ UNCHANGED <<events, created>>

\* The structure of an invalid socket is dropped when the image finds out.
ConnectionStatus(s) ==
    /\ events = {}
    /\ sock[s].live /\ sock[s].state = "Invalid"
    /\ sock' = [sock EXCEPT ![s] = NoSocket]
    /\ UNCHANGED <<aio, kernel, events, waiting, created>>

HasData(fd) == kernel[fd].phase = "connected" /\ kernel[fd].data
AtEnd(fd)   == kernel[fd].phase = "connected" /\ ~kernel[fd].data /\ kernel[fd].fin

\* receiveDataAvailable answers false, whatever the state of the socket, by
\* arming the handler.  The image waits if it is still connected.
ReceiveDataAvailable(s) ==
    LET fd == sock[s].fd
    IN /\ Usable(s) /\ IsStream(s)
       /\ aio' = aioHandle(aio, fd, "dataHandler", {"rd", "ex"})
       /\ IF sock[s].state = "Connected"
          THEN /\ ~HasData(fd)
               /\ IF AtEnd(fd)
                  THEN /\ sock' = [sock EXCEPT ![s].state = "OtherEndClosed"]
                       /\ UNCHANGED waiting
                  ELSE UNCHANGED sock /\ Wait(s, "read")
          ELSE UNCHANGED <<sock, waiting>>
       /\ UNCHANGED <<kernel, events, created>>

SendDone(s) ==
    LET fd == sock[s].fd
    IN /\ Usable(s) /\ IsStream(s)
       /\ sock[s].state = "Connected" /\ kernel[fd].full
       /\ aio' = aioHandle(aio, fd, "dataHandler", {"wr", "ex"})
       /\ Wait(s, "write")
       /\ UNCHANGED <<sock, kernel, events, created>>

\* The image reads until nothing is left; a process that waits does not read.
Open(s) == /\ Usable(s) /\ IsStream(s)
           /\ sock[s].state \in {"Connected", "OtherEndClosed"}
           /\ sock[s].fd # None

ReceiveData(s) ==
    LET fd == sock[s].fd
    IN /\ Open(s) /\ "read" \notin waiting[s]
       /\ \/ /\ HasData(fd)
             /\ kernel' = [kernel EXCEPT ![fd].data = FALSE]
             /\ UNCHANGED <<sock, waiting>>
          \/ /\ AtEnd(fd)
             /\ sock' = [sock EXCEPT ![s].state = "OtherEndClosed"]
             /\ Notify(s, "conn")
             /\ UNCHANGED kernel
       /\ UNCHANGED <<aio, events, created>>

SendData(s) ==
    LET fd == sock[s].fd
    IN /\ Open(s) /\ "write" \notin waiting[s]
       /\ kernel[fd].phase = "connected"
       /\ \/ /\ fd \in Slow /\ ~kernel[fd].full
             /\ kernel' = [kernel EXCEPT ![fd].full = TRUE]
             /\ UNCHANGED sock
          \/ /\ kernel[fd].fin
             /\ sock' = [sock EXCEPT ![s].state = "OtherEndClosed"]
             /\ UNCHANGED kernel
       /\ UNCHANGED <<aio, events, waiting, created>>

-----------------------------------------------------------------------------
(* aioPoll and the handlers.                                               *)

\* What select reports of a descriptor.  A stream socket that was never
\* connected counts as hung up, a failed connect as readable and writable.
Ready(e) ==
    LET d == kernel[e[1]]
    IN CASE e[2] = "rd" -> \/ d.phase \in {"fresh", "refused"}
                           \/ d.phase \in {"listening", "connected"} /\ (d.data \/ d.fin)
         [] e[2] = "wr" -> \/ d.phase \in {"fresh", "refused"}
                           \/ d.phase = "connected" /\ ~d.full
         [] e[2] = "ex" -> d.oob

\* select(2) may also report a connection readable that is not.  It fails, and
\* nothing is handed out, when a descriptor it is asked about is closed.
Spurious(e) == e[2] = "rd" /\ kernel[e[1]].phase = "connected" /\ ~Ready(e)

Poll ==
    /\ events = {}
    /\ \A e \in Asked(aio) : kernel[e[1]].phase # "free"
    /\ \E extra \in SUBSET {e \in Asked(aio) : Spurious(e)} :
          events' = {e \in Asked(aio) : Ready(e)} \cup extra
    /\ events' # {}
    /\ UNCHANGED <<aio, sock, kernel, waiting, created>>

\* The handler of the next event is h, and is given data; then the walk goes on.
Handling(e, h, data) == /\ IsNext(e, events)
                        /\ aio.handler[e[2]][e[1]] = h
                        /\ aio.clientData[e[1]] = data
                        /\ UNCHANGED created
WalkOn(e) == events' = StillToCall(aio', e, events)

\* acceptHandler, given an exception.
AcceptError(fd, s) ==
    LET e == <<fd, "ex">>
    IN /\ Handling(e, "acceptHandler", s)
       /\ aio' = aioDisable(Taken(aio, e), fd)
       /\ kernel' = [kernel EXCEPT ![fd] = Descriptor("free")]
       /\ sock' = [sock EXCEPT ![s].state = "Invalid", ![s].fd = None]
       /\ Notify(s, "conn")
       /\ WalkOn(e)

\* Mutant of AcceptAborted: the handler is not installed again.
AcceptAbortedQuietly(fd, s) ==
    LET e == <<fd, "rd">>
    IN /\ Handling(e, "acceptHandler", s)
       /\ aio' = Taken(aio, e)
       /\ kernel' = [kernel EXCEPT ![fd].data = FALSE]
       /\ UNCHANGED <<sock, waiting>>
       /\ WalkOn(e)

\* accept() fails with ECONNABORTED: "let's just pretend this never happened".
AcceptAborted(fd, s) ==
    LET e == <<fd, "rd">>
    IN /\ Handling(e, "acceptHandler", s)
       /\ aio' = aioHandle(Taken(aio, e), fd, "acceptHandler", {"rd", "ex"})
       /\ kernel' = [kernel EXCEPT ![fd].data = FALSE]
       /\ UNCHANGED <<sock, waiting>>
       /\ WalkOn(e)

\* accept() fails otherwise, for instance for want of a descriptor.  The socket
\* keeps the number of the descriptor that is closed.
AcceptFails(fd, s) ==
    LET e == <<fd, "rd">>
    IN /\ Handling(e, "acceptHandler", s)
       /\ aio' = aioDisable(Taken(aio, e), fd)
       /\ kernel' = [kernel EXCEPT ![fd] = Descriptor("free")]
       /\ sock' = [sock EXCEPT ![s].state = "Invalid"]
       /\ Notify(s, "conn")
       /\ WalkOn(e)

\* Mutant of AcceptInPlace: the server's descriptor is not closed.
AcceptInPlaceLeaking(fd, s) ==
    LET e == <<fd, "rd">>
    IN /\ Handling(e, "acceptHandler", s) /\ ~sock[s].multiListen
       /\ \E new \in Fds :
             /\ IsNew(new)
             /\ kernel' = [kernel EXCEPT ![fd].data = FALSE,
                                         ![new] = Descriptor("connected")]
             /\ sock' = [sock EXCEPT ![s].state = "Connected", ![s].fd = new]
             /\ aio' = aioEnable(aioDisable(Taken(aio, e), fd), new, s)
       /\ Notify(s, "conn")
       /\ WalkOn(e)

\* "traditional listen -- replace server with client in-place"
AcceptInPlace(fd, s) ==
    LET e == <<fd, "rd">>
    IN /\ Handling(e, "acceptHandler", s) /\ ~sock[s].multiListen
       /\ \E new \in Fds :
             /\ IsNew(new)
             /\ kernel' = [kernel EXCEPT ![fd] = Descriptor("free"),
                                         ![new] = Descriptor("connected")]
             /\ sock' = [sock EXCEPT ![s].state = "Connected", ![s].fd = new]
             /\ aio' = aioEnable(aioDisable(Taken(aio, e), fd), new, s)
       /\ Notify(s, "conn")
       /\ WalkOn(e)

\* The connection is kept until acceptFrom, which arms the handler again.
AcceptForLater(fd, s) ==
    LET e == <<fd, "rd">>
    IN /\ Handling(e, "acceptHandler", s) /\ sock[s].multiListen
       /\ \E new \in Fds :
             /\ IsNew(new)
             /\ kernel' = [kernel EXCEPT ![fd].data = FALSE,
                                         ![new] = Descriptor("connected")]
             /\ sock' = [sock EXCEPT ![s].state = "Connected",
                                     ![s].acceptedSock = new]
       /\ aio' = Taken(aio, e)
       /\ Notify(s, "conn")
       /\ WalkOn(e)

\* socketError clears the error of a failed connect.
ErrorRead(d) == IF d.phase = "refused" THEN Descriptor("fresh") ELSE d

\* connectHandler, given an exception.
ConnectError(fd, s) ==
    LET e == <<fd, "ex">>
    IN /\ Handling(e, "connectHandler", s)
       /\ aio' = aioDisable(Taken(aio, e), fd)
       /\ kernel' = [kernel EXCEPT ![fd] = ErrorRead(@)]
       /\ sock' = [sock EXCEPT ![s].state = "Unconnected"]
       /\ Notify(s, "conn")
       /\ WalkOn(e)

\* Mutant of ConnectCompletes: a failed connect disables the descriptor.
ConnectCompletesDisabling(fd, s) ==
    LET e == <<fd, "wr">>
        failed == kernel[fd].phase = "refused"
    IN /\ Handling(e, "connectHandler", s)
       /\ aio' = IF failed THEN aioDisable(Taken(aio, e), fd) ELSE Taken(aio, e)
       /\ kernel' = [kernel EXCEPT ![fd] = ErrorRead(@)]
       /\ sock' = [sock EXCEPT ![s].state = IF failed THEN "Unconnected"
                                                      ELSE "Connected"]
       /\ Notify(s, "conn")
       /\ WalkOn(e)

ConnectCompletes(fd, s) ==
    LET e == <<fd, "wr">>
    IN /\ Handling(e, "connectHandler", s)
       /\ aio' = Taken(aio, e)
       /\ kernel' = [kernel EXCEPT ![fd] = ErrorRead(@)]
       /\ sock' = [sock EXCEPT ![s].state = IF kernel[fd].phase = "refused"
                                            THEN "Unconnected" ELSE "Connected"]
       /\ Notify(s, "conn")
       /\ WalkOn(e)

\* dataHandler: readable, but unless there is a byte to be had the other end
\* is taken to have closed.
DataReadable(fd, s) ==
    LET e == <<fd, "rd">>
    IN /\ Handling(e, "dataHandler", s)
       /\ aio' = Taken(aio, e)
       /\ sock' = [sock EXCEPT ![s].state = IF HasData(fd) THEN @
                                            ELSE "OtherEndClosed"]
       /\ Notify(s, "read")
       /\ UNCHANGED kernel
       /\ WalkOn(e)

DataWritable(fd, s) ==
    LET e == <<fd, "wr">>
    IN /\ Handling(e, "dataHandler", s)
       /\ aio' = Taken(aio, e)
       /\ Notify(s, "write")
       /\ UNCHANGED <<sock, kernel>>
       /\ WalkOn(e)

\* Out-of-band data is read and thrown away, and nobody is told.
DataException(fd, s) ==
    LET e == <<fd, "ex">>
    IN /\ Handling(e, "dataHandler", s)
       /\ aio' = Taken(aio, e)
       /\ kernel' = [kernel EXCEPT ![fd].oob = FALSE]
       /\ UNCHANGED <<sock, waiting>>
       /\ WalkOn(e)

\* dataHandler, given the null pointer.
DataForNobody(fd, kind) ==
    LET e == <<fd, kind>>
    IN /\ Handling(e, "dataHandler", NoData)
       /\ aio' = Taken(aio, e)
       /\ UNCHANGED <<sock, kernel, waiting>>
       /\ WalkOn(e)

-----------------------------------------------------------------------------
(* The kernel and the peers.  A listening socket reports a connection or   *)
(* an error, never both.                                                   *)

Changes(fd, d) == /\ kernel' = [kernel EXCEPT ![fd] = d]
                  /\ UNCHANGED <<aio, sock, events, waiting, created>>

ConnectionArrives(fd) ==
    /\ kernel[fd].phase = "listening" /\ ~kernel[fd].data /\ ~kernel[fd].oob
    /\ Changes(fd, [kernel[fd] EXCEPT !.data = TRUE])

\* "error during listen()": not once it has brought a connection.
ListenBreaks(fd) ==
    /\ kernel[fd].phase = "listening" /\ ~kernel[fd].data /\ ~kernel[fd].oob
    /\ \A s \in Sockets : sock[s].fd = fd /\ sock[s].state # "Invalid" =>
          sock[s].acceptedSock = 0
    /\ Changes(fd, [kernel[fd] EXCEPT !.oob = TRUE])

PeerAccepts(fd) ==
    /\ kernel[fd].phase = "connecting"
    /\ Changes(fd, [kernel[fd] EXCEPT !.phase = "connected"])

\* Some systems report a failed connect as an exception, too.
PeerRefuses(fd) ==
    /\ kernel[fd].phase = "connecting"
    /\ \E exception \in BOOLEAN :
          Changes(fd, [kernel[fd] EXCEPT !.phase = "refused", !.oob = exception])

PeerSends(fd) ==
    /\ kernel[fd].phase = "connected" /\ ~kernel[fd].fin /\ ~kernel[fd].data
    /\ Changes(fd, [kernel[fd] EXCEPT !.data = TRUE])

PeerSendsUrgently(fd) ==
    /\ fd \in Urgent
    /\ kernel[fd].phase = "connected" /\ ~kernel[fd].fin /\ ~kernel[fd].oob
    /\ Changes(fd, [kernel[fd] EXCEPT !.oob = TRUE])

PeerReads(fd) ==
    /\ kernel[fd].full
    /\ Changes(fd, [kernel[fd] EXCEPT !.full = FALSE])

PeerCloses(fd) ==
    /\ kernel[fd].phase = "connected" /\ ~kernel[fd].fin
    /\ Changes(fd, [kernel[fd] EXCEPT !.fin = TRUE])

-----------------------------------------------------------------------------
Primitive ==
    \E s \in Sockets :
       \/ Create(s)
       \/ \E multi \in BOOLEAN : ListenOnPort(s, multi)
       \/ ConnectAtOnce(s) \/ ConnectInProgress(s) \/ ConnectFails(s)
       \/ \E server \in Sockets : AcceptFrom(s, server)
       \/ CloseConnection(s) \/ Destroy(s) \/ ConnectionStatus(s)
       \/ ReceiveDataAvailable(s) \/ SendDone(s)
       \/ ReceiveData(s) \/ SendData(s)

Handler ==
    \E fd \in Fds :
       \/ \E s \in Sockets :
             \/ AcceptError(fd, s) \/ AcceptAborted(fd, s) \/ AcceptFails(fd, s)
             \/ AcceptInPlace(fd, s) \/ AcceptForLater(fd, s)
             \/ ConnectError(fd, s) \/ ConnectCompletes(fd, s)
             \/ DataReadable(fd, s) \/ DataWritable(fd, s) \/ DataException(fd, s)
       \/ \E kind \in Kinds : DataForNobody(fd, kind)

Environment ==
    \E fd \in Fds :
       \/ ConnectionArrives(fd) \/ ListenBreaks(fd)
       \/ PeerAccepts(fd) \/ PeerRefuses(fd)
       \/ PeerSends(fd) \/ PeerSendsUrgently(fd) \/ PeerReads(fd) \/ PeerCloses(fd)

Next == Primitive \/ Poll \/ Handler \/ Environment

\* The VM goes on polling, and a poll goes on with its handlers.
Spec == Init /\ [][Next]_vars /\ WF_vars(Poll \/ Handler)

-----------------------------------------------------------------------------
(* Properties.                                                             *)

TypeOK ==
    /\ aio \in AioStates
    /\ sock \in [Sockets -> [live : BOOLEAN, fd : Fds \cup {None},
                             state : States, multiListen : BOOLEAN,
                             acceptedSock : Fds \cup {None}]]
    /\ kernel \in [Fds -> [phase : Phases, data : BOOLEAN, fin : BOOLEAN,
                           full : BOOLEAN, oob : BOOLEAN]]
    /\ events \subseteq Events
    /\ waiting \in [Sockets -> SUBSET Semaphores]
    /\ created \in 0 .. MaxCreated

\* "keep maxFd accurate (drops to zero if no more sockets)" (aio.c): whatever
\* handlers enable and disable, it is one above the highest enabled descriptor.
MaxFdIsAccurate == aio.maxFd = Trimmed(FdSetSize, aio.fdMask)

\* A poll never comes to an event whose handler is gone, although the handlers
\* it has called since select may have suspended and disabled descriptors.
HandlerIsSet ==
    \A e \in events : aio.handler[e[2]][e[1]] \notin {"undefinedHandler", "null"}

\* An armed event is one of an open descriptor (a closed one would make every
\* select fail), and its handler will be given the socket whose descriptor it
\* is; only dataHandler, which tests for it, may be given none.
EventsReachTheirSocket ==
    \A kind \in Kinds : \A fd \in aio.mask[kind] :
       LET data == aio.clientData[fd]
       IN /\ kernel[fd].phase \notin {"free", "foreign"}
          /\ IF data = NoData
             THEN aio.handler[kind][fd] = "dataHandler"
             ELSE sock[data].live /\ sock[data].fd = fd

\* No descriptor, open or kept for acceptFrom, is used by two sockets, and no
\* usable socket holds one that is closed, though the kernel gives the numbers
\* of closed descriptors out again.
Held(s) == {sock[s].fd} \cup (IF Pending(s) THEN {sock[s].acceptedSock} ELSE {})
DescriptorHasOneOwner ==
    \A s \in Sockets : sock[s].live /\ sock[s].state # "Invalid" =>
       \A fd \in Held(s) \ {None} :
          /\ kernel[fd].phase \notin {"free", "foreign"}
          /\ \A t \in Sockets \ {s} :
                sock[t].live /\ sock[t].state # "Invalid" => fd \notin Held(t)

\* No descriptor leaks: each open one is held by some socket.
EveryDescriptorIsOwned ==
    \A fd \in Fds : kernel[fd].phase \notin {"free", "foreign"} =>
       \E s \in Sockets : sock[s].live /\ fd \in Held(s)

\* Whoever waits on a socket's semaphore has left the handler armed that will
\* signal it, with the socket as its data.
Armed(s, kind, h) == LET fd == sock[s].fd
                     IN /\ fd \in aio.fdMask
                        /\ fd \in aio.mask[kind]
                        /\ aio.handler[kind][fd] = h
                        /\ aio.clientData[fd] = s
WaiterIsArmed ==
    \A s \in Sockets :
       /\ "read" \in waiting[s] => Armed(s, "rd", "dataHandler")
       /\ "write" \in waiting[s] => Armed(s, "wr", "dataHandler")
       /\ "conn" \in waiting[s] => \/ Armed(s, "rd", "acceptHandler")
                                   \/ Armed(s, "wr", "connectHandler")

\* A process that waits for data, for room to send or for its connection is
\* woken once there is some.  All sockets being alike, one is followed.
Due(s, sema) ==
    /\ sema \in waiting[s]
    /\ LET d == kernel[sock[s].fd]
       IN CASE sema = "read"  -> d.data \/ d.fin
            [] sema = "write" -> ~d.full
            [] sema = "conn"  -> d.phase \in {"connected", "refused"}
Followed == CHOOSE s \in Sockets : TRUE
WaitersAreTold ==
    \A sema \in Semaphores :
       Due(Followed, sema) ~> sema \notin waiting[Followed]

\* "connect() has completed: check errors, leaving the socket unhandled"
\* (sqUnixSocket.c:394): a socket that is not connected has no connection that
\* the kernel keeps up.
UnconnectedIsTrue ==
    \A s \in Sockets :
       sock[s].live /\ sock[s].state = "Unconnected" /\ sock[s].fd # None =>
          kernel[sock[s].fd].phase # "connected"

\* socketReadable answers "0 if read would block, or -1 if the socket is no
\* longer connected" (sqUnixSocket.c:295-296): a socket whose other end is said
\* to have closed has no connection that is open at that end.
OtherEndClosedIsTrue ==
    \A s \in Sockets :
       sock[s].live /\ sock[s].state = "OtherEndClosed" /\ sock[s].fd # None =>
          LET d == kernel[sock[s].fd] IN d.phase = "connected" => d.fin
=============================================================================
