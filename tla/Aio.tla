-------------------------------- MODULE Aio --------------------------------
(***************************************************************************)
(* Asynchronous i/o on Unix (platforms/unix/vm/aio.c): which events of     *)
(* which descriptors have a handler, and what the handler is given.        *)
(*                                                                         *)
(* Everything here runs on the VM's thread, and a handler may call any of  *)
(* these routines while aioPoll is calling handlers; so each routine is an *)
(* operator from states to states and the clients' actions compose them.   *)
(***************************************************************************)
EXTENDS Integers

CONSTANTS FdSetSize,   \* descriptors are 0..FdSetSize-1
          Clients,     \* what clientData points at
          NoData       \* the null pointer

ASSUME FdAssumption     == FdSetSize \in Nat
ASSUME ClientAssumption == NoData \notin Clients

Fds      == 0 .. FdSetSize - 1
Kinds    == {"rd", "wr", "ex"}
Handlers == {"acceptHandler", "connectHandler", "dataHandler", "closeHandler",
             "undefinedHandler", "null"}

AioStates == [fdMask     : SUBSET Fds,
              mask       : [Kinds -> SUBSET Fds],  \* rdMask, wrMask, exMask
              handler    : [Kinds -> [Fds -> Handlers]],
              clientData : [Fds -> Clients \cup {NoData}],
              maxFd      : 0 .. FdSetSize]

aioInit == [fdMask     |-> {},
            mask       |-> [k \in Kinds |-> {}],
            handler    |-> [k \in Kinds |-> [fd \in Fds |-> "null"]],
            clientData |-> [fd \in Fds |-> NoData],
            maxFd      |-> 0]

\* Masks and handlers of the given kinds, changed for one descriptor.
Arm(mask, kinds, fd)    == [k \in Kinds |-> IF k \in kinds THEN mask[k] \cup {fd}
                                                           ELSE mask[k]]
Disarm(mask, kinds, fd) == [k \in Kinds |-> IF k \in kinds THEN mask[k] \ {fd}
                                                           ELSE mask[k]]
Install(handler, kinds, fd, h) ==
    [k \in Kinds |-> IF k \in kinds THEN [handler[k] EXCEPT ![fd] = h]
                                    ELSE handler[k]]

\* Mutant of aioEnable: maxFd is the descriptor, not one above it.
aioEnableOffByOne(a, fd, data) ==
    IF fd \in a.fdMask THEN a
    ELSE [fdMask     |-> a.fdMask \cup {fd},
          mask       |-> Disarm(a.mask, Kinds, fd),
          handler    |-> Install(a.handler, Kinds, fd, "undefinedHandler"),
          clientData |-> [a.clientData EXCEPT ![fd] = data],
          maxFd      |-> IF fd >= a.maxFd THEN fd ELSE a.maxFd]

\* A descriptor that is enabled already is left as it is.
aioEnable(a, fd, data) ==
    IF fd \in a.fdMask THEN a
    ELSE [fdMask     |-> a.fdMask \cup {fd},
          mask       |-> Disarm(a.mask, Kinds, fd),
          handler    |-> Install(a.handler, Kinds, fd, "undefinedHandler"),
          clientData |-> [a.clientData EXCEPT ![fd] = data],
          maxFd      |-> IF fd >= a.maxFd THEN fd + 1 ELSE a.maxFd]

\* Mutant of aioHandle: a descriptor that is none is not ignored.
aioHandleAny(a, fd, h, kinds) ==
    [a EXCEPT !.mask = Arm(@, kinds, fd),
              !.handler = Install(@, kinds, fd, h)]

\* Nothing requires the descriptor to be enabled, only that it is one.
aioHandle(a, fd, h, kinds) ==
    IF fd \notin Fds THEN a
    ELSE [a EXCEPT !.mask = Arm(@, kinds, fd),
                   !.handler = Install(@, kinds, fd, h)]

aioSuspend(a, fd, kinds) ==
    [a EXCEPT !.mask = Disarm(@, kinds, fd),
              !.handler = Install(@, kinds, fd, "undefinedHandler")]

\* The highest m <= max such that m - 1 is in the mask, or zero.
Trimmed(max, mask) ==
    CHOOSE m \in 0 .. max :
       /\ m = 0 \/ m - 1 \in mask
       /\ \A j \in m + 1 .. max : j - 1 \notin mask

\* Mutant of aioDisable: maxFd comes down by one at most.
aioDisableOnce(a, fd) ==
    LET left == a.fdMask \ {fd}
    IN [aioSuspend(a, fd, Kinds) EXCEPT
          !.fdMask = left,
          !.handler = Install(@, Kinds, fd, "null"),
          !.clientData[fd] = NoData,
          !.maxFd = IF @ > 0 /\ @ - 1 \notin left THEN @ - 1 ELSE @]

aioDisable(a, fd) ==
    LET left == a.fdMask \ {fd}
    IN [aioSuspend(a, fd, Kinds) EXCEPT
          !.fdMask = left,
          !.handler = Install(@, Kinds, fd, "null"),
          !.clientData[fd] = NoData,
          !.maxFd = Trimmed(@, left)]

-----------------------------------------------------------------------------
(* aioPoll: the events select reports are walked in order of descriptor,   *)
(* and for one descriptor in the order of _DO_FLAG_TYPE.  An event is      *)
(* <<descriptor, kind>>.                                                   *)

Events == Fds \X Kinds

\* What select is asked about: bits at or above maxFd are not looked at.
Asked(a) == {e \in Events : e[1] < a.maxFd /\ e[1] \in a.mask[e[2]]}

Rank == [rd |-> 1, wr |-> 2, ex |-> 3]
Before(e, f) == \/ e[1] < f[1]
                \/ e[1] = f[1] /\ Rank[e[2]] < Rank[f[2]]

IsNext(e, events) == /\ e \in events
                     /\ \A f \in events \ {e} : Before(e, f)

\* An event is disarmed before its handler is called.
Taken(a, e) == aioSuspend(a, e[1], {e[2]})

\* The rest of the walk after the handler of e: the descriptor's own events go
\* on, the others as far as maxFd now reaches.
StillToCall(a, e, events) ==
    {f \in events \ {e} : f[1] = e[1] \/ f[1] < a.maxFd}
=============================================================================
