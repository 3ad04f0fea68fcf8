-------------------------- MODULE ProcessScheduler --------------------------
(***************************************************************************)
(* The process primitives of the Stack and Cog interpreters                *)
(* (StackInterpreter, InterpreterPrimitives): one active process, one run  *)
(* queue per priority, semaphores and critical sections with their queues  *)
(* of waiters, and the event check that signals the VM's semaphores.       *)
(*                                                                         *)
(* The interpreter is one thread and each primitive is atomic to the       *)
(* image, so a primitive is one action.  Primitives are compositions of a  *)
(* few routines; each routine is an operator from scheduler states to      *)
(* scheduler states, so that an action is the composition the code makes.  *)
(* Linked lists are sequences here; module ProcessLinks has the links.     *)
(***************************************************************************)
EXTENDS Integers, Sequences, FiniteSets

CONSTANTS Processes, Semaphores, CriticalSections,
          NumPriorities,        \* run queues are indexed 1..NumPriorities
          priority,             \* each process's priority
          Idle,                 \* the process the image keeps always runnable
          Nobody, NoList,       \* nil, as a process and as a list
          EventSemaphore,       \* special-objects semaphore of each event
          NoSemaphore,          \* nil in that slot
          RaisedEvents,         \* the events that happen
          SuspendsEnterers,     \* image policy: are processes that wait for a
                                \* critical section ever suspended?
          MaxExcess             \* bound: excess signals of a semaphore

Priorities == 1 .. NumPriorities
Lists      == Priorities \cup Semaphores \cup CriticalSections

\* What checkForEventsMayContextSwitch: looks at, in its order.
EventOrder == <<"profile", "longRunning", "lowSpace", "interrupt", "timer",
                "finalization">>
Events == {"profile", "longRunning", "lowSpace", "interrupt", "timer",
           "finalization"}

ASSUME PriorityAssumption == /\ NumPriorities \in Nat \ {0}
                             /\ priority \in [Processes -> Priorities]
ASSUME ListAssumption == /\ Priorities \cap Semaphores = {}
                         /\ Priorities \cap CriticalSections = {}
                         /\ Semaphores \cap CriticalSections = {}
                         /\ NoList \notin Lists
ASSUME ProcessAssumption == Idle \in Processes /\ Nobody \notin Processes
ASSUME EventAssumption ==
          /\ EventSemaphore \in [Events -> Semaphores \cup {NoSemaphore}]
          /\ NoSemaphore \notin Semaphores
          /\ RaisedEvents \subseteq Events
ASSUME BoundAssumption == MaxExcess \in Nat

VARIABLES sched,             \* the scheduler's objects, see States
          preemptionYields,  \* does a preempted process go to the back?
          pending,           \* events raised and not yet seen by a check
          check              \* 0, or where in its list the event check is

vars == <<sched, preemptionYields, pending, check>>

States ==
    [active    : Processes \cup {Nobody},
     queue     : [Lists -> Seq(Processes)],
     myList    : [Processes -> Lists \cup {NoList}],
     context   : [Processes -> BOOLEAN],     \* is suspendedContext live?
     highest   : 0 .. NumPriorities,         \* highestRunnableProcessPriority
     excess    : [Semaphores -> Nat],
     owner     : [CriticalSections -> Processes \cup {Nobody}],
     answering : [Processes -> SUBSET CriticalSections],
                     \* the sections whose enter primitive has "false, you
                     \* did not own it before" waiting on the stack
     inside    : [CriticalSections -> SUBSET Processes]]
                     \* history: the processes that have had that answer

-----------------------------------------------------------------------------
(* Routines.                                                               *)

Elements(seq) == {seq[k] : k \in DOMAIN seq}
IsEmptyList(s, l) == s.queue[l] = <<>>

AddLastLink(s, p, l) == [s EXCEPT !.queue[l] = Append(@, p),
                                  !.myList[p] = l]

AddFirstLink(s, p, l) == [s EXCEPT !.queue[l] = <<p>> \o @,
                                   !.myList[p] = l]

\* The back pointer of the removed process is left as it was.
RemoveFirstLink(s, l) == [s EXCEPT !.queue[l] = Tail(@)]

RemoveProcess(s, p, l) ==
    LET seq == s.queue[l]
        at  == CHOOSE k \in DOMAIN seq : seq[k] = p
    IN [s EXCEPT !.queue[l] = SubSeq(seq, 1, at - 1)
                                 \o SubSeq(seq, at + 1, Len(seq))]

\* Mutant of PutToSleep: the cached bound is left alone.
PutToSleepUnbounded(s, p, yielding) ==
    IF yielding THEN AddLastLink(s, p, priority[p])
                ELSE AddFirstLink(s, p, priority[p])

\* putToSleep:yieldingIf: raises the cached bound if it is known.
PutToSleep(s, p, yielding) ==
    LET known == [s EXCEPT !.highest = IF @ # 0 /\ priority[p] > @
                                       THEN priority[p] ELSE @]
    IN IF yielding THEN AddLastLink(known, p, priority[p])
                   ELSE AddFirstLink(known, p, priority[p])

\* Mutant of TransferTo: the back pointer is not cleared.
TransferToKeepingList(s, p) ==
    LET left == [s EXCEPT !.context[s.active] = TRUE]
    IN [left EXCEPT !.active = p,
                    !.context[p] = FALSE,
                    !.answering[p] = {},
                    !.inside = [cs \in CriticalSections |->
                                  IF cs \in s.answering[p] THEN @[cs] \cup {p}
                                                           ELSE @[cs]]]

\* The process that was running is left with a context to continue from; the
\* new one leaves its list and its context, and its pending answer is read.
TransferTo(s, p) ==
    LET left == [s EXCEPT !.context[s.active] = TRUE]
    IN [left EXCEPT !.active = p,
                    !.myList[p] = NoList,
                    !.context[p] = FALSE,
                    !.answering[p] = {},
                    !.inside = [cs \in CriticalSections |->
                                  IF cs \in s.answering[p] THEN @[cs] \cup {p}
                                                           ELSE @[cs]]]

\* Mutant of SearchFrom: the search starts one below the bound.
SearchFromBelow(s) == IF s.highest = 0 THEN NumPriorities ELSE s.highest - 1

\* wakeHighestPriority searches from the cached bound, or from the top when
\* that is 0, and evicts the processes with no live context that it meets.
SearchFrom(s) == IF s.highest = 0 THEN NumPriorities ELSE s.highest

LivePositions(s, l) == {k \in DOMAIN s.queue[l] : s.context[s.queue[l][k]]}

Runnable(s) == {l \in 1 .. SearchFrom(s) : LivePositions(s, l) # {}}

IsTop(s, top) == top \in Runnable(s) /\ \A l \in Runnable(s) : l <= top

IsFirst(first, positions) ==
    first \in positions /\ \A k \in positions : first <= k

\* transferTo: wakeHighestPriority; with nothing to run the VM stops.
SwitchToHighest(s) ==
    IF Runnable(s) = {}
    THEN [s EXCEPT !.active = Nobody]
    ELSE LET top   == CHOOSE l \in Priorities : IsTop(s, l)
             first == CHOOSE k \in DOMAIN s.queue[top] :
                         IsFirst(k, LivePositions(s, top))
             woken == [s EXCEPT
                !.highest = top,
                !.queue = [l \in Lists |->
                   IF l = top
                   THEN SubSeq(@[l], first + 1, Len(@[l]))
                   ELSE IF l \in top + 1 .. SearchFrom(s) THEN <<>> ELSE @[l]]]
         IN TransferTo(woken, s.queue[top][first])

\* Mutant of Resume: nothing is ever preempted.
ResumeWithoutPreempting(s, p, yielding) == PutToSleep(s, p, TRUE)

\* Mutant of Resume: the preempted process goes to the wrong end.
ResumeOtherEnd(s, p, yielding) ==
    IF priority[p] <= priority[s.active]
    THEN PutToSleep(s, p, TRUE)
    ELSE TransferTo(PutToSleep(s, s.active, ~yielding), p)

\* resume:preemptedYieldingIf:
Resume(s, p, yielding) ==
    IF priority[p] <= priority[s.active]
    THEN PutToSleep(s, p, TRUE)
    ELSE TransferTo(PutToSleep(s, s.active, yielding), p)

\* Mutant of SynchronousSignal: the signal is counted with waiters there.
SynchronousSignalCounting(s, x, yielding) == [s EXCEPT !.excess[x] = @ + 1]

SynchronousSignal(s, x, yielding) ==
    IF IsEmptyList(s, x)
    THEN [s EXCEPT !.excess[x] = @ + 1]
    ELSE Resume(RemoveFirstLink(s, x), Head(s.queue[x]), yielding)

-----------------------------------------------------------------------------
(* Primitives, called by the active process.                               *)

Running == sched.active \in Processes

Becomes(s) == /\ sched' = s
              /\ \A x \in Semaphores : s.excess[x] <= MaxExcess

\* No primitive runs in the middle of an event check.
Primitive == Running /\ check = 0

Commit(s) == Becomes(s) /\ UNCHANGED <<preemptionYields, pending, check>>

Signal(x) == Primitive /\ Commit(SynchronousSignal(sched, x, preemptionYields))

\* Mutant of Wait: the excess signals are tested with >= 0.
WaitOffByOne(x) ==
    /\ Primitive
    /\ Commit([sched EXCEPT !.excess[x] = @ - 1])

\* Mutant of Wait: the waiter goes to the front.
WaitFirst(x) ==
    /\ Primitive
    /\ \/ /\ sched.excess[x] > 0
          /\ Commit([sched EXCEPT !.excess[x] = @ - 1])
       \/ /\ sched.excess[x] = 0
          /\ sched.active # Idle
          /\ Commit(SwitchToHighest(AddFirstLink(sched, sched.active, x)))

Wait(x) ==
    /\ Primitive
    /\ \/ /\ sched.excess[x] > 0
          /\ Commit([sched EXCEPT !.excess[x] = @ - 1])
       \/ /\ sched.excess[x] = 0
          /\ sched.active # Idle
          /\ Commit(SwitchToHighest(AddLastLink(sched, sched.active, x)))

Yield ==
    /\ Primitive
    /\ LET l == priority[sched.active]
       IN /\ ~IsEmptyList(sched, l)
          /\ Commit(SwitchToHighest(AddLastLink(sched, sched.active, l)))

\* The primitive checks only that p has a context; that p is on no list is
\* left to the image.
PrimitiveResume(p) ==
    /\ Primitive
    /\ sched.context[p]
    /\ \A l \in Lists : p \notin Elements(sched.queue[l])
    /\ Commit(Resume(sched, p, preemptionYields))

\* A process on no list, or with a stale back pointer, makes the primitive
\* fail with nothing changed.
PrimitiveSuspend(p) ==
    /\ Primitive
    /\ p # Idle
    /\ \/ /\ p = sched.active
          /\ Commit(SwitchToHighest(sched))
       \/ LET l == sched.myList[p]
          IN /\ p # sched.active
             /\ l # NoList
             /\ p \in Elements(sched.queue[l])
             /\ SuspendsEnterers \/ sched.answering[p] = {}
             /\ Commit([RemoveProcess(sched, p, l) EXCEPT !.myList[p] = NoList])

\* The critical section is taken, found to be the caller's already (nothing
\* changes), or waited for with the answer "false" on the caller's stack.
Take(s, cs) == [s EXCEPT !.owner[cs] = s.active,
                         !.inside[cs] = @ \cup {s.active}]

EnterCriticalSection(cs) ==
    LET p == sched.active
    IN /\ Primitive
       /\ \/ sched.owner[cs] = Nobody /\ Commit(Take(sched, cs))
          \/ sched.owner[cs] = p /\ Commit(sched)
          \/ /\ sched.owner[cs] \notin {Nobody, p}
             /\ p # Idle
             /\ Commit(SwitchToHighest(AddLastLink(
                          [sched EXCEPT !.answering[p] = @ \cup {cs}], p, cs)))

\* Mutant of TestAndSetOwnership: the owner is not looked at.
TestAndSetAnyway(cs) == Primitive /\ Commit(Take(sched, cs))

TestAndSetOwnership(cs) ==
    /\ Primitive
    /\ IF sched.owner[cs] = Nobody THEN Commit(Take(sched, cs))
                                   ELSE Commit(sched)

\* Mutant of ExitCriticalSection: the section is released, not handed over.
ExitReleasing(cs) ==
    LET out == [sched EXCEPT !.inside[cs] = @ \ {sched.active},
                             !.owner[cs] = Nobody]
    IN /\ Primitive
       /\ sched.active \in sched.inside[cs]
       /\ IF IsEmptyList(out, cs)
          THEN Commit(out)
          ELSE Commit(Resume(RemoveFirstLink(out, cs), Head(out.queue[cs]),
                             preemptionYields))

\* The owner is not checked: the image exits only what it has been told it
\* entered.
ExitCriticalSection(cs) ==
    LET out == [sched EXCEPT !.inside[cs] = @ \ {sched.active}]
    IN /\ Primitive
       /\ sched.active \in sched.inside[cs]
       /\ IF IsEmptyList(out, cs)
          THEN Commit([out EXCEPT !.owner[cs] = Nobody])
          ELSE LET p == Head(out.queue[cs])
               IN Commit(Resume([RemoveFirstLink(out, cs) EXCEPT !.owner[cs] = p],
                                p, preemptionYields))

-----------------------------------------------------------------------------
(* Events.                                                                 *)

\* An interrupt key, a timer that expires, a collection that leaves weak
\* references to finalize, a profile tick...  They come at any time, in the
\* middle of a check too.
Raise(e) ==
    /\ Running
    /\ pending' = pending \cup {e}
    /\ UNCHANGED <<sched, preemptionYields, check>>

\* checkForEventsMayContextSwitch: true looks at the events in turn, each with
\* whichever process the signals before it made active, and then signals what
\* signalExternalSemaphores finds requested.  check is the event it is at.
External == Len(EventOrder) + 1

EnterEventCheck == /\ Running
                   /\ check = 0
                   /\ check' = 1
                   /\ UNCHANGED <<sched, preemptionYields, pending>>

\* The flag is reset whether or not there is a semaphore to signal, except that
\* a long-running primitive with no semaphore stays undelivered.
CheckEvent ==
    LET e == EventOrder[check]
        x == EventSemaphore[e]
    IN /\ Running
       /\ check \in DOMAIN EventOrder
       /\ check' = check + 1
       /\ \/ /\ e \in pending /\ x # NoSemaphore
             /\ Becomes(SynchronousSignal(sched, x, preemptionYields))
             /\ pending' = pending \ {e}
          \/ /\ e \in pending /\ x = NoSemaphore
             /\ pending' = IF e = "longRunning" THEN pending ELSE pending \ {e}
             /\ UNCHANGED sched
          \/ /\ e \notin pending
             /\ UNCHANGED <<sched, pending>>
       /\ UNCHANGED preemptionYields

SignalExternal(x) ==
    /\ Running
    /\ check = External
    /\ Becomes(SynchronousSignal(sched, x, preemptionYields))
    /\ UNCHANGED <<preemptionYields, pending, check>>

LeaveEventCheck == /\ Running
                   /\ check = External
                   /\ check' = 0
                   /\ UNCHANGED <<sched, preemptionYields, pending>>

-----------------------------------------------------------------------------
(* What the image does to the scheduler's objects behind the VM.           *)

\* Terminating a process that is on a run queue leaves it there without a
\* context; wakeHighestPriority evicts it later.  (Not at Idle's priority: Idle
\* could then yield itself off its queue, see DiscardedAreDead.)
Terminate(p) ==
    /\ Primitive
    /\ p \notin {Idle, sched.active}
    /\ sched.myList[p] \in Priorities \ {priority[Idle]}
    /\ sched.answering[p] = {}
    /\ \A cs \in CriticalSections :
          sched.owner[cs] # p /\ p \notin sched.inside[cs]
    /\ sched' = [sched EXCEPT !.context[p] = FALSE]
    /\ UNCHANGED <<preemptionYields, pending, check>>

\* vmParameterAt: 48 put: changes the preemption flag at any time.
SetCogVMFlags ==
    /\ Primitive
    /\ preemptionYields' = ~preemptionYields
    /\ UNCHANGED <<sched, pending, check>>

-----------------------------------------------------------------------------
\* Idle runs; every other process is new, suspended and has a context.
Init ==
    /\ sched = [active    |-> Idle,
                queue     |-> [l \in Lists |-> <<>>],
                myList    |-> [p \in Processes |-> NoList],
                context   |-> [p \in Processes |-> p # Idle],
                highest   |-> 0,
                excess    |-> [x \in Semaphores |-> 0],
                owner     |-> [cs \in CriticalSections |-> Nobody],
                answering |-> [p \in Processes |-> {}],
                inside    |-> [cs \in CriticalSections |-> {}]]
    /\ preemptionYields \in BOOLEAN
    /\ pending = {}
    /\ check = 0

Next ==
    \/ \E x \in Semaphores : Signal(x) \/ Wait(x)
    \/ Yield
    \/ \E p \in Processes :
          PrimitiveResume(p) \/ PrimitiveSuspend(p) \/ Terminate(p)
    \/ \E cs \in CriticalSections : \/ EnterCriticalSection(cs)
                                    \/ TestAndSetOwnership(cs)
                                    \/ ExitCriticalSection(cs)
    \/ \E e \in RaisedEvents : Raise(e)
    \/ EnterEventCheck
    \/ CheckEvent
    \/ \E x \in Semaphores : SignalExternal(x)
    \/ LeaveEventCheck
    \/ SetCogVMFlags

Spec == Init /\ [][Next]_vars

-----------------------------------------------------------------------------
(* Properties.                                                             *)

TypeOK == /\ sched \in States
          /\ preemptionYields \in BOOLEAN
          /\ pending \subseteq Events
          /\ check \in 0 .. External

\* The search bound is never below a queued process: either it is unknown (0)
\* or every run queue above it is empty.  Yielding and resuming queue
\* processes through different routines and only putToSleep:yieldingIf:
\* maintains the bound.
CacheBoundsQueues ==
    sched.highest # 0 =>
       \A l \in Priorities : l > sched.highest => sched.queue[l] = <<>>

\* Nothing of a higher priority than the active process is ever left on a run
\* queue, through chains of preemptions in one event check, evictions and
\* wake-ups from the cached bound.
ActiveIsHighest ==
    Running => \A l \in Priorities :
                  l > priority[sched.active] => sched.queue[l] = <<>>

\* A process is in one place: on no list when it runs, at most once on the list
\* its back pointer names otherwise; and while the back pointer of one that
\* has a context names a semaphore or critical section, it is queued there, so
\* that it will be woken and can be suspended.
ProcessInOnePlace ==
    /\ Running => sched.myList[sched.active] = NoList
    /\ \A l \in Lists : \A k \in DOMAIN sched.queue[l] :
          /\ sched.myList[sched.queue[l][k]] = l
          /\ \A j \in DOMAIN sched.queue[l] :
                sched.queue[l][j] = sched.queue[l][k] => j = k
    /\ \A p \in Processes : \A l \in Semaphores \cup CriticalSections :
          sched.context[p] /\ sched.myList[p] = l => p \in Elements(sched.queue[l])

\* "Only answer processes with a runnable suspendedContext.  Discard those that
\* aren't" (wakeHighestPriority.st:18-19): a process that has a context and was
\* put on a run queue is still there.
DiscardedAreDead ==
    \A p \in Processes : \A l \in Priorities :
       sched.context[p] /\ sched.myList[p] = l => p \in Elements(sched.queue[l])

\* No wake-up is missed: a semaphore with excess signals has no waiters.
NoWakeupMissed ==
    \A x \in Semaphores : sched.excess[x] > 0 => IsEmptyList(sched, x)

\* A critical section with waiters has an owner that will hand it over, and
\* never one of its own waiters.
ContendedIsOwned ==
    \A cs \in CriticalSections :
       ~IsEmptyList(sched, cs) =>
          /\ sched.owner[cs] # Nobody
          /\ sched.owner[cs] \notin Elements(sched.queue[cs])

\* wakeHighestPriority's fatal error never happens while the image keeps its
\* idle process runnable.
SomethingToRun == Running

\* "Answer if the receiver is owned by the current process": a process that
\* has been told it took a critical section owns it, until it exits
\* (primitiveEnterCriticalSection.st:3-7, 25).
InsideIsOwner ==
    \A cs \in CriticalSections : sched.inside[cs] \subseteq {sched.owner[cs]}

\* Preemption keeps turns as preemptionYields says: the preempted process stays
\* ahead of every process that was queued at its priority, or goes behind all
\* of them.
Preempted(p) == /\ sched.active = p
                /\ sched'.myList[p] = priority[p]
                /\ sched'.active \in Processes
                /\ priority[sched'.active] > priority[p]
Ahead(seq, p, q) == \A j, k \in DOMAIN seq : seq[j] = p /\ seq[k] = q => j < k
PreemptedKeepsTurn ==
    [][\A p \in Processes : Preempted(p) =>
          \A q \in Elements(sched.queue[priority[p]]) :
             LET seq == sched'.queue[priority[p]]
             IN IF preemptionYields THEN Ahead(seq, q, p) ELSE Ahead(seq, p, q)]_vars

\* Semaphores are fair: a waiter on a semaphore that is signalled again and
\* again does not wait for ever.
Waiting(p, x) == p \in Elements(sched.queue[x])
SignalledWaiterWakes ==
    \A x \in Semaphores : \A p \in Processes :
       []<><<Signal(x)>>_vars => (Waiting(p, x) ~> ~Waiting(p, x))
=============================================================================
