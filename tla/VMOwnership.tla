---------------------------- MODULE VMOwnership ----------------------------
(***************************************************************************)
(* Which thread runs the multi-threaded VM (CogThreadManager,              *)
(* CoInterpreterMT).  A thread gives the VM up around a call into foreign  *)
(* code, and takes it back when the call returns or calls back.  Meanwhile *)
(* a thread of the pool may run the image: it finds the process that was   *)
(* active and marks it as away with its thread (AWOL).  The heartbeat      *)
(* finds a thread for a VM nobody owns.                                    *)
(*                                                                         *)
(* vmOwner is tested under a spin lock but written without it by whoever   *)
(* owns the VM.  The interpreter's own state, vm, is only touched by the   *)
(* owner, so what an owner does to it between two accesses to the shared   *)
(* variables is one step.  Run queues are sets: module ProcessScheduler    *)
(* has their order.                                                        *)
(***************************************************************************)
EXTENDS Integers, Sequences, FiniteSets

CONSTANTS NumThreads,    \* threads are 1..NumThreads, the first is the GUI's
          Processes,
          priority,      \* each process's priority
          Idle,          \* the process that relinquishes the processor
          Nobody,        \* nil, as a process
          Images,        \* what the images checked may do (Habits)
          MaxCalls,      \* bound: calls and callbacks on all C stacks together
          MaxSignals     \* bound: unused signals of an OS semaphore

Threads   == 1 .. NumThreads
Heartbeat == 0
Actors    == Threads \cup {Heartbeat}
NoThread  == 0
Unowned   == 0
Anonymous == -1

\* relinquishes: the idle process gives the processor up.  calls back: foreign
\* code does.  keeps: there are calls that do not give the VM up.
Habits == {"relinquishes", "calls back", "keeps"}

ASSUME ThreadAssumption   == NumThreads \in Nat \ {0}
ASSUME PriorityAssumption == priority \in [Processes -> Nat \ {0}]
ASSUME ProcessAssumption  == Idle \in Processes /\ Nobody \notin Processes
ASSUME ImageAssumption    == Images \subseteq SUBSET Habits
ASSUME BoundAssumption    == MaxCalls \in Nat /\ MaxSignals \in Nat \ {0}

VARIABLES image,          \* what this image does
          vmOwner, vmOwnerLock,
          pc,             \* where each thread and the heartbeat are
          target,         \* the thread each of them is about to signal
          osSemaphore,    \* the count of each thread's semaphore
          state,          \* of each thread, read by those who look for one
          maxWaitingPriority, checkThreadActivation,
          relinquishing,
          relinquished,   \* relinquishing, as the heartbeat read it
          calls,          \* the calls and callbacks on each thread's C stack
          candidate,      \* what cedeToHigherPriorityThreads has found
          vm              \* the interpreter's own state

ownership == <<vmOwner, vmOwnerLock>>
waiting   == <<maxWaitingPriority, checkThreadActivation>>
vars == <<image, ownership, pc, target, osSemaphore, state, waiting, relinquishing,
          relinquished, calls, candidate, vm>>

Positions ==
    {"unborn", "starting", "loop", "lock", "look", "relinquished?", "execute",
     "signal", "test", "pooled", "running", "cede", "ceding",
     "outside", "enter", "entering", "want", "retry", "retrying",
     "spin", "bump", "dozing", "back", "aborted", "pick"}

CTMStates == {"nil", "Initializing", "Unavailable", "AssignableOrInVM",
              "WantingOwnership"}

\* process: whose it is (history).  relinquish, unaffined: the flags that
\* disownVM: answered.  owned: the callback found the VM still owned.
Calls == [kind       : {"callout", "callback", "unthreaded"},
          process    : Processes \cup {Nobody},
          relinquish : BOOLEAN,
          unaffined  : BOOLEAN,
          owned      : BOOLEAN]

VMStates ==
    [activeProcess     : Processes \cup {Nobody},
     myList            : [Processes -> {"nil", "ready", "blocked", "external"}],
     ownerIndex        : [Processes -> Threads \cup {NoThread}],
     activeAffined     : BOOLEAN,
     disowningVMThread : Threads \cup {NoThread},
     awolProcesses     : [Threads -> Seq(Processes)],
     threadPriority    : [Threads -> Nat]]

-----------------------------------------------------------------------------
(* Routines on the interpreter's state.                                    *)

\* Mutant of PreemptDisowningThread: it is affined to the thread that preempts.
PreemptAffiningToOwner(v) ==
    LET t == v.disowningVMThread
        p == v.activeProcess
    IN [v EXCEPT !.myList[p] = "external",
                 !.awolProcesses[t] = Append(@, p),
                 !.disowningVMThread = NoThread,
                 !.threadPriority[t] = priority[p],
                 !.ownerIndex[p] = IF @ = NoThread THEN vmOwner ELSE @]

\* preemptDisowningThread: the active process goes away with the thread that
\* disowned the VM, and is affined to it.
PreemptDisowningThread(v) ==
    LET t == v.disowningVMThread
        p == v.activeProcess
    IN [v EXCEPT !.myList[p] = "external",
                 !.awolProcesses[t] = Append(@, p),
                 !.disowningVMThread = NoThread,
                 !.threadPriority[t] = priority[p],
                 !.ownerIndex[p] = IF @ = NoThread THEN t ELSE @]

Preempted(v) == IF v.disowningVMThread = NoThread THEN v
                                                  ELSE PreemptDisowningThread(v)

Ready(v) == {p \in Processes : v.myList[p] = "ready"}

IsHighest(v, p) == p \in Ready(v) /\ \A q \in Ready(v) : priority[q] <= priority[p]

SetActive(v, p) == [v EXCEPT !.activeProcess = p, !.myList[p] = "nil"]

MakeReady(v, p) == [v EXCEPT !.myList[p] = "ready"]

\* Thread infos are searched in order: the first of the highest priority.
IsFirstHighest(v, among, t) ==
    /\ t \in among
    /\ \A u \in among : /\ v.threadPriority[u] <= v.threadPriority[t]
                        /\ v.threadPriority[u] = v.threadPriority[t] => t <= u

InState(s) == {t \in Threads : state[t] = s /\ t # vmOwner}

\* willingVMThread prefers the threads that want to own the VM.
IsWilling(t) ==
    IF InState("WantingOwnership") # {}
    THEN IsFirstHighest(vm, InState("WantingOwnership"), t)
    ELSE IsFirstHighest(vm, InState("AssignableOrInVM"), t)

-----------------------------------------------------------------------------
(* The lock and the semaphores.                                            *)

Goto(a, position) == pc' = [pc EXCEPT ![a] = position]

\* tryLockVMOwner is an atomic swap: it does not wait.
TryLock(a, at, locked, failed) ==
    /\ pc[a] = at
    /\ Goto(a, IF vmOwnerLock THEN failed ELSE locked)
    /\ vmOwnerLock' = TRUE
    /\ relinquished' = (relinquished /\ pc'[Heartbeat] # "loop")
    /\ UNCHANGED <<vmOwner, target, osSemaphore, state, waiting, relinquishing,
                   calls, candidate, vm>>

\* Mutant of LookAt: an anonymous owner does not count.
LookAtNamed(a, at, index, got, failed) ==
    /\ pc[a] = at
    /\ IF vmOwner \in {Unowned, Anonymous} \/ (index > 0 /\ vmOwner = index)
       THEN vmOwner' = index /\ Goto(a, got)
       ELSE vmOwner' = vmOwner /\ Goto(a, failed)
    /\ vmOwnerLock' = FALSE
    /\ relinquished' = (relinquished /\ pc'[Heartbeat] # "loop")
    /\ UNCHANGED <<target, osSemaphore, state, waiting, relinquishing,
                   calls, candidate, vm>>

\* The rest of tryLockVMToIndex:, which also succeeds if the VM is already
\* the asking thread's.
LookAt(a, at, index, got, failed) ==
    /\ pc[a] = at
    /\ IF vmOwner = Unowned \/ (index > 0 /\ vmOwner = index)
       THEN vmOwner' = index /\ Goto(a, got)
       ELSE vmOwner' = vmOwner /\ Goto(a, failed)
    /\ vmOwnerLock' = FALSE
    /\ relinquished' = (relinquished /\ pc'[Heartbeat] # "loop")
    /\ UNCHANGED <<target, osSemaphore, state, waiting, relinquishing,
                   calls, candidate, vm>>

\* Mutant of WaitOn: the count may be zero.
WaitOnZero(t, at, next) ==
    /\ pc[t] = at
    /\ osSemaphore' = [osSemaphore EXCEPT ![t] = @ - 1]
    /\ Goto(t, next)
    /\ UNCHANGED <<ownership, target, state, waiting, relinquishing, relinquished,
                   calls, candidate, vm>>

\* ioWaitOnOSSemaphore.
WaitOn(t, at, next) ==
    /\ pc[t] = at
    /\ osSemaphore[t] > 0
    /\ osSemaphore' = [osSemaphore EXCEPT ![t] = @ - 1]
    /\ Goto(t, next)
    /\ UNCHANGED <<ownership, target, state, waiting, relinquishing, relinquished,
                   calls, candidate, vm>>

\* Mutant of Signal: only threads that want the VM are signalled.
SignalWanting(a) ==
    /\ pc[a] = "signal"
    /\ LET u     == target[a]
           after == IF a = Heartbeat THEN "loop" ELSE "test"
       IN IF state[u] = "nil"
          THEN /\ state' = [state EXCEPT ![u] = "Initializing"]
               /\ pc' = [pc EXCEPT ![a] = after, ![u] = "starting"]
               /\ UNCHANGED osSemaphore
          ELSE /\ osSemaphore' = [osSemaphore EXCEPT
                     ![u] = IF @ < MaxSignals /\ state[u] = "WantingOwnership"
                            THEN @ + 1 ELSE @]
               /\ Goto(a, after)
               /\ UNCHANGED state
    /\ target' = [target EXCEPT ![a] = NoThread]
    /\ UNCHANGED <<ownership, waiting, relinquishing, relinquished, calls,
                   candidate, vm>>

\* The end of wakeVMThreadFor: and of ensureRunningVMThread:, after the owner
\* was set: a thread that does not exist is started, another is signalled.
Signal(a) ==
    /\ pc[a] = "signal"
    /\ LET u     == target[a]
           after == IF a = Heartbeat THEN "loop" ELSE "test"
       IN IF state[u] = "nil"
          THEN /\ state' = [state EXCEPT ![u] = "Initializing"]
               /\ pc' = [pc EXCEPT ![a] = after, ![u] = "starting"]
               /\ UNCHANGED osSemaphore
          ELSE /\ osSemaphore' = [osSemaphore EXCEPT
                     ![u] = IF @ < MaxSignals THEN @ + 1 ELSE @]
               /\ Goto(a, after)
               /\ UNCHANGED state
    /\ target' = [target EXCEPT ![a] = NoThread]
    /\ UNCHANGED <<ownership, waiting, relinquishing, relinquished, calls,
                   candidate, vm>>

\* The owner gives the VM to another thread, which it will signal.
GiveTo(a, u) ==
    /\ vmOwner' = u
    /\ target' = [target EXCEPT ![a] = u]
    /\ Goto(a, "signal")

\* releaseVM.
Release(a, next) ==
    /\ vmOwner' = Unowned
    /\ Goto(a, next)
    /\ UNCHANGED target

Keep(a, next) ==
    /\ Goto(a, next)
    /\ UNCHANGED <<vmOwner, target>>

-----------------------------------------------------------------------------
(* threadSchedulingLoop:                                                   *)

StartVMThread(t) ==
    /\ pc[t] = "starting"
    /\ state' = [state EXCEPT ![t] = "AssignableOrInVM"]
    /\ Goto(t, "loop")
    /\ UNCHANGED <<ownership, target, osSemaphore, waiting, relinquishing,
                   relinquished, calls, candidate, vm>>

Schedule(t) ==
    /\ pc[t] = "loop"
    /\ Goto(t, IF vmOwner = t THEN "execute" ELSE "lock")
    /\ UNCHANGED <<ownership, target, osSemaphore, state, waiting, relinquishing,
                   relinquished, calls, candidate, vm>>

\* While the processor is relinquished only calls that return take the VM.
HeedRelinquishing(t) ==
    /\ pc[t] = "relinquished?"
    /\ IF relinquishing THEN Release(t, "test") ELSE Keep(t, "execute")
    /\ UNCHANGED <<vmOwnerLock, osSemaphore, state, waiting, relinquishing,
                   relinquished, calls, candidate, vm>>

\* tryToExecuteSmalltalk: after preempting a thread that disowned the VM runs
\* the highest ready process, or nothing.
ToExecute(v) ==
    IF v.disowningVMThread = NoThread THEN {v}
    ELSE LET away == PreemptDisowningThread(v)
         IN IF Ready(away) = {} THEN {[away EXCEPT !.activeProcess = Nobody]}
            ELSE {SetActive(away, p) : p \in {q \in Processes : IsHighest(away, q)}}

\* Mutant of TryToExecuteSmalltalk: a process runs on any thread.
TryToExecuteAnywhere(t) ==
    /\ pc[t] = "execute"
    /\ vm' \in ToExecute(vm)
    /\ IF vm'.activeProcess = Nobody THEN Release(t, "test") ELSE Keep(t, "running")
    /\ UNCHANGED <<vmOwnerLock, osSemaphore, state, waiting, relinquishing,
                   relinquished, calls, candidate>>

TryToExecuteSmalltalk(t) ==
    /\ pc[t] = "execute"
    /\ vm' \in ToExecute(vm)
    /\ LET p == vm'.activeProcess
       IN CASE p = Nobody -> Release(t, "test")
            [] p # Nobody /\ vm'.ownerIndex[p] \in {NoThread, vmOwner} ->
                  Keep(t, "running")
            [] OTHER -> GiveTo(t, vm'.ownerIndex[p])
    /\ UNCHANGED <<vmOwnerLock, osSemaphore, state, waiting, relinquishing,
                   relinquished, calls, candidate>>

\* testVMOwnerIs: spins for the lock, and waitForWork: follows.
TestVMOwner(t) ==
    /\ pc[t] = "test"
    /\ ~vmOwnerLock
    /\ Goto(t, IF vmOwner = t THEN "loop" ELSE "pooled")
    /\ UNCHANGED <<ownership, target, osSemaphore, state, waiting, relinquishing,
                   relinquished, calls, candidate, vm>>

SchedulingLoop(t) ==
    \/ StartVMThread(t)
    \/ Schedule(t)
    \/ TryLock(t, "lock", "look", "test")
    \/ LookAt(t, "look", t, "relinquished?", "test")
    \/ HeedRelinquishing(t)
    \/ TryToExecuteSmalltalk(t)
    \/ TestVMOwner(t)
    \/ WaitOn(t, "pooled", "loop")

-----------------------------------------------------------------------------
(* checkVMOwnershipFromHeartbeat and ensureRunningVMThread:                *)

Beat ==
    /\ pc[Heartbeat] = "loop"
    /\ vmOwner = Unowned
    /\ relinquished' = relinquishing
    /\ Goto(Heartbeat, "lock")
    /\ UNCHANGED <<ownership, target, osSemaphore, state, waiting, relinquishing,
                   calls, candidate, vm>>

\* Mutant of EnsureRunningVMThread: nobody takes a relinquished VM.
EnsureUnlessRelinquished ==
    /\ pc[Heartbeat] = "pick"
    /\ \/ \E t \in Threads : /\ IsWilling(t)
                             /\ IF relinquished
                                THEN Release(Heartbeat, "loop")
                                ELSE GiveTo(Heartbeat, t)
       \/ /\ ~\E t \in Threads : IsWilling(t)
          /\ LET unused == {t \in Threads : state[t] = "nil"}
             IN IF relinquished \/ unused = {}
                THEN Release(Heartbeat, "loop")
                ELSE \E t \in unused : /\ \A u \in unused : t <= u
                                       /\ GiveTo(Heartbeat, t)
    /\ relinquished' = FALSE
    /\ UNCHANGED <<vmOwnerLock, osSemaphore, state, waiting, relinquishing, calls,
                   candidate, vm>>

EnsureRunningVMThread ==
    /\ pc[Heartbeat] = "pick"
    /\ \/ \E t \in Threads : /\ IsWilling(t)
                             /\ IF relinquished /\ state[t] # "WantingOwnership"
                                THEN Release(Heartbeat, "loop")
                                ELSE GiveTo(Heartbeat, t)
       \/ /\ ~\E t \in Threads : IsWilling(t)
          /\ LET unused == {t \in Threads : state[t] = "nil"}
             IN IF relinquished \/ unused = {}
                THEN Release(Heartbeat, "loop")
                ELSE \E t \in unused : /\ \A u \in unused : t <= u
                                       /\ GiveTo(Heartbeat, t)
    /\ relinquished' = FALSE
    /\ UNCHANGED <<vmOwnerLock, osSemaphore, state, waiting, relinquishing, calls,
                   candidate, vm>>

Beating ==
    \/ Beat
    \/ TryLock(Heartbeat, "lock", "look", "loop")
    \/ LookAt(Heartbeat, "look", Anonymous, "pick", "loop")
    \/ EnsureRunningVMThread
    \/ Signal(Heartbeat)

-----------------------------------------------------------------------------
(* Leaving the VM and coming back.                                         *)

Outstanding   == UNION {{t} \X DOMAIN calls[t] : t \in Threads}
MayCall       == Cardinality(Outstanding) < MaxCalls
Push(t, call) == calls' = [calls EXCEPT ![t] = Append(@, call)]
Top(t)        == calls[t][Len(calls[t])]
Pop(t)        == [calls EXCEPT ![t] = SubSeq(@, 1, Len(@) - 1)]
HasTop(t, kind) == calls[t] # <<>> /\ Top(t).kind = kind

Call(kind, p, relinquish, owned) ==
    [kind |-> kind, process |-> p, relinquish |-> relinquish,
     unaffined |-> kind = "callout" /\ ~vm.activeAffined, owned |-> owned]

\* The end of disownVM:, common to calls and to returns from callbacks.
DisownVM(t) ==
    /\ vm' = [vm EXCEPT !.disowningVMThread = t]
    /\ state' = [state EXCEPT ![t] = "Unavailable"]
    /\ Release(t, "outside")

\* A threaded call, or primitiveRelinquishProcessor: the idle process makes no
\* other call, and no other process makes this one.
CallOut(t) ==
    /\ pc[t] = "running"
    /\ MayCall
    /\ LET idle == vm.activeProcess = Idle
       IN /\ idle => "relinquishes" \in image
          /\ relinquishing' = (relinquishing \/ idle)
          /\ Push(t, Call("callout", vm.activeProcess, idle, FALSE))
    /\ DisownVM(t)
    /\ UNCHANGED <<vmOwnerLock, osSemaphore, waiting, relinquished, candidate>>

\* ownVM: with what disownVM: answered; acquireVMFor: follows.
Return(t) ==
    /\ pc[t] = "outside"
    /\ HasTop(t, "callout")
    /\ relinquishing' = (relinquishing /\ ~Top(t).relinquish)
    /\ Goto(t, "enter")
    /\ UNCHANGED <<ownership, target, osSemaphore, state, waiting, relinquished,
                   calls, candidate, vm>>

\* ownVMFromUnidentifiedThread in a thread the VM knows.  Does it own the VM?
CallBack(t) ==
    /\ pc[t] = "outside"
    /\ "calls back" \in image /\ MayCall
    /\ calls[t] # <<>> /\ ~Top(t).relinquish
    /\ IF vmOwner = t
       THEN /\ Push(t, Call("callback", vm.activeProcess, FALSE, TRUE))
            /\ vm' = [vm EXCEPT !.disowningVMThread = NoThread]
            /\ state' = [state EXCEPT ![t] = "AssignableOrInVM"]
            /\ Goto(t, "running")
       ELSE /\ Push(t, Call("callback", Nobody, FALSE, FALSE))
            /\ Goto(t, "enter")
            /\ UNCHANGED <<vm, state>>
    /\ UNCHANGED <<ownership, target, osSemaphore, waiting, relinquishing,
                   relinquished, candidate>>

\* disownVM: at the end of a callback.  If the VM was owned when the callback
\* came it is kept.
ReturnFromCallBack(t) ==
    /\ pc[t] = "running"
    /\ HasTop(t, "callback") /\ Top(t).process = vm.activeProcess
    /\ calls' = Pop(t)
    /\ IF Top(t).owned
       THEN /\ vm' = [vm EXCEPT !.disowningVMThread = t]
            /\ state' = [state EXCEPT ![t] = "Unavailable"]
            /\ Keep(t, "outside")
       ELSE DisownVM(t)
    /\ UNCHANGED <<vmOwnerLock, osSemaphore, waiting, relinquishing, relinquished,
                   candidate>>

\* A call that does not give the VM up.
CallKeepingVM(t) ==
    /\ pc[t] = "running"
    /\ "keeps" \in image /\ MayCall /\ vm.activeProcess # Idle
    /\ Push(t, Call("unthreaded", vm.activeProcess, FALSE, FALSE))
    /\ Goto(t, "outside")
    /\ UNCHANGED <<ownership, target, osSemaphore, state, waiting, relinquishing,
                   relinquished, candidate, vm>>

ReturnKeepingVM(t) ==
    /\ pc[t] = "outside"
    /\ HasTop(t, "unthreaded")
    /\ calls' = Pop(t)
    /\ Goto(t, "running")
    /\ UNCHANGED <<ownership, target, osSemaphore, state, waiting, relinquishing,
                   relinquished, candidate, vm>>

Leaving(t) == CallOut(t) \/ ReturnFromCallBack(t) \/ CallKeepingVM(t)

ComingBack(t) == Return(t) \/ CallBack(t) \/ ReturnKeepingVM(t)

-----------------------------------------------------------------------------
(* acquireVMFor: and the rest of ownVM:                                    *)

WantOwnership(t) ==
    /\ pc[t] = "want"
    /\ state' = [state EXCEPT ![t] = "WantingOwnership"]
    /\ Goto(t, "retry")
    /\ UNCHANGED <<ownership, target, osSemaphore, waiting, relinquishing,
                   relinquished, calls, candidate, vm>>

\* Spin for the lock until maxWaitingPriority is the thread's at least.
Spin(t) ==
    /\ pc[t] = "spin"
    /\ IF maxWaitingPriority < vm.threadPriority[t]
       THEN ~vmOwnerLock /\ vmOwnerLock' = TRUE /\ Goto(t, "bump")
       ELSE UNCHANGED vmOwnerLock /\ Goto(t, IF vmOwner # t THEN "dozing" ELSE "retry")
    /\ UNCHANGED <<vmOwner, target, osSemaphore, state, waiting, relinquishing,
                   relinquished, calls, candidate, vm>>

\* waitingPriorityIsAtLeast:
WaitingPriorityIsAtLeast(t) ==
    /\ pc[t] = "bump"
    /\ IF maxWaitingPriority < vm.threadPriority[t]
       THEN /\ maxWaitingPriority' = vm.threadPriority[t]
            /\ checkThreadActivation' = TRUE
       ELSE UNCHANGED waiting
    /\ vmOwnerLock' = FALSE
    /\ Goto(t, "spin")
    /\ UNCHANGED <<vmOwner, target, osSemaphore, state, relinquishing, relinquished,
                   calls, candidate, vm>>

\* Mutant of PopAWOLProcess: the process stays on the thread's list.
PopLeaving(v, t, unaffine) ==
    LET away == v.awolProcesses[t]
        p    == away[Len(away)]
        left == [v EXCEPT !.ownerIndex[p] = IF unaffine THEN NoThread ELSE @]
        old  == left.activeProcess
    IN SetActive(IF old # Nobody /\ left.myList[old] = "nil"
                 THEN MakeReady(left, old) ELSE left, p)

\* Mutant of PopAWOLProcess: the process stays marked as in external code.
PopStillMarked(v, t, unaffine) ==
    LET away == v.awolProcesses[t]
        p    == away[Len(away)]
        left == [v EXCEPT !.awolProcesses[t] = SubSeq(@, 1, Len(@) - 1),
                          !.ownerIndex[p] = IF unaffine THEN NoThread ELSE @]
        old  == left.activeProcess
    IN [IF old # Nobody /\ left.myList[old] = "nil"
                 THEN MakeReady(left, old) ELSE left EXCEPT !.activeProcess = p]

\* The active process makes way for the one that went away with the thread.
PopAWOLProcess(v, t, unaffine) ==
    LET away == v.awolProcesses[t]
        p    == away[Len(away)]
        left == [v EXCEPT !.awolProcesses[t] = SubSeq(@, 1, Len(@) - 1),
                          !.ownerIndex[p] = IF unaffine THEN NoThread ELSE @]
        old  == left.activeProcess
    IN SetActive(IF old # Nobody /\ left.myList[old] = "nil"
                 THEN MakeReady(left, old) ELSE left, p)

\* Mutant of OwnVM: a callback runs in the process that is active.
OwnVMForAnyone(t) ==
    /\ pc[t] = "back"
    /\ state' = [state EXCEPT ![t] = "AssignableOrInVM"]
    /\ vm' = IF vm.disowningVMThread = t \/ HasTop(t, "callback")
             THEN [vm EXCEPT !.disowningVMThread = NoThread]
             ELSE PopAWOLProcess(Preempted(vm), t,
                                 Top(t).kind = "callout" /\ Top(t).unaffined)
    /\ calls' = IF Top(t).kind = "callout" THEN Pop(t)
                ELSE [calls EXCEPT ![t][Len(calls[t])].process = vm'.activeProcess]
    /\ Goto(t, "running")
    /\ UNCHANGED <<ownership, target, osSemaphore, waiting, relinquishing,
                   relinquished, candidate>>

\* Mutant of OwnVM: any disowning thread is taken for this one.
OwnVMAnyway(t) ==
    /\ pc[t] = "back"
    /\ state' = [state EXCEPT ![t] = "AssignableOrInVM"]
    /\ vm' = IF vm.disowningVMThread # NoThread
             THEN [vm EXCEPT !.disowningVMThread = NoThread]
             ELSE PopAWOLProcess(Preempted(vm), t,
                                 Top(t).kind = "callout" /\ Top(t).unaffined)
    /\ calls' = IF Top(t).kind = "callout" THEN Pop(t)
                ELSE [calls EXCEPT ![t][Len(calls[t])].process = vm'.activeProcess]
    /\ Goto(t, "running")
    /\ UNCHANGED <<ownership, target, osSemaphore, waiting, relinquishing,
                   relinquished, candidate>>

OwnVM(t) ==
    /\ pc[t] = "back"
    /\ state' = [state EXCEPT ![t] = "AssignableOrInVM"]
    /\ vm' = IF vm.disowningVMThread = t
             THEN [vm EXCEPT !.disowningVMThread = NoThread]
             ELSE PopAWOLProcess(Preempted(vm), t,
                                 Top(t).kind = "callout" /\ Top(t).unaffined)
    /\ calls' = IF Top(t).kind = "callout" THEN Pop(t)
                ELSE [calls EXCEPT ![t][Len(calls[t])].process = vm'.activeProcess]
    /\ Goto(t, "running")
    /\ UNCHANGED <<ownership, target, osSemaphore, waiting, relinquishing,
                   relinquished, candidate>>

Acquiring(t) ==
    \/ TryLock(t, "enter", "entering", "want")
    \/ LookAt(t, "entering", t, "back", "want")
    \/ WantOwnership(t)
    \/ TryLock(t, "retry", "retrying", "spin")
    \/ LookAt(t, "retrying", t, "back", "spin")
    \/ Spin(t)
    \/ WaitingPriorityIsAtLeast(t)
    \/ WaitOn(t, "dozing", "retry")
    \/ OwnVM(t)

-----------------------------------------------------------------------------
(* Running the image: process switches and the event check.                *)

\* threadSwitchIfNecessary:from: when p, now active, is affined to another
\* thread the VM goes there.  That thread may still be out of the VM.
ThreadSwitchIfNecessary(t, v, p) ==
    LET u == v.ownerIndex[p]
    IN IF u \notin {NoThread, vmOwner}
       THEN /\ vm' = [v EXCEPT !.activeAffined = TRUE,
                               !.threadPriority[u] = priority[p]]
            /\ state' = [state EXCEPT ![u] = IF @ = "Unavailable"
                                             THEN "WantingOwnership" ELSE @]
            /\ GiveTo(t, u)
            /\ UNCHANGED checkThreadActivation
       ELSE /\ vm' = [v EXCEPT !.activeAffined = u # NoThread]
            /\ checkThreadActivation' =
                  (checkThreadActivation \/ priority[p] < maxWaitingPriority)
            /\ Keep(t, "running")
            /\ UNCHANGED state

\* transferTo:from: with nothing to run another thread may have a process to
\* bring back; if none wants the VM the program stops.
TransferToHighest(t, v) ==
    \/ \E p \in Processes :
          IsHighest(v, p) /\ ThreadSwitchIfNecessary(t, SetActive(v, p), p)
    \/ /\ Ready(v) = {}
       /\ vm' = v
       /\ IF InState("WantingOwnership") # {}
          THEN \E u \in Threads : IsWilling(u) /\ GiveTo(t, u)
          ELSE Keep(t, "aborted")
       /\ UNCHANGED <<state, checkThreadActivation>>

\* A process waits for a semaphore.
Block(t) ==
    /\ pc[t] = "running"
    /\ vm.activeProcess # Idle
    /\ TransferToHighest(t, [vm EXCEPT !.myList[vm.activeProcess] = "blocked"])
    /\ UNCHANGED <<vmOwnerLock, osSemaphore, maxWaitingPriority, relinquishing,
                   relinquished, calls, candidate>>

\* resume:preemptedYieldingIf:from: without the thread switch.
Resumed(v, q) ==
    IF priority[q] > priority[v.activeProcess]
    THEN SetActive(MakeReady(v, v.activeProcess), q)
    ELSE MakeReady(v, q)

\* A process is signalled by the active one.
Wake(t) ==
    /\ pc[t] = "running"
    /\ \E q \in Processes :
          /\ vm.myList[q] = "blocked"
          /\ LET v == Resumed(vm, q)
             IN IF v.activeProcess = q
                THEN ThreadSwitchIfNecessary(t, v, q)
                ELSE /\ vm' = v
                     /\ Keep(t, "running")
                     /\ UNCHANGED <<state, checkThreadActivation>>
    /\ UNCHANGED <<vmOwnerLock, osSemaphore, maxWaitingPriority, relinquishing,
                   relinquished, calls, candidate>>

\* checkForEventsMayContextSwitch: may signal a process; thread switches are
\* deferred until it has done so.
CheckForEvents(t) ==
    /\ pc[t] = "running"
    /\ \E v \in {vm} \cup {Resumed(vm, q) : q \in {p \in Processes :
                                                    vm.myList[p] = "blocked"}} :
          IF checkThreadActivation
          THEN /\ vm' = v
               /\ checkThreadActivation' = FALSE
               /\ Keep(t, "cede")
               /\ UNCHANGED state
          ELSE ThreadSwitchIfNecessary(t, v, v.activeProcess)
    /\ UNCHANGED <<vmOwnerLock, osSemaphore, maxWaitingPriority, relinquishing,
                   relinquished, calls, candidate>>

NoCandidate == [thread |-> NoThread, next |-> 0]

ActiveThread(t) ==
    LET u == vm.ownerIndex[vm.activeProcess] IN IF u = NoThread THEN t ELSE u

\* highestPriorityThreadIfHigherThan:expectedMax: and the priority of the
\* next highest waiting thread.
CedeToHigherPriorityThreads(t) ==
    /\ pc[t] = "cede"
    /\ LET mine    == priority[vm.activeProcess]
           v       == [vm EXCEPT !.threadPriority[ActiveThread(t)] = mine]
           wanting == {u \in Threads : state[u] = "WantingOwnership"}
           NextTo(h) == {v.threadPriority[u] : u \in wanting \ {h}} \cup {0}
           higher  == {u \in wanting : /\ IsFirstHighest(v, wanting, u)
                                       /\ v.threadPriority[u] > mine}
       IN /\ vm' = v
          /\ \/ higher = {} /\ candidate' = NoCandidate
             \/ \E h \in higher : \E n \in NextTo(h) :
                   /\ \A m \in NextTo(h) : m <= n
                   /\ candidate' = [thread |-> h, next |-> n]
    /\ Goto(t, "ceding")
    /\ UNCHANGED <<ownership, target, osSemaphore, state, waiting, relinquishing,
                   relinquished, calls>>

LesserOf(m, n) == IF m < n THEN m ELSE n

\* The rest of it: maxWaitingPriority, and the switch if there is one.
Cede(t) ==
    /\ pc[t] = "ceding"
    /\ LET h    == candidate.thread
           p    == vm.activeProcess
           next == IF h = NoThread THEN maxWaitingPriority ELSE candidate.next
       IN IF h \in {NoThread, ActiveThread(t)}
          THEN /\ maxWaitingPriority' = LesserOf(next, priority[p])
               /\ ThreadSwitchIfNecessary(t, vm, p)
          ELSE /\ maxWaitingPriority' = LesserOf(next, vm.threadPriority[h])
               /\ vm' = MakeReady(vm, p)
               /\ GiveTo(t, h)
               /\ UNCHANGED <<state, checkThreadActivation>>
    /\ candidate' = NoCandidate
    /\ UNCHANGED <<vmOwnerLock, osSemaphore, relinquishing, relinquished, calls>>

Running(t) ==
    \/ Leaving(t)
    \/ Block(t)
    \/ Wake(t)
    \/ CheckForEvents(t)
    \/ CedeToHigherPriorityThreads(t)
    \/ Cede(t)

-----------------------------------------------------------------------------
(* The first thread starts the image; every other process is blocked.      *)

Init ==
    /\ image \in Images
    /\ vmOwner = 1 /\ vmOwnerLock = FALSE
    /\ pc = [a \in Actors |-> IF a \in {1, Heartbeat} THEN "loop" ELSE "unborn"]
    /\ target = [a \in Actors |-> NoThread]
    /\ osSemaphore = [t \in Threads |-> 0]
    /\ state = [t \in Threads |-> IF t = 1 THEN "AssignableOrInVM" ELSE "nil"]
    /\ maxWaitingPriority = 0 /\ checkThreadActivation = FALSE
    /\ relinquishing = FALSE /\ relinquished = FALSE
    /\ calls = [t \in Threads |-> <<>>]
    /\ candidate = NoCandidate
    /\ vm = [activeProcess     |-> Idle,
             myList            |-> [p \in Processes |-> IF p = Idle THEN "nil"
                                                                    ELSE "blocked"],
             ownerIndex        |-> [p \in Processes |-> NoThread],
             activeAffined     |-> FALSE,
             disowningVMThread |-> NoThread,
             awolProcesses     |-> [t \in Threads |-> <<>>],
             threadPriority    |-> [t \in Threads |-> 0]]

\* error: ends the program.
Alive == \A t \in Threads : pc[t] # "aborted"

Next ==
    /\ Alive
    /\ image' = image
    /\ \/ Beating
       \/ \E t \in Threads : \/ SchedulingLoop(t)
                             \/ Signal(t)
                             \/ Running(t)
                             \/ ComingBack(t)
                             \/ Acquiring(t)

Spec == Init /\ [][Next]_vars

\* The operating system lets the heartbeat and every thread go on.  Nothing is
\* assumed of what the image runs, nor that foreign code returns.
Fairness ==
    /\ WF_vars(Alive /\ image' = image /\ Beating)
    /\ \A t \in Threads :
          WF_vars(Alive /\ image' = image /\ (SchedulingLoop(t) \/ Signal(t) \/ Acquiring(t)))

FairSpec == Spec /\ Fairness

-----------------------------------------------------------------------------
(* Properties.                                                             *)

\* Every variable has its type.
TypeOK ==
    /\ image \in Images
    /\ vmOwner \in Threads \cup {Unowned, Anonymous}
    /\ vmOwnerLock \in BOOLEAN
    /\ pc \in [Actors -> Positions]
    /\ target \in [Actors -> Threads \cup {NoThread}]
    /\ osSemaphore \in [Threads -> 0 .. MaxSignals]
    /\ state \in [Threads -> CTMStates]
    /\ maxWaitingPriority \in Nat /\ checkThreadActivation \in BOOLEAN
    /\ relinquishing \in BOOLEAN /\ relinquished \in BOOLEAN
    /\ calls \in [Threads -> Seq(Calls)]
    /\ candidate \in [thread : Threads \cup {NoThread}, next : Nat]
    /\ vm \in VMStates

InsidePositions ==
    {"relinquished?", "execute", "running", "cede", "ceding", "back", "pick"}

Inside(a) == pc[a] \in InsidePositions

\* At most one thread, or the heartbeat, is inside the VM at any time, although
\* the owner gives the VM up or away without taking the lock.
OneThreadRuns == \A a, b \in Actors : Inside(a) /\ Inside(b) => a = b

Asleep(t) == pc[t] \in {"pooled", "dozing"}

\* A thread that owns the VM is not asleep for good: its semaphore has been
\* signalled, or whoever gave it the VM is about to do so.
OwnerIsAwake ==
    \A t \in Threads : vmOwner = t /\ Asleep(t) =>
       osSemaphore[t] > 0 \/ \E a \in Actors : pc[a] = "signal" /\ target[a] = t

AwayPlaces == UNION {{t} \X DOMAIN vm.awolProcesses[t] : t \in Threads}

\* A process marked as in external code is away with one thread, once, and no
\* other process is away: none is lost or comes back twice, whichever thread
\* preempts it and whichever call or callback brings it back.
AwayIsKept ==
    \A r \in Processes :
       LET places == {x \in AwayPlaces : vm.awolProcesses[x[1]][x[2]] = r}
       IN IF vm.myList[r] = "external" THEN \E x \in places : places = {x}
                                       ELSE places = {}

\* What assertSaneThreadAndProcess asserts of whoever runs the image: it owns
\* the VM, its state says so, and its process is on no list.  (Not when calls
\* that keep the VM call back: such a callback leaves the state Unavailable and
\* the thread disowning, and the thread may later be given the VM to run a
\* process that is blocked.)
SaneThreadAndProcess ==
    \A t \in Threads : pc[t] = "running" =>
       /\ vmOwner = t
       /\ "keeps" \notin image => /\ state[t] = "AssignableOrInVM"
                                 /\ vm.myList[vm.activeProcess] = "nil"

\* Whichever way a process becomes active - a switch, a preemption, a return -
\* it runs on the thread it is affined to, or on any if it is not.
RunsWhereAffined ==
    \A t \in Threads : pc[t] = "running" =>
       vm.ownerIndex[vm.activeProcess] \in {NoThread, t}

\* The process whose call t is in, or whose call has called back.
Caller(t) == IF HasTop(t, "callback") THEN calls[t][Len(calls[t]) - 1].process
                                      ELSE Top(t).process

\* A call whose process was put away returns into that process, whatever ran
\* meanwhile and however many processes have gone away with the same thread.
\* (If no thread has preempted it, it returns into the process that is active:
\* not always the caller, once a callback has run in the wrong process.)
ReturnsToCaller ==
    [][\A t \in Threads :
          OwnVM(t) /\ HasTop(t, "callout") /\ vm.disowningVMThread # t =>
             vm'.activeProcess = Caller(t)]_vars

\* A callback out of a call whose process was put away runs in that process.
\* (Otherwise it runs in the process that is active.  That is another one if the
\* thread, while it was out, was given the VM for a process affined to it.)
CallsBackToCaller ==
    [][\A t \in Threads :
          OwnVM(t) /\ HasTop(t, "callback") /\ vm.disowningVMThread # t =>
             vm'.activeProcess = Caller(t)]_vars

Wanted == \E t \in Threads : state[t] = "WantingOwnership"

\* When nobody owns the VM and a thread wants it, some thread gets to run the
\* image in the end: the heartbeat gives it away even while the processor is
\* relinquished.
FreeVMIsTaken ==
    vmOwner = Unowned /\ Wanted ~> ~Alive \/ \E t \in Threads : pc[t] = "running"

=============================================================================
