------------------------- MODULE VMOwnership_proofs -------------------------
(***************************************************************************)
(* Theorems about VMOwnership, for any threads and processes: its state    *)
(* keeps its type, at most one thread is inside the VM, and the owner is   *)
(* never asleep for good.  Types need the protocol: a thread that comes    *)
(* back finds a process to bring back only because it is the one that      *)
(* disowned the VM last or has been preempted since.                       *)
(***************************************************************************)
EXTENDS VMOwnership, TLAPS

-----------------------------------------------------------------------------
(* The inductive invariant.                                                *)

\* Whoever is inside the VM owns it.
InsideOwns ==
    /\ \A t \in Threads : Inside(t) => vmOwner = t
    /\ Inside(Heartbeat) => vmOwner = Anonymous

\* A thread in a call that keeps the VM owns it.
KeptIsOwned ==
    \A t \in Threads : pc[t] = "outside" /\ HasTop(t, "unthreaded") => vmOwner = t

\* A callback out of such a call found the VM owned.
OwnedOverKept(stack) ==
    \A k \in 1 .. Len(stack) : \A j \in 1 .. Len(stack) :
       /\ j = k - 1
       /\ stack[k].kind = "callback" /\ ~stack[k].owned
       => stack[j].kind # "unthreaded"

KeptCallsBackOwned == \A t \in Threads : OwnedOverKept(calls[t])

Coming == {"enter", "entering", "want", "retry", "retrying", "spin", "bump",
           "dozing", "back"}

\* Out of the VM, which the thread gave up.
Away(t) ==
    \/ pc[t] \in Coming
    \/ pc[t] = "outside" /\ ~HasTop(t, "unthreaded")

\* Such a thread is the one that disowned the VM or has a process to bring back.
AwayCanReturn ==
    \A t \in Threads : Away(t) => \/ vm.disowningVMThread = t
                                  \/ vm.awolProcesses[t] # <<>>

\* An owner that may run the image has an active process, and can take the
\* place of the thread that disowned the VM without harm.
OwnerMayRun ==
    \A t \in Threads :
       vmOwner = t /\ pc[t] \in {"running", "cede", "ceding", "outside"} =>
          /\ vm.activeProcess \in Processes
          /\ \A u \in Threads : Away(u) /\ vm.disowningVMThread = u => u = t

OutsideIsUnavailable ==
    \A t \in Threads : pc[t] = "outside" /\ vmOwner # t => state[t] = "Unavailable"

DisowningIsActive == vm.disowningVMThread # NoThread => vm.activeProcess \in Processes

Control ==
    /\ InsideOwns
    /\ KeptIsOwned
    /\ KeptCallsBackOwned
    /\ AwayCanReturn
    /\ OwnerMayRun
    /\ OutsideIsUnavailable
    /\ DisowningIsActive
    /\ OwnerIsAwake

Inv == TypeOK /\ Control

-----------------------------------------------------------------------------
(* What the routines on the interpreter's state preserve.                  *)

LEMMA ConstantsOK ==
    /\ Heartbeat \notin Threads /\ Heartbeat \in Actors /\ Threads \subseteq Actors
    /\ NoThread \notin Threads /\ Unowned \notin Threads /\ Anonymous \notin Threads
    /\ Threads \subseteq Nat
    /\ \A p \in Processes : priority[p] \in Nat
    /\ Idle \in Processes /\ Nobody \notin Processes
BY ThreadAssumption, PriorityAssumption, ProcessAssumption
   DEF Heartbeat, Threads, Actors, NoThread, Unowned, Anonymous

LEMMA AppendNotEmpty ==
    ASSUME NEW S, NEW seq \in Seq(S), NEW e \in S
    PROVE  Append(seq, e) \in Seq(S) /\ Append(seq, e) # <<>>
<1>1. Len(Append(seq, e)) = Len(seq) + 1 /\ Len(seq) \in Nat
  OBVIOUS
<1>2. Len(<<>>) = 0
  OBVIOUS
<1>3. QED
  BY <1>1, <1>2

LEMMA SetActiveType ==
    ASSUME NEW v \in VMStates, NEW p \in Processes
    PROVE  /\ SetActive(v, p) \in VMStates
           /\ SetActive(v, p).activeProcess = p
           /\ SetActive(v, p).disowningVMThread = v.disowningVMThread
           /\ SetActive(v, p).awolProcesses = v.awolProcesses
BY DEF VMStates, SetActive

LEMMA MakeReadyType ==
    ASSUME NEW v \in VMStates, NEW p \in Processes
    PROVE  /\ MakeReady(v, p) \in VMStates
           /\ MakeReady(v, p).activeProcess = v.activeProcess
           /\ MakeReady(v, p).disowningVMThread = v.disowningVMThread
           /\ MakeReady(v, p).awolProcesses = v.awolProcesses
BY DEF VMStates, MakeReady

\* Preempting a disowning thread gives it a process to bring back, and takes
\* none from the others.
LEMMA PreemptType ==
    ASSUME NEW v \in VMStates, v.disowningVMThread # NoThread,
           v.activeProcess \in Processes
    PROVE  LET w == PreemptDisowningThread(v)
           IN /\ w \in VMStates
              /\ w.activeProcess = v.activeProcess
              /\ w.disowningVMThread = NoThread
              /\ w.awolProcesses[v.disowningVMThread] # <<>>
              /\ \A t \in Threads : t # v.disowningVMThread =>
                    w.awolProcesses[t] = v.awolProcesses[t]
<1> DEFINE t == v.disowningVMThread
           p == v.activeProcess
<1>1. t \in Threads /\ p \in Processes /\ priority[p] \in Nat
  BY ConstantsOK DEF VMStates
<1>2. v.awolProcesses \in [Threads -> Seq(Processes)]
  BY DEF VMStates
<1>3. /\ Append(v.awolProcesses[t], p) \in Seq(Processes)
      /\ Append(v.awolProcesses[t], p) # <<>>
  BY <1>1, <1>2, AppendNotEmpty
<1>4. QED
  BY <1>1, <1>2, <1>3 DEF VMStates, PreemptDisowningThread

LEMMA PopType ==
    ASSUME NEW v \in VMStates, NEW t \in Threads, v.awolProcesses[t] # <<>>,
           NEW unaffine \in BOOLEAN
    PROVE  LET w == PopAWOLProcess(v, t, unaffine)
           IN /\ w \in VMStates
              /\ w.activeProcess \in Processes
              /\ w.disowningVMThread = v.disowningVMThread
              /\ \A u \in Threads : u # t => w.awolProcesses[u] = v.awolProcesses[u]
<1> DEFINE away == v.awolProcesses[t]
           p    == away[Len(away)]
           left == [v EXCEPT !.awolProcesses[t] = SubSeq(@, 1, Len(@) - 1),
                             !.ownerIndex[p] = IF unaffine THEN NoThread ELSE @]
           old  == left.activeProcess
           mid  == IF old # Nobody /\ left.myList[old] = "nil"
                   THEN MakeReady(left, old) ELSE left
<1>1. away \in Seq(Processes) /\ away # <<>>
  BY DEF VMStates
<1>2. p \in Processes /\ SubSeq(away, 1, Len(away) - 1) \in Seq(Processes)
  BY <1>1
<1>3. /\ left \in VMStates
      /\ left.disowningVMThread = v.disowningVMThread
      /\ \A u \in Threads : u # t => left.awolProcesses[u] = v.awolProcesses[u]
  BY <1>2 DEF VMStates
<1>4. /\ mid \in VMStates
      /\ mid.disowningVMThread = left.disowningVMThread
      /\ mid.awolProcesses = left.awolProcesses
  <2> HIDE DEF left
  <2>1. CASE old # Nobody
    <3>1. old \in Processes
      BY <1>3, <2>1 DEF VMStates
    <3>2. QED
      BY <1>3, <3>1, MakeReadyType
  <2>2. CASE old = Nobody
    BY <1>3, <2>2
  <2>3. QED
    BY <2>1, <2>2
<1>5. PopAWOLProcess(v, t, unaffine) = SetActive(mid, p)
  BY DEF PopAWOLProcess
<1> HIDE DEF mid, left, p
<1>6. QED
  BY <1>2, <1>3, <1>4, <1>5, SetActiveType

LEMMA ResumedType ==
    ASSUME NEW v \in VMStates, NEW q \in Processes, v.activeProcess \in Processes
    PROVE  /\ Resumed(v, q) \in VMStates
           /\ Resumed(v, q).activeProcess \in Processes
           /\ Resumed(v, q).disowningVMThread = v.disowningVMThread
           /\ Resumed(v, q).awolProcesses = v.awolProcesses
<1> DEFINE w == MakeReady(v, v.activeProcess)
<1>1. /\ w \in VMStates
      /\ w.disowningVMThread = v.disowningVMThread
      /\ w.awolProcesses = v.awolProcesses
  BY MakeReadyType
<1>2. /\ MakeReady(v, q) \in VMStates
      /\ MakeReady(v, q).activeProcess = v.activeProcess
      /\ MakeReady(v, q).disowningVMThread = v.disowningVMThread
      /\ MakeReady(v, q).awolProcesses = v.awolProcesses
  BY MakeReadyType
<1>3. /\ SetActive(w, q) \in VMStates
      /\ SetActive(w, q).activeProcess = q
      /\ SetActive(w, q).disowningVMThread = w.disowningVMThread
      /\ SetActive(w, q).awolProcesses = w.awolProcesses
  <2> HIDE DEF w
  <2>1. QED
    BY <1>1, SetActiveType
<1>4. Resumed(v, q) = SetActive(w, q) \/ Resumed(v, q) = MakeReady(v, q)
  BY DEF Resumed
<1> HIDE DEF w
<1>5. QED
  BY <1>1, <1>2, <1>3, <1>4

-----------------------------------------------------------------------------
(* Steps of one actor that leave the owner, the stacks and what matters of *)
(* the interpreter's state alone.                                          *)

\* What matters of the interpreter's state for Control.
SameVM == /\ vm'.activeProcess = vm.activeProcess
          /\ vm'.disowningVMThread = vm.disowningVMThread
          /\ vm'.awolProcesses = vm.awolProcesses

Owns(a) == /\ a = Heartbeat => vmOwner = Anonymous
           /\ a # Heartbeat => vmOwner = a

LEMMA MoveWithStack ==
    ASSUME TypeOK, Control, NEW a \in Actors, NEW position \in Positions,
           Goto(a, position),
           UNCHANGED <<vmOwner, target>>, SameVM,
           \A w \in Threads : w # a => calls'[w] = calls[w],
           a \in Threads => OwnedOverKept(calls'[a]),
           \A u \in Threads : u # a => state'[u] = state[u],
           \A u \in Threads : u # a => osSemaphore'[u] = osSemaphore[u],
           pc[a] # "signal", position # "outside",
           position \in InsidePositions => Owns(a),
           position \in {"running", "cede", "ceding"} => pc[a] \in {"running", "cede", "ceding"},
           position \in {"pooled", "dozing"} => vmOwner # a,
           a \in Threads /\ position \in Coming => Away(a)
    PROVE  Control'
<1> USE DEF TypeOK, Goto
<1>1. pc' \in [Actors -> Positions] /\ pc'[a] = position
  OBVIOUS
<1>2. \A b \in Actors : b # a => pc'[b] = pc[b]
  OBVIOUS
<1>3. \A u \in Threads : Away(u)' => Away(u)
  BY ConstantsOK, <1>1, <1>2 DEF Away, HasTop, Top, Coming, Control, KeptIsOwned
<1>4. InsideOwns'
  BY ConstantsOK, <1>1, <1>2 DEF Control, InsideOwns, Inside, Owns
<1>5. KeptIsOwned'
  BY ConstantsOK, <1>1, <1>2 DEF Control, KeptIsOwned, HasTop, Top
<1>6. KeptCallsBackOwned'
  BY DEF Control, KeptCallsBackOwned
<1>7. AwayCanReturn'
  BY <1>3 DEF Control, AwayCanReturn, SameVM
<1>8. OwnerMayRun'
  BY ConstantsOK, <1>1, <1>2, <1>3 DEF Control, OwnerMayRun, SameVM
<1>9. OutsideIsUnavailable'
  BY ConstantsOK, <1>1, <1>2 DEF Control, OutsideIsUnavailable
<1>10. DisowningIsActive'
  BY DEF Control, DisowningIsActive, SameVM
<1>11. OwnerIsAwake'
  BY ConstantsOK, <1>1, <1>2 DEF Control, OwnerIsAwake, Asleep
<1>12. QED
  BY <1>4, <1>5, <1>6, <1>7, <1>8, <1>9, <1>10, <1>11 DEF Control

LEMMA MoveInPlace ==
    ASSUME TypeOK, Control, NEW a \in Actors, NEW position \in Positions,
           Goto(a, position),
           UNCHANGED <<vmOwner, calls, target>>, SameVM,
           \A u \in Threads : u # a => state'[u] = state[u],
           \A u \in Threads : u # a => osSemaphore'[u] = osSemaphore[u],
           pc[a] # "signal", position # "outside",
           position \in InsidePositions => Owns(a),
           position \in {"running", "cede", "ceding"} => pc[a] \in {"running", "cede", "ceding"},
           position \in {"pooled", "dozing"} => vmOwner # a,
           a \in Threads /\ position \in Coming => Away(a)
    PROVE  Control'
BY MoveWithStack DEF Control, KeptCallsBackOwned

LEMMA ScheduleOK ==
    ASSUME Inv, NEW t \in Threads, image' = image, Schedule(t) PROVE Inv'
<1>1. TypeOK'
  BY ConstantsOK DEF Inv, TypeOK, Schedule, Goto, Positions, ownership, waiting
<1>2. Control'
  BY <1>1, ConstantsOK, MoveInPlace DEF Inv, Schedule, ownership, SameVM, Positions, InsidePositions, Coming, Owns
<1>3. QED
  BY <1>1, <1>2 DEF Inv

LEMMA StartVMThreadOK ==
    ASSUME Inv, NEW t \in Threads, image' = image, StartVMThread(t) PROVE Inv'
<1>1. TypeOK'
  BY ConstantsOK DEF Inv, TypeOK, StartVMThread, Goto, Positions, CTMStates, ownership, waiting
<1>2. Control'
  BY ConstantsOK, MoveInPlace
     DEF Inv, TypeOK, StartVMThread, ownership, waiting, SameVM, Positions, InsidePositions, Coming
<1>3. QED
  BY <1>1, <1>2 DEF Inv

LEMMA TryLockOK ==
    ASSUME Inv, NEW a \in Actors, NEW at, NEW locked \in Positions, NEW failed \in Positions,
           at # "signal",
           {locked, failed} \cap (InsidePositions \cup {"outside", "pooled", "dozing"}) = {},
           {locked, failed} \cap Coming # {} => at \in Coming,
           image' = image, TryLock(a, at, locked, failed)
    PROVE  Inv'
<1> DEFINE position == IF vmOwnerLock THEN failed ELSE locked
<1>1. position \in {locked, failed} /\ position \in Positions
  OBVIOUS
<1>2. TypeOK'
  BY <1>1, ConstantsOK DEF Inv, TypeOK, TryLock, Goto, ownership, waiting
<1>3. Goto(a, position) /\ pc[a] = at
  BY DEF TryLock
<1>4. UNCHANGED <<vmOwner, calls, target, state, osSemaphore, vm>>
  BY DEF TryLock
<1>5. position \in Coming => Away(a)
  BY <1>1, <1>3 DEF Away
<1> HIDE DEF position
<1>6. Control'
  BY <1>1, <1>3, <1>4, <1>5, MoveInPlace DEF Inv, SameVM, InsidePositions
<1>7. QED
  BY <1>2, <1>6 DEF Inv

LEMMA WaitOnOK ==
    ASSUME Inv, NEW t \in Threads, NEW at, NEW next \in {"loop", "retry"},
           at # "signal", next = "retry" => at \in Coming,
           image' = image, WaitOn(t, at, next)
    PROVE  Inv'
<1>1. TypeOK'
  BY SMTT(40), ConstantsOK, BoundAssumption
     DEF Inv, TypeOK, WaitOn, Goto, Positions, ownership, waiting
<1>2. Control'
  BY ConstantsOK, MoveInPlace
     DEF Inv, TypeOK, WaitOn, ownership, SameVM, Positions, InsidePositions, Coming, Away
<1>3. QED
  BY <1>1, <1>2 DEF Inv

LEMMA TestVMOwnerOK ==
    ASSUME Inv, NEW t \in Threads, image' = image, TestVMOwner(t) PROVE Inv'
<1>1. TypeOK'
  BY ConstantsOK DEF Inv, TypeOK, TestVMOwner, Goto, Positions, ownership, waiting
<1>2. Control'
  BY ConstantsOK, MoveInPlace
     DEF Inv, TestVMOwner, ownership, SameVM, Positions, InsidePositions, Coming
<1>3. QED
  BY <1>1, <1>2 DEF Inv

LEMMA BeatOK ==
    ASSUME Inv, image' = image, Beat PROVE Inv'
<1>1. TypeOK'
  BY ConstantsOK DEF Inv, TypeOK, Beat, Goto, Positions, ownership, waiting
<1>2. Control'
  BY ConstantsOK, MoveInPlace
     DEF Inv, Beat, ownership, SameVM, Positions, InsidePositions, Coming
<1>3. QED
  BY <1>1, <1>2 DEF Inv

LEMMA ReturnOK ==
    ASSUME Inv, NEW t \in Threads, image' = image, Return(t) PROVE Inv'
<1>1. TypeOK'
  BY ConstantsOK DEF Inv, TypeOK, Return, Goto, Positions, ownership, waiting
<1>2. Away(t)
  BY DEF Return, Away, HasTop
<1>3. Control'
  BY <1>2, ConstantsOK, MoveInPlace
     DEF Inv, Return, ownership, SameVM, Positions, InsidePositions
<1>4. QED
  BY <1>1, <1>3 DEF Inv

LEMMA WantOwnershipOK ==
    ASSUME Inv, NEW t \in Threads, image' = image, WantOwnership(t) PROVE Inv'
<1>1. TypeOK'
  BY ConstantsOK DEF Inv, TypeOK, WantOwnership, Goto, Positions, CTMStates, ownership, waiting
<1>2. Control'
  BY ConstantsOK, MoveInPlace
     DEF Inv, TypeOK, WantOwnership, ownership, SameVM, Positions, InsidePositions, Coming, Away
<1>3. QED
  BY <1>1, <1>2 DEF Inv

LEMMA SpinOK ==
    ASSUME Inv, NEW t \in Threads, image' = image, Spin(t) PROVE Inv'
<1>1. TypeOK'
  BY ZenonT(60), ConstantsOK DEF Inv, TypeOK, Spin, Goto, Positions, waiting
<1>2. PICK position \in {"bump", "dozing", "retry"} :
         Goto(t, position) /\ (position = "dozing" => vmOwner # t)
  BY DEF Spin
<1>3. Control'
  BY <1>2, ConstantsOK, MoveInPlace
     DEF Inv, Spin, SameVM, Positions, InsidePositions, Coming, Away
<1>4. QED
  BY <1>1, <1>3 DEF Inv

LEMMA WaitingPriorityOK ==
    ASSUME Inv, NEW t \in Threads, image' = image, WaitingPriorityIsAtLeast(t)
    PROVE  Inv'
<1>1. vm.threadPriority[t] \in Nat
  BY DEF Inv, TypeOK, VMStates
<1>2. TypeOK'
  BY <1>1, ConstantsOK
     DEF Inv, TypeOK, WaitingPriorityIsAtLeast, Goto, Positions, waiting
<1>3. Control'
  BY ConstantsOK, MoveInPlace
     DEF Inv, WaitingPriorityIsAtLeast, SameVM, Positions, InsidePositions, Coming, Away
<1>4. QED
  BY <1>2, <1>3 DEF Inv

-----------------------------------------------------------------------------
(* Steps that take the VM or give it up.                                   *)

LEMMA InsideOwnsVM ==
    ASSUME Control, NEW a \in Actors, Inside(a)
    PROVE  Owns(a)
BY DEF Control, InsideOwns, Owns, Actors, Threads

LEMMA TakeVM ==
    ASSUME TypeOK, Control, NEW a \in Actors, NEW position \in Positions,
           Goto(a, position),
           position \in {"relinquished?", "back", "pick"},
           vmOwner = Unowned \/ (a \in Threads /\ vmOwner = a),
           a = Heartbeat => vmOwner' = Anonymous,
           a # Heartbeat => vmOwner' = a,
           UNCHANGED <<calls, target, state, osSemaphore, vm>>,
           pc[a] # "signal",
           a \in Threads /\ position \in Coming => Away(a)
    PROVE  Control'
<1> USE DEF TypeOK, Goto
<1>1. pc' \in [Actors -> Positions] /\ pc'[a] = position
  OBVIOUS
<1>2. \A b \in Actors : b # a => pc'[b] = pc[b]
  OBVIOUS
<1>3. \A u \in Threads : Away(u)' => Away(u)
  BY ConstantsOK, <1>1, <1>2 DEF Away, HasTop, Top
<1>4. \A u \in Threads : u # a => vmOwner # u
  BY ConstantsOK
<1>5. InsideOwns'
  <2>1. ASSUME NEW b \in Actors, b # a PROVE ~Inside(b)'
    <3>1. ~Inside(b)
      BY <2>1, <1>4, ConstantsOK
         DEF Control, InsideOwns, Actors, Anonymous, Unowned, Threads
    <3>2. QED
      BY <1>2, <2>1, <3>1 DEF Inside
  <2>2. QED
    BY <2>1, ConstantsOK DEF InsideOwns
<1>6. KeptIsOwned'
  BY ConstantsOK, <1>1, <1>2, <1>4 DEF Control, KeptIsOwned, HasTop, Top
<1>7. KeptCallsBackOwned'
  BY DEF Control, KeptCallsBackOwned
<1>8. AwayCanReturn'
  BY <1>3 DEF Control, AwayCanReturn
<1>9. OwnerMayRun'
  BY ConstantsOK, <1>1 DEF OwnerMayRun, Owns
<1>10. OutsideIsUnavailable'
  BY ConstantsOK, <1>1, <1>2, <1>4 DEF Control, OutsideIsUnavailable
<1>11. DisowningIsActive'
  BY DEF Control, DisowningIsActive
<1>12. OwnerIsAwake'
  BY ConstantsOK, <1>1 DEF OwnerIsAwake, Asleep, Owns
<1>13. QED
  BY <1>5, <1>6, <1>7, <1>8, <1>9, <1>10, <1>11, <1>12 DEF Control

\* u takes over from a, or nobody does.
LEMMA GiveVM ==
    ASSUME TypeOK, Control, NEW a \in Actors, NEW u \in Threads \cup {Unowned},
           NEW position \in Positions,
           Goto(a, position), Owns(a), vmOwner' = u,
           \/ u \in Threads /\ position = "signal" /\ target' = [target EXCEPT ![a] = u]
           \/ u = Unowned /\ position \in {"loop", "test"} /\ target' = target,
           pc[a] # "signal",
           UNCHANGED <<calls, osSemaphore>>,
           \A w \in Threads : w # u => state'[w] = state[w],
           \A w \in Threads : w # a /\ Away(w) =>
              vm'.disowningVMThread = w \/ vm'.awolProcesses[w] # <<>>,
           u \in Threads /\ pc[u] = "outside" =>
              /\ vm'.activeProcess \in Processes
              /\ \A w \in Threads : w # a /\ w # u /\ Away(w) =>
                    vm'.disowningVMThread # w,
           DisowningIsActive'
    PROVE  Control'
<1> USE DEF TypeOK, Goto
<1>1. pc' \in [Actors -> Positions] /\ pc'[a] = position
  OBVIOUS
<1>2. \A b \in Actors : b # a => pc'[b] = pc[b]
  OBVIOUS
<1>3. position \in {"signal", "loop", "test"}
  OBVIOUS
<1>4. \A w \in Threads : Away(w)' => w # a /\ Away(w)
  BY ConstantsOK, <1>1, <1>2, <1>3 DEF Away, HasTop, Top, Coming
<1>5. \A w \in Threads : w # a => vmOwner # w
  BY ConstantsOK DEF Owns
<1>6. InsideOwns'
  <2>1. ~Inside(a)'
    BY <1>1, <1>3 DEF Inside, InsidePositions
  <2>2. ASSUME NEW b \in Actors, b # a PROVE ~Inside(b)'
    <3>1. ~Inside(b)
      BY <2>2, <1>5, ConstantsOK DEF Control, InsideOwns, Owns, Actors
    <3>2. QED
      BY <1>2, <2>2, <3>1 DEF Inside
  <2>3. QED
    BY <2>1, <2>2, ConstantsOK DEF InsideOwns
<1>7. KeptIsOwned'
  BY ConstantsOK, <1>1, <1>2, <1>3, <1>5 DEF Control, KeptIsOwned, HasTop, Top
<1>8. KeptCallsBackOwned'
  BY DEF Control, KeptCallsBackOwned
<1>9. AwayCanReturn'
  BY <1>4 DEF AwayCanReturn
<1>10. OwnerMayRun'
  <2>1. SUFFICES ASSUME NEW w \in Threads, vmOwner' = w,
                        pc'[w] \in {"running", "cede", "ceding", "outside"}
                 PROVE  /\ vm'.activeProcess \in Processes
                        /\ \A x \in Threads :
                              Away(x)' /\ vm'.disowningVMThread = x => x = w
    BY DEF OwnerMayRun
  <2>2. w = u /\ u \in Threads /\ w # a /\ pc[w] = pc'[w]
    BY ConstantsOK, <1>1, <1>2, <1>3, <2>1
  <2>3. pc[w] = "outside"
    BY <1>5, <2>1, <2>2 DEF Control, InsideOwns, Inside, InsidePositions
  <2>4. QED
    BY <1>4, <2>2, <2>3
<1>11. OutsideIsUnavailable'
  BY ConstantsOK, <1>1, <1>2, <1>3, <1>5 DEF Control, OutsideIsUnavailable
<1>12. OwnerIsAwake'
  <2>1. SUFFICES ASSUME NEW w \in Threads, vmOwner' = w, Asleep(w)'
                 PROVE  \E b \in Actors : pc'[b] = "signal" /\ target'[b] = w
    BY DEF OwnerIsAwake
  <2>2. target'[a] = w /\ pc'[a] = "signal"
    BY ConstantsOK, <1>1, <2>1
  <2>3. QED
    BY <2>2
<1>13. QED
  BY <1>6, <1>7, <1>8, <1>9, <1>10, <1>11, <1>12 DEF Control

LEMMA LookAtOK ==
    ASSUME Inv, NEW t \in Threads, NEW at, NEW got \in {"relinquished?", "back"},
           NEW failed \in {"test", "want", "spin"},
           at # "signal", {got, failed} \cap Coming # {} => at \in Coming,
           image' = image, LookAt(t, at, t, got, failed)
    PROVE  Inv'
<1>1. TypeOK'
  BY ZenonT(60), ConstantsOK DEF Inv, TypeOK, LookAt, Goto, Positions, waiting
<1>2. pc[t] = at /\ UNCHANGED <<calls, target, state, osSemaphore, vm>>
  BY DEF LookAt
<1>3. at \in Coming => Away(t)
  BY <1>2 DEF Away
<1>4. CASE vmOwner = Unowned \/ vmOwner = t
  <2>1. vmOwner' = t /\ Goto(t, got)
    BY ConstantsOK, <1>4 DEF LookAt, Threads
  <2>2. t # Heartbeat
    BY ConstantsOK
  <2>3. got \in Positions /\ (got \in Coming => Away(t)) /\ pc[t] # "signal"
    BY <1>2, <1>3 DEF Positions
  <2>4. Control'
    BY ConstantsOK, <1>2, <1>4, <2>1, <2>2, <2>3, TakeVM DEF Inv
  <2>5. QED
    BY <1>1, <2>4 DEF Inv
<1>5. CASE ~(vmOwner = Unowned \/ vmOwner = t)
  <2>1. vmOwner' = vmOwner /\ Goto(t, failed)
    BY ConstantsOK, <1>5 DEF LookAt, Threads
  <2>2. Control'
    BY ConstantsOK, <1>2, <1>3, <2>1, MoveInPlace
       DEF Inv, Positions, SameVM, InsidePositions
  <2>3. QED
    BY <1>1, <2>2 DEF Inv
<1>6. QED
  BY <1>4, <1>5

LEMMA HeartbeatLooksOK ==
    ASSUME Inv, image' = image, LookAt(Heartbeat, "look", Anonymous, "pick", "loop")
    PROVE  Inv'
<1>1. TypeOK'
  BY ConstantsOK DEF Inv, TypeOK, LookAt, Goto, Positions, waiting
<1>2. pc[Heartbeat] = "look" /\ UNCHANGED <<calls, target, state, osSemaphore, vm>>
  BY DEF LookAt
<1>3. CASE vmOwner = Unowned
  <2>1. vmOwner' = Anonymous /\ Goto(Heartbeat, "pick")
    BY <1>3 DEF LookAt
  <2>2. "pick" \in Positions /\ pc[Heartbeat] # "signal"
    BY <1>2 DEF Positions
  <2>3. Control'
    BY ConstantsOK, <1>2, <1>3, <2>1, <2>2, TakeVM DEF Inv
  <2>4. QED
    BY <1>1, <2>3 DEF Inv
<1>4. CASE vmOwner # Unowned
  <2>1. vmOwner' = vmOwner /\ Goto(Heartbeat, "loop")
    BY <1>4 DEF LookAt, Anonymous
  <2>2. Control'
    BY ConstantsOK, <1>2, <2>1, MoveInPlace
       DEF Inv, Positions, SameVM, InsidePositions, Coming
  <2>3. QED
    BY <1>1, <2>2 DEF Inv
<1>5. QED
  BY <1>3, <1>4

LEMMA HeedRelinquishingOK ==
    ASSUME Inv, NEW t \in Threads, image' = image, HeedRelinquishing(t) PROVE Inv'
<1>1. TypeOK'
  BY SMTT(40), ConstantsOK
     DEF Inv, TypeOK, HeedRelinquishing, Release, Keep, Goto, Positions, waiting
<1>2. /\ pc[t] = "relinquished?" /\ Owns(t)
      /\ UNCHANGED <<calls, state, osSemaphore, vm>>
  BY ConstantsOK, InsideOwnsVM
     DEF Inv, HeedRelinquishing, Inside, InsidePositions
<1>3. CASE relinquishing
  <2>1. Goto(t, "test") /\ vmOwner' = Unowned /\ target' = target
    BY <1>3 DEF HeedRelinquishing, Release
  <2>2. \A w \in Threads : w # t /\ Away(w) =>
           vm'.disowningVMThread = w \/ vm'.awolProcesses[w] # <<>>
    BY <1>2 DEF Inv, Control, AwayCanReturn
  <2>3. DisowningIsActive' /\ Unowned \notin Threads /\ "test" \in Positions
    BY <1>2, ConstantsOK DEF Inv, Control, DisowningIsActive, Positions
  <2>4. Control'
    BY ConstantsOK, <1>2, <2>1, <2>2, <2>3, GiveVM DEF Inv
  <2>5. QED
    BY <1>1, <2>4 DEF Inv
<1>4. CASE ~relinquishing
  <2>1. Goto(t, "execute") /\ UNCHANGED <<vmOwner, target>>
    BY <1>4 DEF HeedRelinquishing, Keep
  <2>2. Control'
    BY ConstantsOK, <1>2, <2>1, MoveInPlace DEF Inv, SameVM, Positions, Coming
  <2>3. QED
    BY <1>1, <2>2 DEF Inv
<1>5. QED
  BY <1>3, <1>4

LEMMA WillingStates ==
    ASSUME NEW t, IsWilling(t)
    PROVE  t \in Threads /\ state[t] \in {"WantingOwnership", "AssignableOrInVM"}
BY DEF IsWilling, IsFirstHighest, InState

LEMMA EnsureRunningOK ==
    ASSUME Inv, image' = image, EnsureRunningVMThread PROVE Inv'
<1>1. /\ pc[Heartbeat] = "pick" /\ Owns(Heartbeat)
      /\ UNCHANGED <<calls, state, osSemaphore, vm, vmOwnerLock, waiting,
                     relinquishing, candidate>>
  BY ConstantsOK, InsideOwnsVM DEF Inv, EnsureRunningVMThread, Inside, InsidePositions
<1>2. relinquished' = FALSE
  BY DEF EnsureRunningVMThread
<1>3. \/ Release(Heartbeat, "loop")
      \/ \E t \in Threads : /\ state[t] \in {"nil", "WantingOwnership", "AssignableOrInVM"}
                             /\ GiveTo(Heartbeat, t)
  <2>1. CASE \E t \in Threads : IsWilling(t)
    BY <2>1, WillingStates DEF EnsureRunningVMThread
  <2>2. CASE ~\E t \in Threads : IsWilling(t)
    <3> DEFINE unused == {t \in Threads : state[t] = "nil"}
    <3>1. IF relinquished \/ unused = {}
          THEN Release(Heartbeat, "loop")
          ELSE \E t \in unused : GiveTo(Heartbeat, t)
      BY <2>2 DEF EnsureRunningVMThread
    <3>2. QED
      BY <3>1
  <2>3. QED
    BY <2>1, <2>2
<1>4. TypeOK'
  <2>1. /\ vmOwner' \in Threads \cup {Unowned, Anonymous}
        /\ target' \in [Actors -> Threads \cup {NoThread}]
        /\ pc' \in [Actors -> Positions]
    BY ConstantsOK, <1>3 DEF Inv, TypeOK, Release, GiveTo, Goto, Positions
  <2>2. QED
    BY <1>1, <1>2, <2>1 DEF Inv, TypeOK, waiting
<1>5. \A w \in Threads : w # Heartbeat /\ Away(w) =>
         vm'.disowningVMThread = w \/ vm'.awolProcesses[w] # <<>>
  BY <1>1 DEF Inv, Control, AwayCanReturn
<1>6. DisowningIsActive'
  BY <1>1 DEF Inv, Control, DisowningIsActive
<1>7. CASE Release(Heartbeat, "loop")
  <2>1. Goto(Heartbeat, "loop") /\ vmOwner' = Unowned /\ target' = target
    BY <1>7 DEF Release
  <2>2. Control'
    BY ConstantsOK, <1>1, <1>5, <1>6, <2>1, GiveVM DEF Inv, Positions
  <2>3. QED
    BY <1>4, <2>2 DEF Inv
<1>8. ASSUME NEW t \in Threads, GiveTo(Heartbeat, t),
             state[t] \in {"nil", "WantingOwnership", "AssignableOrInVM"}
      PROVE  Inv'
  <2>1. /\ Goto(Heartbeat, "signal") /\ vmOwner' = t
        /\ target' = [target EXCEPT ![Heartbeat] = t]
    BY <1>8 DEF GiveTo
  <2>2. pc[t] # "outside"
    BY ConstantsOK, <1>1, <1>8 DEF Inv, Control, OutsideIsUnavailable, Owns
  <2>3. "signal" \in Positions /\ pc[Heartbeat] # "signal"
    BY <1>1 DEF Positions
  <2>4. Control'
    BY ConstantsOK, <1>1, <1>5, <1>6, <2>1, <2>2, <2>3, GiveVM DEF Inv
  <2>5. QED
    BY <1>4, <2>4 DEF Inv
<1>9. QED
  BY <1>3, <1>7, <1>8

-----------------------------------------------------------------------------
(* Steps of the owner that runs the image, or goes on to.                  *)

LEMMA RunOn ==
    ASSUME TypeOK, Control, NEW t \in Threads, vmOwner = t, pc[t] # "signal",
           NEW position \in {"running", "cede"}, Goto(t, position),
           UNCHANGED <<vmOwner, target, osSemaphore>>,
           \A w \in Threads : w # t => state'[w] = state[w] /\ calls'[w] = calls[w],
           OwnedOverKept(calls'[t]),
           vm'.activeProcess \in Processes,
           \A w \in Threads : w # t /\ Away(w) =>
              vm'.disowningVMThread # w /\ vm'.awolProcesses[w] # <<>>
    PROVE  Control'
<1> USE DEF TypeOK, Goto
<1>1. pc' \in [Actors -> Positions] /\ pc'[t] = position
  BY ConstantsOK DEF Positions
<1>2. \A b \in Actors : b # t => pc'[b] = pc[b]
  OBVIOUS
<1>3. \A w \in Threads : Away(w)' => w # t /\ Away(w)
  BY ConstantsOK, <1>1, <1>2 DEF Away, HasTop, Top, Coming
<1>4. InsideOwns'
  BY ConstantsOK, <1>1, <1>2 DEF Control, InsideOwns, Inside
<1>5. KeptIsOwned'
  BY SMTT(40), ConstantsOK, <1>1, <1>2 DEF Control, KeptIsOwned, HasTop, Top
<1>6. KeptCallsBackOwned'
  BY DEF Control, KeptCallsBackOwned
<1>7. AwayCanReturn'
  BY <1>3 DEF AwayCanReturn
<1>8. OwnerMayRun'
  BY ConstantsOK, <1>1, <1>3 DEF OwnerMayRun
<1>9. OutsideIsUnavailable'
  BY ConstantsOK, <1>1, <1>2 DEF Control, OutsideIsUnavailable
<1>10. DisowningIsActive'
  BY DEF DisowningIsActive
<1>11. OwnerIsAwake'
  BY ConstantsOK, <1>1, <1>2 DEF Control, OwnerIsAwake, Asleep
<1>12. QED
  BY <1>4, <1>5, <1>6, <1>7, <1>8, <1>9, <1>10, <1>11 DEF Control

\* A running thread leaves the VM: it gives it up, or stays its owner.
LEMMA GoOut ==
    ASSUME TypeOK, Control, NEW t \in Threads, vmOwner = t, pc[t] = "running",
           Goto(t, "outside"), vmOwner' \in {Unowned, t},
           UNCHANGED <<target, osSemaphore>>,
           \A w \in Threads : w # t => state'[w] = state[w] /\ calls'[w] = calls[w],
           OwnedOverKept(calls'[t]),
           HasTop(t, "unthreaded")' => vmOwner' = t,
           vmOwner' = t \/ state'[t] = "Unavailable",
           vm'.activeProcess = vm.activeProcess,
           vm'.awolProcesses = vm.awolProcesses,
           \/ vm'.disowningVMThread = t
           \/ vm' = vm /\ HasTop(t, "unthreaded")'
    PROVE  Control'
<1> USE DEF TypeOK, Goto
<1>1. pc' \in [Actors -> Positions] /\ pc'[t] = "outside"
  BY ConstantsOK DEF Positions
<1>2. \A b \in Actors : b # t => pc'[b] = pc[b]
  OBVIOUS
<1>3. \A w \in Threads : Away(w)' =>
         IF w = t THEN vm'.disowningVMThread = t ELSE Away(w)
  BY ConstantsOK, <1>1, <1>2 DEF Away, HasTop, Top, Coming
<1>4. /\ vm.activeProcess \in Processes
      /\ \A u \in Threads : Away(u) /\ vm.disowningVMThread = u => u = t
  BY DEF Control, OwnerMayRun
<1>5. InsideOwns'
  <2>1. ASSUME NEW b \in Actors, b # t PROVE ~Inside(b)'
    <3>1. ~Inside(b)
      BY <2>1, ConstantsOK DEF Control, InsideOwns, Actors
    <3>2. QED
      BY <1>2, <2>1, <3>1 DEF Inside
  <2>2. QED
    BY <1>1, <2>1, ConstantsOK DEF InsideOwns, Inside, InsidePositions
<1>6. KeptIsOwned'
  BY ConstantsOK, <1>1, <1>2 DEF Control, KeptIsOwned, HasTop, Top
<1>7. KeptCallsBackOwned'
  BY DEF Control, KeptCallsBackOwned
<1>8. AwayCanReturn'
  BY <1>3, <1>4 DEF Control, AwayCanReturn
<1>9. OwnerMayRun'
  BY ZenonT(60), ConstantsOK, <1>1, <1>3, <1>4 DEF OwnerMayRun
<1>10. OutsideIsUnavailable'
  BY ConstantsOK, <1>1, <1>2 DEF Control, OutsideIsUnavailable
<1>11. DisowningIsActive'
  BY <1>4 DEF DisowningIsActive
<1>12. OwnerIsAwake'
  BY ConstantsOK, <1>1, <1>2 DEF Control, OwnerIsAwake, Asleep
<1>13. QED
  BY <1>5, <1>6, <1>7, <1>8, <1>9, <1>10, <1>11, <1>12 DEF Control

LEMMA PopStack ==
    ASSUME NEW stack \in Seq(Calls), OwnedOverKept(stack)
    PROVE  LET rest == SubSeq(stack, 1, Len(stack) - 1)
           IN rest \in Seq(Calls) /\ OwnedOverKept(rest)
BY DEF OwnedOverKept

LEMMA PushStack ==
    ASSUME NEW stack \in Seq(Calls), OwnedOverKept(stack), NEW call \in Calls,
           \/ call.kind # "callback"
           \/ call.owned
           \/ stack # <<>> /\ stack[Len(stack)].kind # "unthreaded"
    PROVE  Append(stack, call) \in Seq(Calls) /\ OwnedOverKept(Append(stack, call))
BY DEF OwnedOverKept

LEMMA OwnerFacts ==
    ASSUME Control, NEW t \in Threads, pc[t] \in {"running", "cede", "ceding"}
    PROVE  /\ vmOwner = t /\ Owns(t)
           /\ vm.activeProcess \in Processes
           /\ OwnedOverKept(calls[t])
<1>1. vmOwner = t
  BY DEF Control, InsideOwns, Inside, InsidePositions
<1>2. QED
  BY <1>1, ConstantsOK DEF Control, OwnerMayRun, KeptCallsBackOwned, Owns

\* The threads that are away do not depend on the disowning one being them.
LEMMA OthersCanReturn ==
    ASSUME Control, NEW t \in Threads, vmOwner = t,
           pc[t] \in {"running", "cede", "ceding", "outside"},
           NEW w \in Threads, w # t, Away(w)
    PROVE  vm.disowningVMThread # w /\ vm.awolProcesses[w] # <<>>
BY DEF Control, OwnerMayRun, AwayCanReturn

TypeOfSwitch ==
    /\ vmOwner' \in Threads \cup {Unowned, Anonymous}
    /\ pc' \in [Actors -> Positions]
    /\ target' \in [Actors -> Threads \cup {NoThread}]
    /\ state' \in [Threads -> CTMStates]
    /\ checkThreadActivation' \in BOOLEAN
    /\ vm' \in VMStates

LEMMA ThreadSwitchOK ==
    ASSUME TypeOK, Control, NEW t \in Threads, pc[t] \in {"running", "cede", "ceding"},
           NEW v \in VMStates, v.activeProcess \in Processes,
           v.disowningVMThread = vm.disowningVMThread,
           v.awolProcesses = vm.awolProcesses,
           NEW p \in Processes,
           ThreadSwitchIfNecessary(t, v, p), UNCHANGED <<calls, osSemaphore>>
    PROVE  Control' /\ TypeOfSwitch
<1> DEFINE u == v.ownerIndex[p]
<1>1. u \in Threads \cup {NoThread}
  BY DEF VMStates
<1>2. vmOwner = t /\ Owns(t) /\ OwnedOverKept(calls[t])
  BY OwnerFacts
<1>3. \A w \in Threads : w # t /\ Away(w) =>
         v.disowningVMThread # w /\ v.awolProcesses[w] # <<>>
  BY <1>2, OthersCanReturn
<1>4. CASE u \notin {NoThread, vmOwner}
  <2>1. /\ vm' = [v EXCEPT !.activeAffined = TRUE, !.threadPriority[u] = priority[p]]
        /\ state' = [state EXCEPT ![u] = IF @ = "Unavailable"
                                         THEN "WantingOwnership" ELSE @]
        /\ GiveTo(t, u)
        /\ UNCHANGED checkThreadActivation
    BY <1>4 DEF ThreadSwitchIfNecessary
  <2>2. u \in Threads
    BY <1>1, <1>4
  <2>3. /\ vm' \in VMStates
        /\ vm'.activeProcess = v.activeProcess
        /\ vm'.disowningVMThread = v.disowningVMThread
        /\ vm'.awolProcesses = v.awolProcesses
    BY <2>1, ConstantsOK DEF VMStates
  <2> HIDE DEF u
  <2>4. TypeOfSwitch
    BY <2>1, <2>2, <2>3, ConstantsOK
       DEF TypeOK, TypeOfSwitch, GiveTo, Goto, Positions, CTMStates
  <2>5. \A w \in Threads : w # u => state'[w] = state[w]
    BY <2>1 DEF TypeOK
  <2>6. /\ Goto(t, "signal") /\ vmOwner' = u
        /\ target' = [target EXCEPT ![t] = u] /\ "signal" \in Positions
    BY <2>1 DEF GiveTo, Positions
  <2>7. DisowningIsActive'
    BY <2>3 DEF DisowningIsActive
  <2>8. Control'
    BY ConstantsOK, <1>2, <1>3, <2>2, <2>3, <2>5, <2>6, <2>7, GiveVM
  <2>9. QED
    BY <2>4, <2>8
<1>5. CASE u \in {NoThread, vmOwner}
  <2>1. /\ vm' = [v EXCEPT !.activeAffined = (u # NoThread)]
        /\ checkThreadActivation' =
              (checkThreadActivation \/ priority[p] < maxWaitingPriority)
        /\ Keep(t, "running")
        /\ UNCHANGED state
    BY <1>5 DEF ThreadSwitchIfNecessary
  <2> HIDE DEF u
  <2>2. /\ vm' \in VMStates
        /\ vm'.activeProcess = v.activeProcess
        /\ vm'.disowningVMThread = v.disowningVMThread
        /\ vm'.awolProcesses = v.awolProcesses
    BY <2>1 DEF VMStates
  <2>3. TypeOfSwitch
    <3>1. checkThreadActivation' \in BOOLEAN
      BY <2>1 DEF TypeOK
    <3>2. QED
      BY <2>1, <2>2, <3>1, ConstantsOK DEF TypeOK, TypeOfSwitch, Keep, Goto, Positions
  <2>4. Goto(t, "running") /\ UNCHANGED <<vmOwner, target>>
    BY <2>1 DEF Keep
  <2>5. Control'
    BY <1>2, <1>3, <2>1, <2>2, <2>4, RunOn
  <2>6. QED
    BY <2>3, <2>5
<1>6. QED
  BY <1>4, <1>5

\* The owner gives the VM to u and stops running the image.
LEMMA OwnerGivesOK ==
    ASSUME TypeOK, Control, NEW t \in Threads, pc[t] \in {"running", "cede", "ceding"},
           NEW v \in VMStates, v.activeProcess \in Processes,
           v.disowningVMThread = vm.disowningVMThread,
           v.awolProcesses = vm.awolProcesses,
           NEW u \in Threads, GiveTo(t, u), vm' = v,
           UNCHANGED <<calls, osSemaphore, state>>
    PROVE  /\ Control'
           /\ vmOwner' \in Threads \cup {Unowned, Anonymous}
           /\ pc' \in [Actors -> Positions]
           /\ target' \in [Actors -> Threads \cup {NoThread}]
<1>1. vmOwner = t /\ Owns(t)
  BY OwnerFacts
<1>2. \A w \in Threads : w # t /\ Away(w) =>
         v.disowningVMThread # w /\ v.awolProcesses[w] # <<>>
  BY <1>1, OthersCanReturn
<1>3. /\ Goto(t, "signal") /\ vmOwner' = u
      /\ target' = [target EXCEPT ![t] = u] /\ "signal" \in Positions
  BY DEF GiveTo, Positions
<1>4. DisowningIsActive'
  BY DEF DisowningIsActive
<1>5. Control'
  BY ConstantsOK, <1>1, <1>2, <1>3, <1>4, GiveVM
<1>6. QED
  BY ConstantsOK, <1>3, <1>5 DEF TypeOK, Goto

LEMMA TransferOK ==
    ASSUME TypeOK, Control, NEW t \in Threads, pc[t] = "running",
           NEW v \in VMStates, v.activeProcess \in Processes,
           v.disowningVMThread = vm.disowningVMThread,
           v.awolProcesses = vm.awolProcesses,
           v.activeProcess = vm.activeProcess,
           TransferToHighest(t, v), UNCHANGED <<calls, osSemaphore>>
    PROVE  Control' /\ TypeOfSwitch
<1>1. ASSUME NEW p \in Processes, ThreadSwitchIfNecessary(t, SetActive(v, p), p)
      PROVE  Control' /\ TypeOfSwitch
  <2>1. /\ SetActive(v, p) \in VMStates
        /\ SetActive(v, p).activeProcess = p
        /\ SetActive(v, p).disowningVMThread = vm.disowningVMThread
        /\ SetActive(v, p).awolProcesses = vm.awolProcesses
    BY SetActiveType
  <2>2. QED
    BY <1>1, <2>1, ThreadSwitchOK
<1>2. ASSUME vm' = v, UNCHANGED <<state, checkThreadActivation>>,
             NEW u \in Threads, GiveTo(t, u)
      PROVE  Control' /\ TypeOfSwitch
  <2>1. /\ Control'
        /\ vmOwner' \in Threads \cup {Unowned, Anonymous}
        /\ pc' \in [Actors -> Positions]
        /\ target' \in [Actors -> Threads \cup {NoThread}]
    BY <1>2, OwnerGivesOK
  <2>2. QED
    BY <1>2, <2>1 DEF TypeOfSwitch, TypeOK
<1>3. ASSUME vm' = v, UNCHANGED <<state, checkThreadActivation>>, Keep(t, "aborted")
      PROVE  Control' /\ TypeOfSwitch
  <2>1. SameVM
    BY <1>3 DEF SameVM
  <2>2. Goto(t, "aborted") /\ UNCHANGED <<vmOwner, target>>
    BY <1>3 DEF Keep
  <2>3. /\ "aborted" \in Positions
        /\ "aborted" \notin InsidePositions \cup Coming \cup {"outside"}
    BY DEF Positions, InsidePositions, Coming
  <2>4. Control'
    BY ConstantsOK, <1>3, <2>1, <2>2, <2>3, MoveInPlace
  <2>5. QED
    BY ConstantsOK, <1>3, <2>2, <2>3, <2>4 DEF TypeOfSwitch, TypeOK, Goto
<1>4. QED
  BY <1>1, <1>2, <1>3 DEF TransferToHighest

LEMMA BlockOK ==
    ASSUME Inv, NEW t \in Threads, image' = image, Block(t) PROVE Inv'
<1> DEFINE v == [vm EXCEPT !.myList[vm.activeProcess] = "blocked"]
<1>1. /\ pc[t] = "running" /\ TransferToHighest(t, v)
      /\ UNCHANGED <<vmOwnerLock, osSemaphore, maxWaitingPriority, relinquishing,
                     relinquished, calls, candidate>>
  BY DEF Block
<1>2. vm.activeProcess \in Processes
  BY <1>1, OwnerFacts DEF Inv
<1>3. /\ v \in VMStates
      /\ v.activeProcess = vm.activeProcess
      /\ v.disowningVMThread = vm.disowningVMThread
      /\ v.awolProcesses = vm.awolProcesses
  BY <1>2 DEF Inv, TypeOK, VMStates
<1> HIDE DEF v
<1>4. Control' /\ TypeOfSwitch
  BY <1>1, <1>2, <1>3, TransferOK DEF Inv
<1>5. QED
  BY <1>1, <1>4 DEF Inv, TypeOK, TypeOfSwitch

LEMMA WakeOK ==
    ASSUME Inv, NEW t \in Threads, image' = image, Wake(t) PROVE Inv'
<1>1. /\ pc[t] = "running"
      /\ UNCHANGED <<vmOwnerLock, osSemaphore, maxWaitingPriority, relinquishing,
                     relinquished, calls, candidate>>
  BY DEF Wake
<1>2. PICK q \in Processes :
         LET v == Resumed(vm, q)
         IN IF v.activeProcess = q
            THEN ThreadSwitchIfNecessary(t, v, q)
            ELSE /\ vm' = v
                 /\ Keep(t, "running")
                 /\ UNCHANGED <<state, checkThreadActivation>>
  BY DEF Wake
<1> DEFINE v == Resumed(vm, q)
<1>3. vm.activeProcess \in Processes /\ vmOwner = t /\ OwnedOverKept(calls[t])
  BY <1>1, OwnerFacts DEF Inv
<1>4. /\ v \in VMStates
      /\ v.activeProcess \in Processes
      /\ v.disowningVMThread = vm.disowningVMThread
      /\ v.awolProcesses = vm.awolProcesses
  BY <1>3, ResumedType DEF Inv, TypeOK
<1> HIDE DEF v
<1>5. CASE v.activeProcess = q
  <2>1. ThreadSwitchIfNecessary(t, v, q)
    BY <1>2, <1>5 DEF v
  <2>2. Control' /\ TypeOfSwitch
    BY <1>1, <1>4, <2>1, ThreadSwitchOK DEF Inv
  <2>3. QED
    BY <1>1, <2>2 DEF Inv, TypeOK, TypeOfSwitch
<1>6. CASE v.activeProcess # q
  <2>1. /\ vm' = v /\ Goto(t, "running")
        /\ UNCHANGED <<vmOwner, target, state, checkThreadActivation>>
    BY <1>2, <1>6 DEF v, Keep
  <2>2. \A w \in Threads : w # t /\ Away(w) =>
           vm'.disowningVMThread # w /\ vm'.awolProcesses[w] # <<>>
    BY <1>1, <1>3, <1>4, <2>1, OthersCanReturn DEF Inv
  <2>3. Control'
    BY <1>1, <1>3, <1>4, <2>1, <2>2, RunOn DEF Inv
  <2>4. TypeOK'
    BY ConstantsOK, <1>1, <1>4, <2>1 DEF Inv, TypeOK, Goto, Positions
  <2>5. QED
    BY <2>3, <2>4 DEF Inv
<1>7. QED
  BY <1>5, <1>6

LEMMA CheckForEventsOK ==
    ASSUME Inv, NEW t \in Threads, image' = image, CheckForEvents(t) PROVE Inv'
<1>1. /\ pc[t] = "running"
      /\ UNCHANGED <<vmOwnerLock, osSemaphore, maxWaitingPriority, relinquishing,
                     relinquished, calls, candidate>>
  BY DEF CheckForEvents
<1>2. PICK v \in {vm} \cup {Resumed(vm, q) : q \in {p \in Processes :
                                                    vm.myList[p] = "blocked"}} :
         IF checkThreadActivation
         THEN /\ vm' = v
              /\ checkThreadActivation' = FALSE
              /\ Keep(t, "cede")
              /\ UNCHANGED state
         ELSE ThreadSwitchIfNecessary(t, v, v.activeProcess)
  BY DEF CheckForEvents
<1>3. vm.activeProcess \in Processes /\ vmOwner = t /\ OwnedOverKept(calls[t])
  BY <1>1, OwnerFacts DEF Inv
<1>4. /\ v \in VMStates
      /\ v.activeProcess \in Processes
      /\ v.disowningVMThread = vm.disowningVMThread
      /\ v.awolProcesses = vm.awolProcesses
  BY <1>3, ResumedType DEF Inv, TypeOK
<1>5. CASE ~checkThreadActivation
  <2>1. Control' /\ TypeOfSwitch
    BY <1>1, <1>2, <1>4, <1>5, ThreadSwitchOK DEF Inv
  <2>2. QED
    BY <1>1, <2>1 DEF Inv, TypeOK, TypeOfSwitch
<1>6. CASE checkThreadActivation
  <2>1. /\ vm' = v /\ Goto(t, "cede") /\ checkThreadActivation' = FALSE
        /\ UNCHANGED <<vmOwner, target, state>>
    BY <1>2, <1>6 DEF Keep
  <2>2. \A w \in Threads : w # t /\ Away(w) =>
           vm'.disowningVMThread # w /\ vm'.awolProcesses[w] # <<>>
    BY <1>1, <1>3, <1>4, <2>1, OthersCanReturn DEF Inv
  <2>3. Control'
    BY <1>1, <1>3, <1>4, <2>1, <2>2, RunOn DEF Inv
  <2>4. TypeOK'
    BY ConstantsOK, <1>1, <1>4, <2>1 DEF Inv, TypeOK, Goto, Positions
  <2>5. QED
    BY <2>3, <2>4 DEF Inv
<1>7. QED
  BY <1>5, <1>6

LEMMA CedeToHigherOK ==
    ASSUME Inv, NEW t \in Threads, image' = image, CedeToHigherPriorityThreads(t)
    PROVE  Inv'
<1>1. /\ pc[t] = "cede" /\ Goto(t, "ceding")
      /\ vm' = [vm EXCEPT !.threadPriority[ActiveThread(t)] = priority[vm.activeProcess]]
      /\ UNCHANGED <<vmOwner, vmOwnerLock, target, osSemaphore, state, waiting,
                     relinquishing, relinquished, calls>>
  BY DEF CedeToHigherPriorityThreads, ownership
<1>2. Owns(t) /\ vm.activeProcess \in Processes
  BY <1>1, OwnerFacts DEF Inv
<1>3. ActiveThread(t) \in Threads /\ priority[vm.activeProcess] \in Nat
  BY <1>2, ConstantsOK DEF Inv, TypeOK, VMStates, ActiveThread
<1>4. vm' \in VMStates /\ SameVM
  BY <1>1, <1>3 DEF Inv, TypeOK, VMStates, SameVM
<1>5. candidate' \in [thread : Threads \cup {NoThread}, next : Nat]
  <2>1. \A u \in Threads : vm'.threadPriority[u] \in Nat
    BY <1>4 DEF VMStates
  <2>2. \/ candidate' = NoCandidate
        \/ \E h \in Threads : \E n \in {vm'.threadPriority[u] : u \in Threads} \cup {0} :
              candidate' = [thread |-> h, next |-> n]
    BY <1>1 DEF CedeToHigherPriorityThreads
  <2>3. QED
    BY <2>1, <2>2 DEF NoCandidate
<1>6. TypeOK'
  BY <1>1, <1>4, <1>5, ConstantsOK DEF Inv, TypeOK, Goto, Positions, waiting
<1>7. Control'
  BY <1>1, <1>2, <1>4, ConstantsOK, MoveInPlace
     DEF Inv, Positions, InsidePositions, Coming
<1>8. QED
  BY <1>6, <1>7 DEF Inv

LEMMA CedeOK ==
    ASSUME Inv, NEW t \in Threads, image' = image, Cede(t) PROVE Inv'
<1> DEFINE h == candidate.thread
           p == vm.activeProcess
<1>1. /\ pc[t] = "ceding" /\ candidate' = NoCandidate
      /\ UNCHANGED <<vmOwnerLock, osSemaphore, relinquishing, relinquished, calls>>
  BY DEF Cede
<1>2. p \in Processes /\ vm \in VMStates
  BY <1>1, OwnerFacts DEF Inv, TypeOK
<1>3. maxWaitingPriority' \in Nat /\ candidate' \in [thread : Threads \cup {NoThread}, next : Nat]
  <2>1. priority[p] \in Nat /\ candidate.next \in Nat /\ maxWaitingPriority \in Nat
    BY <1>2, ConstantsOK DEF Inv, TypeOK
  <2>2. h # NoThread => vm.threadPriority[h] \in Nat
    BY <1>2 DEF Inv, TypeOK, VMStates
  <2>3. QED
    BY <1>1, <2>1, <2>2 DEF Cede, LesserOf, NoCandidate
<1>4. CASE h \in {NoThread, ActiveThread(t)}
  <2>1. ThreadSwitchIfNecessary(t, vm, p)
    BY <1>4 DEF Cede
  <2>2. Control' /\ TypeOfSwitch
    BY <1>1, <1>2, <2>1, ThreadSwitchOK DEF Inv
  <2>3. QED
    BY <1>1, <1>3, <2>2 DEF Inv, TypeOK, TypeOfSwitch
<1>5. CASE h \notin {NoThread, ActiveThread(t)}
  <2>1. /\ vm' = MakeReady(vm, p) /\ GiveTo(t, h)
        /\ UNCHANGED <<state, checkThreadActivation>>
    BY <1>5 DEF Cede
  <2>2. h \in Threads
    BY <1>5 DEF Inv, TypeOK
  <2> DEFINE v == MakeReady(vm, p)
  <2>3. /\ v \in VMStates
        /\ v.activeProcess = p
        /\ v.disowningVMThread = vm.disowningVMThread
        /\ v.awolProcesses = vm.awolProcesses
    BY <1>2, MakeReadyType
  <2> HIDE DEF v, h
  <2>4. /\ Control'
        /\ vmOwner' \in Threads \cup {Unowned, Anonymous}
        /\ pc' \in [Actors -> Positions]
        /\ target' \in [Actors -> Threads \cup {NoThread}]
    <3>1. vm' = v
      BY <2>1 DEF v
    <3>2. QED
      BY <1>1, <1>2, <2>1, <2>2, <2>3, <3>1, OwnerGivesOK DEF Inv
  <2>5. vm' \in VMStates
    BY <2>1, <2>3 DEF v
  <2>6. QED
    BY <1>1, <1>3, <2>1, <2>4, <2>5 DEF Inv, TypeOK
<1>6. QED
  BY <1>4, <1>5

-----------------------------------------------------------------------------
(* Bringing the image's processes back.                                    *)

\* Once the disowning thread has been preempted every thread that is away has
\* a process to bring back.
LEMMA PreemptedOK ==
    ASSUME TypeOK, Control
    PROVE  /\ Preempted(vm) \in VMStates
           /\ Preempted(vm).activeProcess = vm.activeProcess
           /\ Preempted(vm).disowningVMThread = NoThread
           /\ \A w \in Threads : Away(w) => Preempted(vm).awolProcesses[w] # <<>>
<1>1. vm \in VMStates
  BY DEF TypeOK
<1>2. \A w \in Threads : Away(w) =>
         vm.disowningVMThread = w \/ vm.awolProcesses[w] # <<>>
  BY DEF Control, AwayCanReturn
<1>3. CASE vm.disowningVMThread = NoThread
  BY <1>1, <1>2, <1>3, ConstantsOK DEF Preempted
<1>4. CASE vm.disowningVMThread # NoThread
  <2>1. vm.activeProcess \in Processes
    BY <1>4 DEF Control, DisowningIsActive
  <2> DEFINE v == PreemptDisowningThread(vm)
  <2>2. /\ v \in VMStates
        /\ v.activeProcess = vm.activeProcess
        /\ v.disowningVMThread = NoThread
        /\ v.awolProcesses[vm.disowningVMThread] # <<>>
        /\ \A t \in Threads : t # vm.disowningVMThread =>
              v.awolProcesses[t] = vm.awolProcesses[t]
    BY <1>1, <1>4, <2>1, PreemptType
  <2>3. Preempted(vm) = v
    BY <1>4 DEF Preempted
  <2> HIDE DEF v
  <2>4. QED
    BY <1>2, <2>2, <2>3
<1>5. QED
  BY <1>3, <1>4

LEMMA ToExecuteOK ==
    ASSUME TypeOK, Control, NEW w \in ToExecute(vm)
    PROVE  /\ w \in VMStates
           /\ w.disowningVMThread = NoThread
           /\ \A x \in Threads : Away(x) => w.awolProcesses[x] # <<>>
<1> DEFINE v == Preempted(vm)
<1>1. /\ v \in VMStates
      /\ v.disowningVMThread = NoThread
      /\ \A x \in Threads : Away(x) => v.awolProcesses[x] # <<>>
  BY PreemptedOK
<1>2. \/ w = v
      \/ w = [v EXCEPT !.activeProcess = Nobody]
      \/ \E p \in Processes : w = SetActive(v, p)
  BY DEF ToExecute, Preempted
<1> HIDE DEF v
<1>3. CASE w = v
  BY <1>1, <1>3
<1>4. CASE w = [v EXCEPT !.activeProcess = Nobody]
  BY <1>1, <1>4 DEF VMStates
<1>5. ASSUME NEW p \in Processes, w = SetActive(v, p)
      PROVE  /\ w \in VMStates
             /\ w.disowningVMThread = NoThread
             /\ w.awolProcesses = v.awolProcesses
  BY <1>1, <1>5, SetActiveType
<1>6. QED
  BY <1>1, <1>2, <1>3, <1>4, <1>5

LEMMA TryToExecuteOK ==
    ASSUME Inv, NEW t \in Threads, image' = image, TryToExecuteSmalltalk(t)
    PROVE  Inv'
<1> DEFINE p == vm'.activeProcess
           u == vm'.ownerIndex[p]
<1>1. /\ pc[t] = "execute" /\ vm' \in ToExecute(vm)
      /\ UNCHANGED <<vmOwnerLock, osSemaphore, state, waiting, relinquishing,
                     relinquished, calls, candidate>>
  BY DEF TryToExecuteSmalltalk
<1>2. vmOwner = t /\ Owns(t) /\ OwnedOverKept(calls[t])
  BY <1>1, ConstantsOK
     DEF Inv, Control, InsideOwns, Inside, InsidePositions, Owns, KeptCallsBackOwned
<1>3. /\ vm' \in VMStates
      /\ vm'.disowningVMThread = NoThread
      /\ \A x \in Threads : Away(x) => vm'.awolProcesses[x] # <<>>
  BY <1>1, ToExecuteOK DEF Inv
<1>4. p \in Processes \cup {Nobody} /\ (p # Nobody => u \in Threads \cup {NoThread})
  BY <1>3 DEF VMStates
<1>5. DisowningIsActive'
  BY <1>3 DEF DisowningIsActive
<1>6. \/ p = Nobody /\ Release(t, "test")
      \/ p # Nobody /\ u \in {NoThread, vmOwner} /\ Keep(t, "running")
      \/ p # Nobody /\ u \notin {NoThread, vmOwner} /\ GiveTo(t, u)
  BY DEF TryToExecuteSmalltalk
<1>7. \A w \in Threads : w # t /\ Away(w) =>
         vm'.disowningVMThread # w /\ vm'.awolProcesses[w] # <<>>
  BY <1>3, ConstantsOK
<1> HIDE DEF u
<1>8. CASE p = Nobody /\ Release(t, "test")
  <2>1. Goto(t, "test") /\ vmOwner' = Unowned /\ target' = target
    BY <1>8 DEF Release
  <2>2. "test" \in Positions /\ Unowned \notin Threads
    BY ConstantsOK DEF Positions
  <2>3. Control'
    BY ConstantsOK, <1>1, <1>2, <1>5, <1>7, <2>1, <2>2, GiveVM DEF Inv
  <2>4. TypeOK'
    BY ConstantsOK, <1>1, <1>3, <2>1, <2>2 DEF Inv, TypeOK, Goto, waiting
  <2>5. QED
    BY <2>3, <2>4 DEF Inv
<1>9. CASE p # Nobody /\ Keep(t, "running")
  <2>1. Goto(t, "running") /\ UNCHANGED <<vmOwner, target>>
    BY <1>9 DEF Keep
  <2>2. Control'
    BY <1>1, <1>2, <1>4, <1>7, <1>9, <2>1, RunOn DEF Inv
  <2>3. TypeOK'
    BY ConstantsOK, <1>1, <1>3, <2>1 DEF Inv, TypeOK, Goto, Positions, waiting
  <2>4. QED
    BY <2>2, <2>3 DEF Inv
<1>10. CASE p # Nobody /\ u \notin {NoThread, vmOwner} /\ GiveTo(t, u)
  <2>1. u \in Threads /\ p \in Processes
    BY <1>4, <1>10
  <2>2. /\ Goto(t, "signal") /\ vmOwner' = u
        /\ target' = [target EXCEPT ![t] = u] /\ "signal" \in Positions
    BY <1>10 DEF GiveTo, Positions
  <2>3. Control'
    BY ConstantsOK, <1>1, <1>2, <1>5, <1>7, <2>1, <2>2, GiveVM DEF Inv
  <2>4. TypeOK'
    BY ConstantsOK, <1>1, <1>3, <2>1, <2>2 DEF Inv, TypeOK, Goto, waiting
  <2>5. QED
    BY <2>3, <2>4 DEF Inv
<1>11. QED
  BY <1>6, <1>8, <1>9, <1>10

LEMMA RenameTop ==
    ASSUME NEW stack \in Seq(Calls), OwnedOverKept(stack), NEW p \in Processes
    PROVE  LET new == [stack EXCEPT ![Len(stack)].process = p]
           IN new \in Seq(Calls) /\ OwnedOverKept(new)
<1> DEFINE n == Len(stack)
           new == [stack EXCEPT ![n].process = p]
<1>1. CASE stack = <<>>
  <2>1. n = 0 /\ DOMAIN stack = 1 .. 0
    BY <1>1
  <2>2. new = [i \in 1 .. 0 |-> stack[i]]
    BY <2>1
  <2>3. stack = [i \in 1 .. 0 |-> stack[i]]
    BY <2>1
  <2>4. QED
    BY <2>2, <2>3
<1>2. CASE stack # <<>>
  <2>1. n \in 1 .. n /\ stack[n] \in Calls
    BY <1>2
  <2>2. [stack[n] EXCEPT !.process = p] \in Calls
    BY <2>1 DEF Calls
  <2>3. new = [stack EXCEPT ![n] = [stack[n] EXCEPT !.process = p]]
    OBVIOUS
  <2>4. new \in Seq(Calls) /\ Len(new) = n
    BY <2>1, <2>2, <2>3
  <2>5. \A k \in 1 .. n : new[k].kind = stack[k].kind /\ new[k].owned = stack[k].owned
    BY <2>1 DEF Calls
  <2> HIDE DEF new
  <2>6. OwnedOverKept(new)
    BY <2>4, <2>5 DEF OwnedOverKept
  <2>7. QED
    BY <2>4, <2>6 DEF new
<1>3. QED
  BY <1>1, <1>2

LEMMA OwnVMOK ==
    ASSUME Inv, NEW t \in Threads, image' = image, OwnVM(t) PROVE Inv'
<1>1. /\ pc[t] = "back" /\ Goto(t, "running")
      /\ state' = [state EXCEPT ![t] = "AssignableOrInVM"]
      /\ UNCHANGED <<ownership, target, osSemaphore, waiting, relinquishing,
                     relinquished, candidate>>
  BY DEF OwnVM
<1>2. /\ vmOwner = t /\ OwnedOverKept(calls[t]) /\ calls[t] \in Seq(Calls)
      /\ Away(t)
  BY <1>1 DEF Inv, TypeOK, Control, InsideOwns, Inside, InsidePositions,
              KeptCallsBackOwned, Away, Coming
<1>3. /\ vm' \in VMStates
      /\ vm'.activeProcess \in Processes
      /\ \A w \in Threads : w # t /\ Away(w) =>
            vm'.disowningVMThread # w /\ vm'.awolProcesses[w] # <<>>
  <2>1. CASE vm.disowningVMThread = t
    <3>1. vm' = [vm EXCEPT !.disowningVMThread = NoThread]
      BY <2>1 DEF OwnVM
    <3>2. vm.activeProcess \in Processes
      BY <2>1, ConstantsOK DEF Inv, Control, DisowningIsActive
    <3>3. \A w \in Threads : w # t /\ Away(w) => vm.awolProcesses[w] # <<>>
      BY <2>1 DEF Inv, Control, AwayCanReturn
    <3>4. QED
      BY <3>1, <3>2, <3>3, ConstantsOK DEF Inv, TypeOK, VMStates
  <2>2. CASE vm.disowningVMThread # t
    <3> DEFINE unaffine == Top(t).kind = "callout" /\ Top(t).unaffined
               v == Preempted(vm)
               w == PopAWOLProcess(v, t, unaffine)
    <3>1. vm' = w
      BY <2>2 DEF OwnVM
    <3>2. /\ v \in VMStates
          /\ v.disowningVMThread = NoThread
          /\ \A x \in Threads : Away(x) => v.awolProcesses[x] # <<>>
      BY PreemptedOK DEF Inv
    <3>3. unaffine \in BOOLEAN
      OBVIOUS
    <3> HIDE DEF v, unaffine
    <3>4. /\ w \in VMStates
          /\ w.activeProcess \in Processes
          /\ w.disowningVMThread = v.disowningVMThread
          /\ \A x \in Threads : x # t => w.awolProcesses[x] = v.awolProcesses[x]
      BY <1>2, <3>2, <3>3, PopType
    <3> HIDE DEF w
    <3>5. QED
      BY <3>1, <3>2, <3>4, ConstantsOK
  <2>3. QED
    BY <2>1, <2>2
<1>4. /\ calls' \in [Threads -> Seq(Calls)]
      /\ \A w \in Threads : w # t => calls'[w] = calls[w]
      /\ OwnedOverKept(calls'[t])
  <2> DEFINE rest == SubSeq(calls[t], 1, Len(calls[t]) - 1)
             new == [calls[t] EXCEPT ![Len(calls[t])].process = vm'.activeProcess]
  <2>1. rest \in Seq(Calls) /\ OwnedOverKept(rest)
    BY <1>2, PopStack
  <2>2. new \in Seq(Calls) /\ OwnedOverKept(new)
    BY <1>2, <1>3, RenameTop
  <2>3. calls' = [calls EXCEPT ![t] = rest] \/ calls' = [calls EXCEPT ![t] = new]
    BY DEF OwnVM, Pop
  <2> HIDE DEF rest, new
  <2>4. QED
    BY <2>1, <2>2, <2>3 DEF Inv, TypeOK
<1>5. UNCHANGED <<vmOwner, target, osSemaphore>>
  BY <1>1 DEF ownership
<1>6. \A w \in Threads : w # t => state'[w] = state[w]
  BY <1>1 DEF Inv, TypeOK
<1>7. Control'
  BY <1>1, <1>2, <1>3, <1>4, <1>5, <1>6, RunOn DEF Inv
<1>8. TypeOK'
  BY <1>1, <1>3, <1>4, <1>5, ConstantsOK
     DEF Inv, TypeOK, Goto, Positions, CTMStates, ownership, waiting
<1>9. QED
  BY <1>7, <1>8 DEF Inv

-----------------------------------------------------------------------------
(* Calls and callbacks.                                                    *)

LEMMA PushedTop ==
    ASSUME TypeOK, NEW t \in Threads, NEW call \in Calls, Push(t, call)
    PROVE  /\ calls' = [calls EXCEPT ![t] = Append(calls[t], call)]
           /\ calls[t] \in Seq(Calls)
           /\ calls'[t] = Append(calls[t], call)
           /\ calls'[t] # <<>>
           /\ calls'[t][Len(calls'[t])] = call
           /\ \A w \in Threads : w # t => calls'[w] = calls[w]
<1>1. calls[t] \in Seq(Calls)
  BY DEF TypeOK
<1>2. Append(calls[t], call) # <<>>
  BY <1>1, AppendNotEmpty
<1>3. Append(calls[t], call)[Len(Append(calls[t], call))] = call
  BY <1>1
<1>4. QED
  BY <1>1, <1>2, <1>3 DEF TypeOK, Push

LEMMA CallOutOK ==
    ASSUME Inv, NEW t \in Threads, image' = image, CallOut(t) PROVE Inv'
<1> DEFINE idle == vm.activeProcess = Idle
           call == Call("callout", vm.activeProcess, idle, FALSE)
<1>1. /\ pc[t] = "running"
      /\ relinquishing' = (relinquishing \/ idle)
      /\ Push(t, call)
      /\ vm' = [vm EXCEPT !.disowningVMThread = t]
      /\ state' = [state EXCEPT ![t] = "Unavailable"]
      /\ vmOwner' = Unowned /\ Goto(t, "outside") /\ target' = target
      /\ UNCHANGED <<vmOwnerLock, osSemaphore, waiting, relinquished, candidate>>
  BY DEF CallOut, DisownVM, Release
<1>2. vmOwner = t /\ vm.activeProcess \in Processes /\ OwnedOverKept(calls[t])
  BY <1>1, OwnerFacts DEF Inv
<1>3. call \in Calls /\ call.kind = "callout"
  BY <1>2 DEF Call, Calls
<1> HIDE DEF call
<1>4. /\ calls' = [calls EXCEPT ![t] = Append(calls[t], call)]
      /\ calls[t] \in Seq(Calls)
      /\ calls'[t] = Append(calls[t], call)
      /\ calls'[t][Len(calls'[t])] = call
      /\ \A w \in Threads : w # t => calls'[w] = calls[w]
  BY <1>1, <1>3, PushedTop DEF Inv
<1>5. calls'[t] \in Seq(Calls) /\ OwnedOverKept(calls'[t])
  BY <1>2, <1>3, <1>4, PushStack
<1>6. ~HasTop(t, "unthreaded")'
  BY <1>3, <1>4 DEF HasTop, Top
<1>7. /\ vm' \in VMStates
      /\ vm'.activeProcess = vm.activeProcess
      /\ vm'.awolProcesses = vm.awolProcesses
      /\ vm'.disowningVMThread = t
  BY <1>1 DEF Inv, TypeOK, VMStates
<1>8. /\ \A w \in Threads : w # t => state'[w] = state[w]
      /\ state'[t] = "Unavailable"
  BY <1>1 DEF Inv, TypeOK
<1>9. Control'
  BY <1>1, <1>2, <1>4, <1>5, <1>6, <1>7, <1>8, GoOut DEF Inv
<1>10. TypeOK'
  <2>1. calls' \in [Threads -> Seq(Calls)]
    BY <1>4, <1>5 DEF Inv, TypeOK
  <2>2. QED
    BY <1>1, <1>7, <2>1, ConstantsOK
       DEF Inv, TypeOK, Goto, Positions, CTMStates, waiting
<1>11. QED
  BY <1>9, <1>10 DEF Inv

LEMMA ReturnFromCallBackOK ==
    ASSUME Inv, NEW t \in Threads, image' = image, ReturnFromCallBack(t) PROVE Inv'
<1> DEFINE rest == SubSeq(calls[t], 1, Len(calls[t]) - 1)
<1>1. /\ pc[t] = "running" /\ HasTop(t, "callback")
      /\ vm' = [vm EXCEPT !.disowningVMThread = t]
      /\ state' = [state EXCEPT ![t] = "Unavailable"]
      /\ Goto(t, "outside") /\ target' = target
      /\ calls' = [calls EXCEPT ![t] = rest]
      /\ vmOwner' = IF Top(t).owned THEN vmOwner ELSE Unowned
      /\ UNCHANGED <<vmOwnerLock, osSemaphore, waiting, relinquishing, relinquished,
                     candidate>>
  BY DEF ReturnFromCallBack, DisownVM, Release, Keep, Pop
<1>2. /\ vmOwner = t /\ OwnedOverKept(calls[t]) /\ calls[t] \in Seq(Calls)
      /\ vm.activeProcess \in Processes
  BY <1>1, OwnerFacts DEF Inv, TypeOK
<1>3. rest \in Seq(Calls) /\ OwnedOverKept(rest)
  BY <1>2, PopStack
<1>4. rest # <<>> /\ ~Top(t).owned => rest[Len(rest)].kind # "unthreaded"
  <2>1. SUFFICES ASSUME rest # <<>>, ~Top(t).owned
                 PROVE  rest[Len(rest)].kind # "unthreaded"
    OBVIOUS
  <2>2. /\ Len(calls[t]) \in Nat
        /\ Len(rest) = Len(calls[t]) - 1 /\ Len(rest) \in 1 .. Len(calls[t])
        /\ rest[Len(rest)] = calls[t][Len(calls[t]) - 1]
    BY <1>1, <1>2, <2>1 DEF HasTop
  <2>3. calls[t][Len(calls[t])].kind = "callback" /\ ~calls[t][Len(calls[t])].owned
    BY <1>1, <2>1 DEF HasTop, Top
  <2> HIDE DEF rest
  <2>4. QED
    BY <1>2, <2>2, <2>3 DEF OwnedOverKept
<1> HIDE DEF rest
<1>5. /\ calls' \in [Threads -> Seq(Calls)]
      /\ calls'[t] = rest
      /\ \A w \in Threads : w # t => calls'[w] = calls[w]
  BY <1>1, <1>3 DEF Inv, TypeOK
<1>6. vmOwner' \in {Unowned, t} /\ (HasTop(t, "unthreaded")' => vmOwner' = t)
  BY <1>1, <1>2, <1>4, <1>5 DEF HasTop, Top
<1>7. /\ vm' \in VMStates
      /\ vm'.activeProcess = vm.activeProcess
      /\ vm'.awolProcesses = vm.awolProcesses
      /\ vm'.disowningVMThread = t
  BY <1>1 DEF Inv, TypeOK, VMStates
<1>8. /\ \A w \in Threads : w # t => state'[w] = state[w]
      /\ state'[t] = "Unavailable"
  BY <1>1 DEF Inv, TypeOK
<1>9. Control'
  BY <1>1, <1>2, <1>3, <1>5, <1>6, <1>7, <1>8, GoOut DEF Inv
<1>10. TypeOK'
  BY <1>1, <1>5, <1>6, <1>7, ConstantsOK
     DEF Inv, TypeOK, Goto, Positions, CTMStates, waiting
<1>11. QED
  BY <1>9, <1>10 DEF Inv

LEMMA CallKeepingVMOK ==
    ASSUME Inv, NEW t \in Threads, image' = image, CallKeepingVM(t) PROVE Inv'
<1> DEFINE call == Call("unthreaded", vm.activeProcess, FALSE, FALSE)
<1>1. /\ pc[t] = "running" /\ Push(t, call) /\ Goto(t, "outside")
      /\ UNCHANGED <<vmOwner, vmOwnerLock, target, osSemaphore, state, waiting,
                     relinquishing, relinquished, candidate, vm>>
  BY DEF CallKeepingVM, ownership
<1>2. /\ vmOwner = t /\ vm.activeProcess \in Processes /\ OwnedOverKept(calls[t])
  BY <1>1, OwnerFacts DEF Inv
<1>3. call \in Calls /\ call.kind = "unthreaded"
  BY <1>2 DEF Call, Calls
<1> HIDE DEF call
<1>4. /\ calls' = [calls EXCEPT ![t] = Append(calls[t], call)]
      /\ calls[t] \in Seq(Calls)
      /\ calls'[t] = Append(calls[t], call)
      /\ calls'[t] # <<>>
      /\ calls'[t][Len(calls'[t])] = call
      /\ \A w \in Threads : w # t => calls'[w] = calls[w]
  BY <1>1, <1>3, PushedTop DEF Inv
<1>5. calls'[t] \in Seq(Calls) /\ OwnedOverKept(calls'[t])
  BY <1>2, <1>3, <1>4, PushStack
<1>6. HasTop(t, "unthreaded")'
  BY <1>3, <1>4 DEF HasTop, Top
<1>7. Control'
  BY <1>1, <1>2, <1>4, <1>5, <1>6, GoOut DEF Inv
<1>8. TypeOK'
  <2>1. calls' \in [Threads -> Seq(Calls)]
    BY <1>4, <1>5 DEF Inv, TypeOK
  <2>2. QED
    BY <1>1, <2>1, ConstantsOK DEF Inv, TypeOK, Goto, Positions, waiting
<1>9. QED
  BY <1>7, <1>8 DEF Inv

LEMMA ReturnKeepingVMOK ==
    ASSUME Inv, NEW t \in Threads, image' = image, ReturnKeepingVM(t) PROVE Inv'
<1> DEFINE rest == SubSeq(calls[t], 1, Len(calls[t]) - 1)
<1>1. /\ pc[t] = "outside" /\ HasTop(t, "unthreaded") /\ Goto(t, "running")
      /\ calls' = [calls EXCEPT ![t] = rest]
      /\ UNCHANGED <<vmOwner, vmOwnerLock, target, osSemaphore, state, waiting,
                     relinquishing, relinquished, candidate, vm>>
  BY DEF ReturnKeepingVM, Pop, ownership
<1>2. /\ vmOwner = t /\ OwnedOverKept(calls[t]) /\ calls[t] \in Seq(Calls)
  BY <1>1 DEF Inv, TypeOK, Control, KeptIsOwned, KeptCallsBackOwned
<1>3. vm.activeProcess \in Processes
  BY <1>1, <1>2 DEF Inv, Control, OwnerMayRun
<1>4. rest \in Seq(Calls) /\ OwnedOverKept(rest)
  BY <1>2, PopStack
<1> HIDE DEF rest
<1>5. /\ calls' \in [Threads -> Seq(Calls)]
      /\ calls'[t] = rest
      /\ \A w \in Threads : w # t => calls'[w] = calls[w]
  BY <1>1, <1>4 DEF Inv, TypeOK
<1>6. \A w \in Threads : w # t /\ Away(w) =>
         vm.disowningVMThread # w /\ vm.awolProcesses[w] # <<>>
  BY <1>1, <1>2, OthersCanReturn DEF Inv
<1>7. Control'
  BY <1>1, <1>2, <1>3, <1>4, <1>5, <1>6, RunOn DEF Inv
<1>8. TypeOK'
  BY <1>1, <1>5, ConstantsOK DEF Inv, TypeOK, Goto, Positions, waiting
<1>9. QED
  BY <1>7, <1>8 DEF Inv

LEMMA CallBackOK ==
    ASSUME Inv, NEW t \in Threads, image' = image, CallBack(t) PROVE Inv'
<1>1. /\ pc[t] = "outside" /\ calls[t] # <<>>
      /\ UNCHANGED <<vmOwner, vmOwnerLock, target, osSemaphore, waiting,
                     relinquishing, relinquished, candidate>>
  BY DEF CallBack, ownership
<1>2. OwnedOverKept(calls[t])
  BY DEF Inv, Control, KeptCallsBackOwned
<1>3. CASE vmOwner = t
  <2> DEFINE call == Call("callback", vm.activeProcess, FALSE, TRUE)
  <2>1. /\ Push(t, call) /\ Goto(t, "running")
        /\ vm' = [vm EXCEPT !.disowningVMThread = NoThread]
        /\ state' = [state EXCEPT ![t] = "AssignableOrInVM"]
    BY <1>3 DEF CallBack
  <2>2. vm.activeProcess \in Processes
    BY <1>1, <1>3 DEF Inv, Control, OwnerMayRun
  <2>3. call \in Calls /\ call.owned
    BY <2>2 DEF Call, Calls
  <2> HIDE DEF call
  <2>4. /\ calls' = [calls EXCEPT ![t] = Append(calls[t], call)]
        /\ calls[t] \in Seq(Calls)
        /\ calls'[t] = Append(calls[t], call)
        /\ \A w \in Threads : w # t => calls'[w] = calls[w]
    BY <2>1, <2>3, PushedTop DEF Inv
  <2>5. calls'[t] \in Seq(Calls) /\ OwnedOverKept(calls'[t])
    BY <1>2, <2>3, <2>4, PushStack
  <2>6. /\ vm' \in VMStates
        /\ vm'.activeProcess = vm.activeProcess
        /\ vm'.disowningVMThread = NoThread
        /\ vm'.awolProcesses = vm.awolProcesses
    BY <2>1 DEF Inv, TypeOK, VMStates
  <2>7. \A w \in Threads : w # t /\ Away(w) =>
           vm'.disowningVMThread # w /\ vm'.awolProcesses[w] # <<>>
    BY <1>1, <1>3, <2>6, OthersCanReturn, ConstantsOK DEF Inv
  <2>8. \A w \in Threads : w # t => state'[w] = state[w]
    BY <2>1 DEF Inv, TypeOK
  <2>9. Control'
    BY <1>1, <1>3, <2>1, <2>2, <2>4, <2>5, <2>6, <2>7, <2>8, RunOn DEF Inv
  <2>10. TypeOK'
    <3>1. calls' \in [Threads -> Seq(Calls)]
      BY <2>4, <2>5 DEF Inv, TypeOK
    <3>2. QED
      BY <1>1, <2>1, <2>6, <3>1, ConstantsOK
         DEF Inv, TypeOK, Goto, Positions, CTMStates, waiting
  <2>11. QED
    BY <2>9, <2>10 DEF Inv
<1>4. CASE vmOwner # t
  <2> DEFINE call == Call("callback", Nobody, FALSE, FALSE)
  <2>1. Push(t, call) /\ Goto(t, "enter") /\ UNCHANGED <<vm, state>>
    BY <1>4 DEF CallBack
  <2>2. call \in Calls
    BY DEF Call, Calls
  <2> HIDE DEF call
  <2>3. /\ calls' = [calls EXCEPT ![t] = Append(calls[t], call)]
        /\ calls[t] \in Seq(Calls)
        /\ calls'[t] = Append(calls[t], call)
        /\ \A w \in Threads : w # t => calls'[w] = calls[w]
    BY <2>1, <2>2, PushedTop DEF Inv
  <2>4. Away(t) /\ calls[t][Len(calls[t])].kind # "unthreaded"
    BY <1>1, <1>4 DEF Inv, Control, KeptIsOwned, Away, HasTop, Top
  <2>5. calls'[t] \in Seq(Calls) /\ OwnedOverKept(calls'[t])
    BY <1>1, <1>2, <2>2, <2>3, <2>4, PushStack
  <2>6. Control'
    BY <1>1, <2>1, <2>3, <2>4, <2>5, ConstantsOK, MoveWithStack
       DEF Inv, SameVM, Positions, InsidePositions
  <2>7. TypeOK'
    <3>1. calls' \in [Threads -> Seq(Calls)]
      BY <2>3, <2>5 DEF Inv, TypeOK
    <3>2. QED
      BY <1>1, <2>1, <3>1, ConstantsOK DEF Inv, TypeOK, Goto, Positions, waiting
  <2>8. QED
    BY <2>6, <2>7 DEF Inv
<1>5. QED
  BY <1>3, <1>4

-----------------------------------------------------------------------------
(* Threads that do not exist yet, and signals.                             *)

\* A thread without a state has not been started.
Born == \A t \in Threads : state[t] = "nil" => pc[t] = "unborn"

\* Whoever is about to signal knows whom.
Targeted == \A a \in Actors : pc[a] = "signal" => target[a] \in Threads

IInv == Inv /\ Born /\ Targeted

LEMMA SignalOK ==
    ASSUME IInv, NEW a \in Actors, image' = image, Signal(a) PROVE IInv'
<1> DEFINE u == target[a]
           after == IF a = Heartbeat THEN "loop" ELSE "test"
<1>1. /\ pc[a] = "signal" /\ target' = [target EXCEPT ![a] = NoThread]
      /\ UNCHANGED <<vmOwner, vmOwnerLock, waiting, relinquishing, relinquished,
                     calls, candidate, vm>>
  BY DEF Signal, ownership
<1>2. u \in Threads
  BY <1>1 DEF IInv, Targeted
<1>3. after \in {"loop", "test"} /\ after \in Positions
  BY DEF Positions
<1>4. \A b \in Actors : b # a => target'[b] = target[b]
  BY <1>1 DEF IInv, Inv, TypeOK
<1> HIDE DEF after
<1>5. CASE state[u] = "nil"
  <2>1. /\ state' = [state EXCEPT ![u] = "Initializing"]
        /\ pc' = [pc EXCEPT ![a] = after, ![u] = "starting"]
        /\ osSemaphore' = osSemaphore
    BY <1>5 DEF Signal, after
  <2>2. pc[u] = "unborn" /\ u # a /\ u \in Actors
    BY <1>1, <1>2, <1>5, ConstantsOK DEF IInv, Born
  <2> HIDE DEF u
  <2>3. TypeOK'
    BY <1>1, <1>2, <1>3, <2>1, ConstantsOK
       DEF IInv, Inv, TypeOK, Positions, CTMStates, waiting
  <2>4. /\ pc'[u] = "starting" /\ pc'[a] = after
        /\ \A b \in Actors : b # a /\ b # u => pc'[b] = pc[b]
        /\ state'[u] = "Initializing"
        /\ \A w \in Threads : w # u => state'[w] = state[w]
    BY <1>2, <2>1, <2>2 DEF IInv, Inv, TypeOK
  <2>5. \A w \in Threads : Away(w)' => Away(w)
    BY <1>1, <1>3, <2>4, ConstantsOK DEF Away, HasTop, Top, Coming
  <2>6. InsideOwns' /\ KeptIsOwned'
    BY <1>1, <1>3, <2>4, ConstantsOK
       DEF IInv, Inv, Control, InsideOwns, Inside, InsidePositions, KeptIsOwned, HasTop, Top
  <2>7. KeptCallsBackOwned' /\ AwayCanReturn' /\ DisowningIsActive'
    BY <1>1, <2>5
       DEF IInv, Inv, Control, KeptCallsBackOwned, AwayCanReturn, DisowningIsActive
  <2>8. OwnerMayRun' /\ OutsideIsUnavailable'
    BY <1>1, <1>3, <2>4, <2>5, ConstantsOK
       DEF IInv, Inv, Control, OwnerMayRun, OutsideIsUnavailable
  <2>9. OwnerIsAwake'
    <3>1. SUFFICES ASSUME NEW w \in Threads, vmOwner' = w, Asleep(w)'
                   PROVE  \/ osSemaphore'[w] > 0
                          \/ \E b \in Actors : pc'[b] = "signal" /\ target'[b] = w
      BY DEF OwnerIsAwake
    <3>2. w # u /\ w # a /\ Asleep(w) /\ vmOwner = w
      BY <1>1, <1>3, <2>4, <3>1, ConstantsOK DEF Asleep
    <3>3. \/ osSemaphore[w] > 0
          \/ \E b \in Actors : pc[b] = "signal" /\ target[b] = w
      BY <3>2 DEF IInv, Inv, Control, OwnerIsAwake
    <3>4. ASSUME NEW b \in Actors, pc[b] = "signal", target[b] = w
          PROVE  pc'[b] = "signal" /\ target'[b] = w
      BY <1>4, <2>2, <2>4, <3>2, <3>4 DEF u
    <3>5. QED
      BY <2>1, <3>3, <3>4
  <2>10. Control'
    BY <2>6, <2>7, <2>8, <2>9 DEF Control
  <2>11. Born'
    BY <1>1, <1>3, <2>2, <2>4, ConstantsOK DEF IInv, Born
  <2>12. Targeted'
    BY <1>3, <1>4, <2>4 DEF IInv, Targeted
  <2>13. QED
    BY <2>3, <2>10, <2>11, <2>12 DEF IInv, Inv
<1>6. CASE state[u] # "nil"
  <2>1. /\ osSemaphore' = [osSemaphore EXCEPT ![u] = IF @ < MaxSignals THEN @ + 1 ELSE @]
        /\ pc' = [pc EXCEPT ![a] = after]
        /\ state' = state
    BY <1>6 DEF Signal, Goto, after
  <2> HIDE DEF u
  <2>2. /\ osSemaphore' \in [Threads -> 0 .. MaxSignals]
        /\ osSemaphore'[u] > 0
        /\ \A w \in Threads : w # u => osSemaphore'[w] = osSemaphore[w]
    BY <1>2, <2>1, BoundAssumption DEF IInv, Inv, TypeOK
  <2>3. TypeOK'
    BY <1>1, <1>3, <2>1, <2>2, ConstantsOK DEF IInv, Inv, TypeOK, waiting
  <2>4. /\ pc'[a] = after
        /\ \A b \in Actors : b # a => pc'[b] = pc[b]
    BY <2>1 DEF IInv, Inv, TypeOK
  <2>5. \A w \in Threads : Away(w)' => Away(w)
    BY <1>1, <1>3, <2>4, ConstantsOK DEF Away, HasTop, Top, Coming
  <2>6. InsideOwns' /\ KeptIsOwned'
    BY <1>1, <1>3, <2>4, ConstantsOK
       DEF IInv, Inv, Control, InsideOwns, Inside, InsidePositions, KeptIsOwned, HasTop, Top
  <2>7. KeptCallsBackOwned' /\ AwayCanReturn' /\ DisowningIsActive'
    BY <1>1, <2>5
       DEF IInv, Inv, Control, KeptCallsBackOwned, AwayCanReturn, DisowningIsActive
  <2>8. OwnerMayRun' /\ OutsideIsUnavailable'
    BY <1>1, <1>3, <2>1, <2>4, <2>5, ConstantsOK
       DEF IInv, Inv, Control, OwnerMayRun, OutsideIsUnavailable
  <2>9. OwnerIsAwake'
    <3>1. SUFFICES ASSUME NEW w \in Threads, vmOwner' = w, Asleep(w)', w # u
                   PROVE  \/ osSemaphore'[w] > 0
                          \/ \E b \in Actors : pc'[b] = "signal" /\ target'[b] = w
      BY <2>2 DEF OwnerIsAwake
    <3>2. w # a /\ Asleep(w) /\ vmOwner = w
      BY <1>1, <1>3, <2>4, <3>1, ConstantsOK DEF Asleep
    <3>3. \/ osSemaphore[w] > 0
          \/ \E b \in Actors : pc[b] = "signal" /\ target[b] = w
      BY <3>2 DEF IInv, Inv, Control, OwnerIsAwake
    <3>4. ASSUME NEW b \in Actors, pc[b] = "signal", target[b] = w
          PROVE  pc'[b] = "signal" /\ target'[b] = w
      BY <1>4, <2>4, <3>1, <3>4 DEF u
    <3>5. QED
      BY <2>2, <3>1, <3>3, <3>4
  <2>10. Control'
    BY <2>6, <2>7, <2>8, <2>9 DEF Control
  <2>11. Born'
    BY <1>1, <1>3, <2>1, <2>4, ConstantsOK DEF IInv, Born
  <2>12. Targeted'
    BY <1>3, <1>4, <2>4 DEF IInv, Targeted
  <2>13. QED
    BY <2>3, <2>10, <2>11, <2>12 DEF IInv, Inv
<1>7. QED
  BY <1>5, <1>6

\* a goes on alone: it signals only a thread that it has chosen, and no
\* thread's state becomes nil.
Moves(a) ==
    /\ pc[a] # "unborn"
    /\ \A b \in Actors : b # a => pc'[b] = pc[b] /\ target'[b] = target[b]
    /\ pc'[a] = "signal" => target'[a] \in Threads
    /\ \A w \in Threads : state'[w] = "nil" => state[w] = "nil"

LEMMA MovesOK ==
    ASSUME TypeOK, Born, Targeted, NEW a \in Actors, Moves(a)
    PROVE  Born' /\ Targeted'
BY ConstantsOK DEF Moves, Born, Targeted

KeepsStates == \A w \in Threads : state'[w] = "nil" => state[w] = "nil"

LEMMA GoingMoves ==
    ASSUME TypeOK, NEW a \in Actors, NEW position, position # "signal",
           pc[a] # "unborn", Goto(a, position), target' = target, KeepsStates
    PROVE  Moves(a)
BY DEF TypeOK, Goto, Moves, KeepsStates

LEMMA GivingMoves ==
    ASSUME TypeOK, NEW a \in Actors, NEW u \in Threads, pc[a] # "unborn",
           GiveTo(a, u), KeepsStates
    PROVE  Moves(a)
BY DEF TypeOK, Goto, GiveTo, Moves, KeepsStates

LEMMA LoopMoves ==
    ASSUME Inv, NEW t \in Threads, SchedulingLoop(t) PROVE Moves(t)
<1> USE ConstantsOK DEF Inv
<1>1. CASE StartVMThread(t)
  BY <1>1, GoingMoves DEF StartVMThread, KeepsStates, TypeOK
<1>2. CASE Schedule(t)
  BY <1>2, GoingMoves DEF Schedule, KeepsStates
<1>3. CASE TryLock(t, "lock", "look", "test")
  BY <1>3, GoingMoves DEF TryLock, KeepsStates
<1>4. CASE LookAt(t, "look", t, "relinquished?", "test")
  BY <1>4, GoingMoves DEF LookAt, KeepsStates
<1>5. CASE HeedRelinquishing(t)
  BY <1>5, GoingMoves DEF HeedRelinquishing, Release, Keep, KeepsStates
<1>6. CASE TryToExecuteSmalltalk(t)
  <2> DEFINE p == vm'.activeProcess
             u == vm'.ownerIndex[p]
  <2>1. pc[t] # "unborn" /\ KeepsStates /\ vm' \in ToExecute(vm)
    BY <1>6 DEF TryToExecuteSmalltalk, KeepsStates
  <2>2. vm' \in VMStates
    BY <2>1, ToExecuteOK
  <2>3. p # Nobody => u \in Threads \cup {NoThread}
    BY <2>2 DEF VMStates
  <2>4. \/ Release(t, "test")
        \/ Keep(t, "running")
        \/ p # Nobody /\ u \notin {NoThread, vmOwner} /\ GiveTo(t, u)
    BY <1>6 DEF TryToExecuteSmalltalk
  <2> HIDE DEF u
  <2>5. CASE Release(t, "test")
    BY <2>1, <2>5, GoingMoves DEF Release
  <2>6. CASE Keep(t, "running")
    BY <2>1, <2>6, GoingMoves DEF Keep
  <2>7. CASE p # Nobody /\ u \notin {NoThread, vmOwner} /\ GiveTo(t, u)
    BY <2>1, <2>3, <2>7, GivingMoves
  <2>8. QED
    BY <2>4, <2>5, <2>6, <2>7
<1>7. CASE TestVMOwner(t)
  BY <1>7, GoingMoves DEF TestVMOwner, KeepsStates
<1>8. CASE WaitOn(t, "pooled", "loop")
  BY <1>8, GoingMoves DEF WaitOn, KeepsStates
<1>9. QED
  BY <1>1, <1>2, <1>3, <1>4, <1>5, <1>6, <1>7, <1>8 DEF SchedulingLoop

LEMMA BeatingMoves ==
    ASSUME Inv, Beating, ~Signal(Heartbeat) PROVE Moves(Heartbeat)
<1> USE ConstantsOK DEF Inv
<1>1. CASE Beat
  BY <1>1, GoingMoves DEF Beat, KeepsStates
<1>2. CASE TryLock(Heartbeat, "lock", "look", "loop")
  BY <1>2, GoingMoves DEF TryLock, KeepsStates
<1>3. CASE LookAt(Heartbeat, "look", Anonymous, "pick", "loop")
  BY <1>3, GoingMoves DEF LookAt, KeepsStates
<1>4. CASE EnsureRunningVMThread
  <2>1. pc[Heartbeat] # "unborn" /\ KeepsStates
    BY <1>4 DEF EnsureRunningVMThread, KeepsStates
  <2>2. \/ Release(Heartbeat, "loop")
        \/ \E t \in Threads : GiveTo(Heartbeat, t)
    <3> DEFINE unused == {t \in Threads : state[t] = "nil"}
    <3>1. \/ \E t \in Threads : Release(Heartbeat, "loop") \/ GiveTo(Heartbeat, t)
          \/ Release(Heartbeat, "loop")
          \/ \E t \in unused : GiveTo(Heartbeat, t)
      BY <1>4 DEF EnsureRunningVMThread
    <3>2. QED
      BY <3>1
  <2>3. QED
    BY <2>1, <2>2, GoingMoves, GivingMoves DEF Release
<1>5. QED
  BY <1>1, <1>2, <1>3, <1>4 DEF Beating

LEMMA ComingBackMoves ==
    ASSUME Inv, NEW t \in Threads, ComingBack(t) PROVE Moves(t)
<1> USE ConstantsOK DEF Inv
<1>1. CASE Return(t)
  BY <1>1, GoingMoves DEF Return, KeepsStates
<1>2. CASE CallBack(t)
  <2>1. pc[t] # "unborn" /\ target' = target
    BY <1>2 DEF CallBack
  <2>2. KeepsStates /\ (Goto(t, "running") \/ Goto(t, "enter"))
    BY <1>2 DEF CallBack, KeepsStates, TypeOK
  <2>3. QED
    BY <2>1, <2>2, GoingMoves
<1>3. CASE ReturnKeepingVM(t)
  BY <1>3, GoingMoves DEF ReturnKeepingVM, KeepsStates
<1>4. QED
  BY <1>1, <1>2, <1>3 DEF ComingBack

LEMMA AcquiringMoves ==
    ASSUME Inv, NEW t \in Threads, Acquiring(t) PROVE Moves(t)
<1> USE ConstantsOK DEF Inv
<1>1. ASSUME NEW at \in {"enter", "retry"}, NEW got \in {"entering", "retrying"},
             NEW failed \in {"want", "spin"}, TryLock(t, at, got, failed)
      PROVE  Moves(t)
  BY <1>1, GoingMoves DEF TryLock, KeepsStates
<1>2. ASSUME NEW at \in {"entering", "retrying"}, NEW failed \in {"want", "spin"},
             LookAt(t, at, t, "back", failed)
      PROVE  Moves(t)
  BY <1>2, GoingMoves DEF LookAt, KeepsStates
<1>3. CASE WantOwnership(t)
  BY <1>3, GoingMoves DEF WantOwnership, KeepsStates, TypeOK
<1>4. CASE Spin(t)
  <2>1. /\ pc[t] # "unborn" /\ target' = target /\ KeepsStates
        /\ \E position \in {"bump", "dozing", "retry"} : Goto(t, position)
    BY <1>4 DEF Spin, KeepsStates
  <2>2. QED
    BY <2>1, GoingMoves
<1>5. CASE WaitingPriorityIsAtLeast(t)
  BY <1>5, GoingMoves DEF WaitingPriorityIsAtLeast, KeepsStates
<1>6. CASE WaitOn(t, "dozing", "retry")
  BY <1>6, GoingMoves DEF WaitOn, KeepsStates
<1>7. CASE OwnVM(t)
  BY <1>7, GoingMoves DEF OwnVM, KeepsStates, TypeOK
<1>8. QED
  BY <1>1, <1>2, <1>3, <1>4, <1>5, <1>6, <1>7 DEF Acquiring

LEMMA SwitchMoves ==
    ASSUME Inv, NEW t \in Threads, pc[t] # "unborn",
           NEW v \in VMStates, NEW p \in Processes, ThreadSwitchIfNecessary(t, v, p)
    PROVE  Moves(t)
<1> DEFINE u == v.ownerIndex[p]
<1>1. u \in Threads \cup {NoThread}
  BY DEF VMStates
<1>2. KeepsStates
  BY DEF ThreadSwitchIfNecessary, KeepsStates, Inv, TypeOK
<1>3. (u \in Threads /\ GiveTo(t, u)) \/ Keep(t, "running")
  BY <1>1 DEF ThreadSwitchIfNecessary
<1> HIDE DEF u
<1>4. QED
  BY <1>2, <1>3, GivingMoves, GoingMoves, ConstantsOK DEF Keep, Inv

LEMMA RunningMoves ==
    ASSUME Inv, NEW t \in Threads, Running(t) PROVE Moves(t)
<1>1. TypeOK /\ Control /\ t \in Actors
  BY ConstantsOK DEF Inv
<1>2. CASE CallOut(t)
  BY <1>1, <1>2, GoingMoves DEF CallOut, DisownVM, Release, KeepsStates, TypeOK
<1>3. CASE ReturnFromCallBack(t)
  <2>1. /\ pc[t] # "unborn" /\ KeepsStates
        /\ Goto(t, "outside") /\ target' = target
    BY <1>1, <1>3 DEF ReturnFromCallBack, DisownVM, Release, Keep, KeepsStates, TypeOK
  <2>2. QED
    BY <1>1, <2>1, GoingMoves
<1>4. CASE CallKeepingVM(t)
  BY <1>1, <1>4, GoingMoves DEF CallKeepingVM, KeepsStates
<1>5. CASE Block(t)
  <2> DEFINE v == [vm EXCEPT !.myList[vm.activeProcess] = "blocked"]
  <2>1. pc[t] # "unborn" /\ pc[t] = "running" /\ TransferToHighest(t, v)
    BY <1>5 DEF Block
  <2>2. v \in VMStates
    BY <1>1, <2>1, OwnerFacts DEF TypeOK, VMStates
  <2> HIDE DEF v
  <2>3. ASSUME NEW p \in Processes, ThreadSwitchIfNecessary(t, SetActive(v, p), p)
        PROVE  Moves(t)
    BY <2>1, <2>2, <2>3, SetActiveType, SwitchMoves
  <2>4. ASSUME state' = state, NEW u \in Threads, GiveTo(t, u) PROVE Moves(t)
    BY <1>1, <2>1, <2>4, GivingMoves DEF KeepsStates
  <2>5. ASSUME state' = state, Keep(t, "aborted") PROVE Moves(t)
    BY <1>1, <2>1, <2>5, GoingMoves DEF KeepsStates, Keep
  <2>6. QED
    BY <2>1, <2>3, <2>4, <2>5 DEF TransferToHighest
<1>6. ASSUME pc[t] = "running", NEW q \in Processes
      PROVE  Resumed(vm, q) \in VMStates /\ Resumed(vm, q).activeProcess \in Processes
  BY <1>1, <1>6, OwnerFacts, ResumedType DEF TypeOK
<1>7. CASE Wake(t)
  <2>1. pc[t] # "unborn" /\ pc[t] = "running"
    BY <1>7 DEF Wake
  <2>2. PICK q \in Processes :
           \/ ThreadSwitchIfNecessary(t, Resumed(vm, q), q)
           \/ Keep(t, "running") /\ state' = state
    BY <1>7 DEF Wake
  <2>3. QED
    BY <1>1, <1>6, <2>1, <2>2, SwitchMoves, GoingMoves DEF Keep, KeepsStates
<1>8. CASE CheckForEvents(t)
  <2>1. pc[t] # "unborn" /\ pc[t] = "running"
    BY <1>8 DEF CheckForEvents
  <2>2. PICK v \in {vm} \cup {Resumed(vm, q) : q \in Processes} :
           \/ Keep(t, "cede") /\ state' = state
           \/ ThreadSwitchIfNecessary(t, v, v.activeProcess)
    BY <1>8 DEF CheckForEvents
  <2>3. v \in VMStates /\ v.activeProcess \in Processes
    BY <1>1, <1>6, <2>1, OwnerFacts DEF TypeOK
  <2>4. QED
    BY <1>1, <2>1, <2>2, <2>3, SwitchMoves, GoingMoves DEF Keep, KeepsStates
<1>9. CASE CedeToHigherPriorityThreads(t)
  BY <1>1, <1>9, GoingMoves DEF CedeToHigherPriorityThreads, KeepsStates
<1>10. CASE Cede(t)
  <2>1. pc[t] # "unborn" /\ pc[t] = "ceding"
    BY <1>10 DEF Cede
  <2>2. vm \in VMStates /\ vm.activeProcess \in Processes
    BY <1>1, <2>1, OwnerFacts DEF TypeOK
  <2>3. \/ ThreadSwitchIfNecessary(t, vm, vm.activeProcess)
        \/ candidate.thread # NoThread /\ GiveTo(t, candidate.thread) /\ state' = state
    BY <1>10 DEF Cede
  <2>4. QED
    BY <1>1, <2>1, <2>2, <2>3, SwitchMoves, GivingMoves DEF TypeOK, KeepsStates
<1>11. QED
  BY <1>2, <1>3, <1>4, <1>5, <1>7, <1>8, <1>9, <1>10 DEF Running, Leaving

-----------------------------------------------------------------------------
(* The theorems.                                                           *)

LEMMA InitOK == Init => IInv
<1> SUFFICES ASSUME Init PROVE IInv
  OBVIOUS
<1> USE ConstantsOK DEF Init
<1>1. TypeOK
  <2>1. vm \in VMStates
    <3>1. <<>> \in Seq(Processes)
      OBVIOUS
    <3>2. QED
      BY <3>1 DEF VMStates
  <2>2. calls \in [Threads -> Seq(Calls)]
    BY DEF Calls
  <2>3. osSemaphore \in [Threads -> 0 .. MaxSignals]
    BY BoundAssumption
  <2>4. vmOwner \in Threads
    BY ThreadAssumption DEF Threads
  <2>5. QED
    BY <2>1, <2>2, <2>3, <2>4 DEF TypeOK, Positions, CTMStates, NoCandidate
<1>2. 1 \in Threads /\ \A t \in Threads : calls[t] = <<>> /\ pc[t] \in {"loop", "unborn"}
  BY ThreadAssumption DEF Threads, Actors
<1>3. \A t \in Threads : ~Away(t) /\ ~Inside(t) /\ ~Asleep(t) /\ OwnedOverKept(calls[t])
  BY <1>2 DEF Away, Inside, InsidePositions, Asleep, Coming, OwnedOverKept
<1>4. ~Inside(Heartbeat)
  BY DEF Inside, InsidePositions
<1>5. Control
  BY <1>2, <1>3, <1>4
     DEF Control, InsideOwns, KeptIsOwned, KeptCallsBackOwned, AwayCanReturn,
         OwnerMayRun, OutsideIsUnavailable, DisowningIsActive, OwnerIsAwake
<1>6. Born /\ Targeted
  BY DEF Born, Targeted, Actors
<1>7. QED
  BY <1>1, <1>5, <1>6 DEF IInv, Inv

LEMMA StepOK ==
    ASSUME Inv, image' = image,
           \/ Beating /\ ~Signal(Heartbeat)
           \/ \E t \in Threads : SchedulingLoop(t) \/ Running(t) \/ ComingBack(t) \/ Acquiring(t)
    PROVE  Inv'
<1> USE ConstantsOK
<1>1. CASE Beating /\ ~Signal(Heartbeat)
  <2>1. ASSUME TryLock(Heartbeat, "lock", "look", "loop") PROVE Inv'
    BY <2>1, TryLockOK DEF InsidePositions, Coming, Positions
  <2>2. QED
    BY <1>1, <2>1, BeatOK, HeartbeatLooksOK, EnsureRunningOK DEF Beating
<1>2. ASSUME NEW t \in Threads, SchedulingLoop(t) PROVE Inv'
  <2>1. ASSUME TryLock(t, "lock", "look", "test") PROVE Inv'
    BY <2>1, TryLockOK DEF InsidePositions, Coming, Positions
  <2>2. ASSUME LookAt(t, "look", t, "relinquished?", "test") PROVE Inv'
    BY <2>2, LookAtOK DEF Coming
  <2>3. ASSUME WaitOn(t, "pooled", "loop") PROVE Inv'
    BY <2>3, WaitOnOK
  <2>4. QED
    BY <1>2, <2>1, <2>2, <2>3, StartVMThreadOK, ScheduleOK, HeedRelinquishingOK,
       TryToExecuteOK, TestVMOwnerOK DEF SchedulingLoop
<1>3. ASSUME NEW t \in Threads, Running(t) PROVE Inv'
  BY <1>3, CallOutOK, ReturnFromCallBackOK, CallKeepingVMOK, BlockOK, WakeOK,
     CheckForEventsOK, CedeToHigherOK, CedeOK DEF Running, Leaving
<1>4. ASSUME NEW t \in Threads, ComingBack(t) PROVE Inv'
  BY <1>4, ReturnOK, CallBackOK, ReturnKeepingVMOK DEF ComingBack
<1>5. ASSUME NEW t \in Threads, Acquiring(t) PROVE Inv'
  <2>1. ASSUME TryLock(t, "enter", "entering", "want") PROVE Inv'
    BY <2>1, TryLockOK DEF InsidePositions, Coming, Positions
  <2>2. ASSUME TryLock(t, "retry", "retrying", "spin") PROVE Inv'
    BY <2>2, TryLockOK DEF InsidePositions, Coming, Positions
  <2>3. ASSUME LookAt(t, "entering", t, "back", "want") PROVE Inv'
    BY <2>3, LookAtOK DEF Coming
  <2>4. ASSUME LookAt(t, "retrying", t, "back", "spin") PROVE Inv'
    BY <2>4, LookAtOK DEF Coming
  <2>5. ASSUME WaitOn(t, "dozing", "retry") PROVE Inv'
    BY <2>5, WaitOnOK DEF Coming
  <2>6. QED
    BY <1>5, <2>1, <2>2, <2>3, <2>4, <2>5, WantOwnershipOK, SpinOK,
       WaitingPriorityOK, OwnVMOK DEF Acquiring
<1>6. QED
  BY <1>1, <1>2, <1>3, <1>4, <1>5

LEMMA NextOK == IInv /\ [Next]_vars => IInv'
<1> SUFFICES ASSUME IInv, [Next]_vars PROVE IInv'
  OBVIOUS
<1> USE ConstantsOK
<1>1. Inv /\ Born /\ Targeted /\ TypeOK
  BY DEF IInv, Inv
<1>2. ASSUME image' = image, NEW a \in Actors, Signal(a) PROVE IInv'
  BY <1>2, SignalOK
<1>3. ASSUME image' = image, Beating, ~Signal(Heartbeat) PROVE IInv'
  BY <1>1, <1>3, StepOK, BeatingMoves, MovesOK DEF IInv
<1>4. ASSUME image' = image, NEW t \in Threads,
             SchedulingLoop(t) \/ Running(t) \/ ComingBack(t) \/ Acquiring(t)
      PROVE  IInv'
  <2>1. Inv'
    BY <1>1, <1>4, StepOK
  <2>2. Moves(t)
    BY <1>1, <1>4, LoopMoves, RunningMoves, ComingBackMoves, AcquiringMoves
  <2>3. QED
    BY <1>1, <2>1, <2>2, MovesOK DEF IInv
<1>5. CASE UNCHANGED vars
  <2>1. TypeOK'
    BY <1>1, <1>5 DEF TypeOK, vars, ownership, waiting
  <2>2. Control'
    BY <1>1, <1>5
       DEF vars, ownership, Inv, Control, InsideOwns, KeptIsOwned, KeptCallsBackOwned,
           AwayCanReturn, OwnerMayRun, OutsideIsUnavailable, DisowningIsActive,
           OwnerIsAwake, Inside, HasTop, Top, Away, Asleep
  <2>3. Born' /\ Targeted'
    BY <1>1, <1>5 DEF Born, Targeted, vars
  <2>4. QED
    BY <2>1, <2>2, <2>3 DEF IInv, Inv
<1>6. QED
  BY <1>2, <1>3, <1>4, <1>5 DEF Next

\* Whatever the image does, every variable keeps its type.
THEOREM TypeCorrect == Spec => []TypeOK
<1>1. IInv => TypeOK
  BY DEF IInv, Inv
<1>2. QED
  BY <1>1, InitOK, NextOK, PTL DEF Spec

\* Threads are mutually exclusive inside the VM, for any number of threads and
\* processes: whoever is inside is the owner, and there is one owner.
THEOREM MutualExclusion == Spec => []OneThreadRuns
<1>1. IInv => OneThreadRuns
  <2>1. SUFFICES ASSUME Control, NEW a \in Actors, NEW b \in Actors,
                        Inside(a), Inside(b)
                 PROVE  a = b
    BY DEF OneThreadRuns, IInv, Inv
  <2>2. Owns(a) /\ Owns(b)
    BY <2>1, InsideOwnsVM
  <2>3. QED
    BY <2>2, ConstantsOK DEF Owns, Actors
<1>2. QED
  BY <1>1, InitOK, NextOK, PTL DEF Spec

\* No hand-over loses its signal: an owner that sleeps will be woken.
THEOREM NoLostWakeUp == Spec => []OwnerIsAwake
<1>1. IInv => OwnerIsAwake
  BY DEF IInv, Inv, Control
<1>2. QED
  BY <1>1, InitOK, NextOK, PTL DEF Spec

=============================================================================
