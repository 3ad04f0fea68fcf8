----------------------- MODULE ProcessScheduler_proofs -----------------------
(***************************************************************************)
(* Theorems about ProcessScheduler, for any number of processes,           *)
(* semaphores and priorities: its state keeps its type, the cached bound   *)
(* of the runnable priorities bounds the run queues, and no semaphore has  *)
(* both excess signals and waiters.                                        *)
(*                                                                         *)
(* The three are one inductive invariant, Good: SwitchToHighest is typed   *)
(* because a priority to wake exists, and the bound holds after it because *)
(* it held before.  Each routine has a lemma that says it keeps Good, and  *)
(* the step of an action cites the lemmas of the routines it composes.     *)
(***************************************************************************)
EXTENDS ProcessScheduler, Extremes, TLAPS

-----------------------------------------------------------------------------
(* The inductive invariant, as a predicate on scheduler states.            *)

Bounded(s) ==
    s.highest # 0 =>
       \A l \in Priorities : l > s.highest => s.queue[l] = <<>>

NoneMissed(s) == \A x \in Semaphores : s.excess[x] > 0 => s.queue[x] = <<>>

Good(s) == s \in States /\ Bounded(s) /\ NoneMissed(s)

\* The list l may get a process: it is not a run queue above a known bound,
\* nor a semaphore that has excess signals.
MayQueue(s, l) ==
    /\ l \in Priorities => s.highest = 0 \/ l <= s.highest
    /\ l \in Semaphores => s.excess[l] = 0

-----------------------------------------------------------------------------
(* The routines keep Good.                                                 *)

\* The cached bound is a number.
LEMMA HighestType ==
    ASSUME NEW s \in States
    PROVE  s.highest \in Int
BY PriorityAssumption DEF States

\* addLastLink:toList: keeps Good on a list that may get a process.
LEMMA AddLastLinkGood ==
    ASSUME NEW s, Good(s), NEW p \in Processes, NEW l \in Lists, MayQueue(s, l)
    PROVE  /\ Good(AddLastLink(s, p, l))
           /\ AddLastLink(s, p, l).active = s.active
<1> DEFINE q == [s.queue EXCEPT ![l] = Append(@, p)]
           m == [s.myList EXCEPT ![p] = l]
           t == [s EXCEPT !.queue = q, !.myList = m]
<1>1. q \in [Lists -> Seq(Processes)]
  BY DEF Good, States
<1>2. m \in [Processes -> Lists \cup {NoList}]
  BY DEF Good, States
<1>3. \A k \in Lists : k # l => q[k] = s.queue[k]
  BY DEF Good, States
<1>4. AddLastLink(s, p, l) = t
  BY DEF AddLastLink, Good, States
<1> HIDE DEF q, m
<1>5. t \in States /\ t.active = s.active
  BY <1>1, <1>2 DEF Good, States
<1>6. t.queue = q /\ t.highest = s.highest /\ t.excess = s.excess
  BY DEF Good, States
<1> HIDE DEF t
<1>7. Bounded(t)
  <2> SUFFICES ASSUME s.highest # 0,
                      NEW k \in Priorities, k > s.highest
               PROVE  q[k] = <<>>
    BY <1>6 DEF Bounded
  <2>1. k # l
    BY HighestType, PriorityAssumption DEF Good, MayQueue, Priorities
  <2>2. QED
    BY <1>3, <2>1 DEF Good, Bounded, Lists
<1>8. NoneMissed(t)
  <2> SUFFICES ASSUME NEW x \in Semaphores, s.excess[x] > 0
               PROVE  q[x] = <<>>
    BY <1>6 DEF NoneMissed
  <2>1. x # l
    BY DEF MayQueue
  <2>2. QED
    BY <1>3, <2>1 DEF Good, NoneMissed, Lists
<1>9. QED
  BY <1>4, <1>5, <1>7, <1>8 DEF Good

\* addFirstLink:toList: keeps Good on a list that may get a process.
LEMMA AddFirstLinkGood ==
    ASSUME NEW s, Good(s), NEW p \in Processes, NEW l \in Lists, MayQueue(s, l)
    PROVE  /\ Good(AddFirstLink(s, p, l))
           /\ AddFirstLink(s, p, l).active = s.active
<1> DEFINE q == [s.queue EXCEPT ![l] = <<p>> \o @]
           m == [s.myList EXCEPT ![p] = l]
           t == [s EXCEPT !.queue = q, !.myList = m]
<1>1. q \in [Lists -> Seq(Processes)]
  BY DEF Good, States
<1>2. m \in [Processes -> Lists \cup {NoList}]
  BY DEF Good, States
<1>3. \A k \in Lists : k # l => q[k] = s.queue[k]
  BY DEF Good, States
<1>4. AddFirstLink(s, p, l) = t
  BY DEF AddFirstLink, Good, States
<1> HIDE DEF q, m
<1>5. t \in States /\ t.active = s.active
  BY <1>1, <1>2 DEF Good, States
<1>6. t.queue = q /\ t.highest = s.highest /\ t.excess = s.excess
  BY DEF Good, States
<1> HIDE DEF t
<1>7. Bounded(t)
  <2> SUFFICES ASSUME s.highest # 0,
                      NEW k \in Priorities, k > s.highest
               PROVE  q[k] = <<>>
    BY <1>6 DEF Bounded
  <2>1. k # l
    BY HighestType, PriorityAssumption DEF Good, MayQueue, Priorities
  <2>2. QED
    BY <1>3, <2>1 DEF Good, Bounded, Lists
<1>8. NoneMissed(t)
  <2> SUFFICES ASSUME NEW x \in Semaphores, s.excess[x] > 0
               PROVE  q[x] = <<>>
    BY <1>6 DEF NoneMissed
  <2>1. x # l
    BY DEF MayQueue
  <2>2. QED
    BY <1>3, <2>1 DEF Good, NoneMissed, Lists
<1>9. QED
  BY <1>4, <1>5, <1>7, <1>8 DEF Good

\* A shorter list keeps Good: what removes a process from a list only makes an
\* empty list of a nonempty one, never the other way round.
LEMMA ShorterGood ==
    ASSUME NEW s, Good(s), NEW q \in [Lists -> Seq(Processes)],
           \A l \in Lists : s.queue[l] = <<>> => q[l] = <<>>
    PROVE  /\ Good([s EXCEPT !.queue = q])
           /\ [s EXCEPT !.queue = q].active = s.active
<1> DEFINE t == [s EXCEPT !.queue = q]
<1>1. t \in States /\ t.active = s.active
  BY DEF Good, States
<1>2. t.queue = q /\ t.highest = s.highest /\ t.excess = s.excess
  BY DEF Good, States
<1> HIDE DEF t
<1>3. Bounded(t)
  BY <1>2 DEF Good, Bounded, Lists
<1>4. NoneMissed(t)
  BY <1>2 DEF Good, NoneMissed, Lists
<1>5. QED
  BY <1>1, <1>3, <1>4 DEF Good, t

\* removeFirstLinkOfList: keeps Good and answers a process.
LEMMA RemoveFirstLinkGood ==
    ASSUME NEW s, Good(s), NEW l \in Lists, s.queue[l] # <<>>
    PROVE  /\ Good(RemoveFirstLink(s, l))
           /\ RemoveFirstLink(s, l).active = s.active
           /\ Head(s.queue[l]) \in Processes
<1> DEFINE q == [s.queue EXCEPT ![l] = Tail(@)]
<1>1. s.queue \in [Lists -> Seq(Processes)]
  BY DEF Good, States
<1>2. q \in [Lists -> Seq(Processes)] /\ Head(s.queue[l]) \in Processes
  BY <1>1
<1>3. \A k \in Lists : s.queue[k] = <<>> => q[k] = <<>>
  BY <1>1
<1>4. RemoveFirstLink(s, l) = [s EXCEPT !.queue = q]
  BY DEF RemoveFirstLink, Good, States
<1> HIDE DEF q
<1>5. QED
  BY <1>2, <1>3, <1>4, ShorterGood

\* removeProcess:fromList: keeps Good when the process is on the list.
LEMMA RemoveProcessGood ==
    ASSUME NEW s, Good(s), NEW p, NEW l \in Lists, p \in Elements(s.queue[l])
    PROVE  /\ Good(RemoveProcess(s, p, l))
           /\ RemoveProcess(s, p, l).active = s.active
<1> DEFINE seq == s.queue[l]
           at  == CHOOSE k \in DOMAIN seq : seq[k] = p
           new == SubSeq(seq, 1, at - 1) \o SubSeq(seq, at + 1, Len(seq))
           q   == [s.queue EXCEPT ![l] = new]
<1>1. s.queue \in [Lists -> Seq(Processes)]
  BY DEF Good, States
<1>2. seq \in Seq(Processes) /\ DOMAIN seq = 1 .. Len(seq)
  BY <1>1
<1>3. at \in DOMAIN seq
  BY DEF Elements
<1> HIDE DEF at
<1>4. new \in Seq(Processes)
  <2>1. SubSeq(seq, 1, at - 1) \in Seq(Processes)
    BY <1>2, <1>3
  <2>2. SubSeq(seq, at + 1, Len(seq)) \in Seq(Processes)
    BY <1>2, <1>3
  <2>3. QED
    BY <2>1, <2>2
<1>5. q \in [Lists -> Seq(Processes)]
  BY <1>1, <1>4
<1>6. \A k \in Lists : s.queue[k] = <<>> => q[k] = <<>>
  <2>1. seq # <<>>
    BY <1>3
  <2>2. QED
    BY <1>1, <2>1
<1>7. RemoveProcess(s, p, l) = [s EXCEPT !.queue = q]
  BY DEF RemoveProcess, Good, States, at
<1> HIDE DEF q
<1>8. QED
  BY <1>5, <1>6, <1>7, ShorterGood

\* putToSleep:yieldingIf: keeps Good: it raises a known bound to the priority
\* of the process before it queues it.
LEMMA PutToSleepGood ==
    ASSUME NEW s, Good(s), NEW p \in Processes, NEW yielding
    PROVE  /\ Good(PutToSleep(s, p, yielding))
           /\ PutToSleep(s, p, yielding).active = s.active
<1> DEFINE h == IF s.highest # 0 /\ priority[p] > s.highest
                THEN priority[p] ELSE s.highest
           t == [s EXCEPT !.highest = h]
<1>1. /\ priority[p] \in Priorities /\ priority[p] \in Lists
      /\ priority[p] \notin Semaphores
  BY PriorityAssumption, ListAssumption DEF Lists
<1>2. h \in 0 .. NumPriorities
  BY <1>1, PriorityAssumption DEF Good, States, Priorities
<1>3. h # 0 => s.highest # 0 /\ priority[p] <= h /\ s.highest <= h
  BY <1>1, PriorityAssumption DEF Good, States, Priorities
<1>4. PutToSleep(s, p, yielding) =
         IF yielding THEN AddLastLink(t, p, priority[p])
                     ELSE AddFirstLink(t, p, priority[p])
  BY DEF PutToSleep
<1> HIDE DEF h
<1>5. t \in States /\ t.active = s.active
  BY <1>2 DEF Good, States
<1>6. t.queue = s.queue /\ t.highest = h /\ t.excess = s.excess
  BY DEF Good, States
<1> HIDE DEF t
<1>7. Good(t)
  <2>1. Bounded(t)
    BY <1>2, <1>3, <1>6, PriorityAssumption
       DEF Good, Bounded, Priorities, States
  <2>2. NoneMissed(t)
    BY <1>6 DEF Good, NoneMissed
  <2>3. QED
    BY <1>5, <2>1, <2>2 DEF Good
<1>8. MayQueue(t, priority[p])
  BY <1>1, <1>3, <1>6 DEF MayQueue
<1>9. QED
  BY <1>1, <1>4, <1>5, <1>7, <1>8, AddLastLinkGood, AddFirstLinkGood

\* transferTo: keeps Good and makes the new process active.
LEMMA TransferToGood ==
    ASSUME NEW s, Good(s), NEW p \in Processes, s.active \in Processes
    PROVE  /\ Good(TransferTo(s, p))
           /\ TransferTo(s, p).active = p
<1> DEFINE t == TransferTo(s, p)
<1>1. t \in States
  BY DEF TransferTo, Good, States
<1>2. /\ t.active = p /\ t.queue = s.queue /\ t.highest = s.highest
      /\ t.excess = s.excess
  BY DEF TransferTo, Good, States
<1> HIDE DEF t
<1>3. QED
  BY <1>1, <1>2 DEF Good, Bounded, NoneMissed, t

\* transferTo: wakeHighestPriority keeps Good: the run queues above the woken
\* priority are empty, those it searched because it found nothing live there
\* and evicted the rest, those above the search because of the old bound.
LEMMA SwitchToHighestGood ==
    ASSUME NEW s, Good(s), s.active \in Processes
    PROVE  Good(SwitchToHighest(s))
<1> DEFINE top   == CHOOSE l \in Priorities : IsTop(s, l)
           seq   == s.queue[top]
           first == CHOOSE k \in DOMAIN seq : IsFirst(k, LivePositions(s, top))
           q     == [l \in Lists |->
                       IF l = top
                       THEN SubSeq(s.queue[l], first + 1, Len(s.queue[l]))
                       ELSE IF l \in top + 1 .. SearchFrom(s)
                            THEN <<>> ELSE s.queue[l]]
           woken == [s EXCEPT !.highest = top, !.queue = q]
<1>1. CASE Runnable(s) = {}
  <2>1. SwitchToHighest(s) = [s EXCEPT !.active = Nobody]
    BY <1>1 DEF SwitchToHighest
  <2>2. [s EXCEPT !.active = Nobody] \in States
    BY DEF Good, States
  <2>3. Bounded([s EXCEPT !.active = Nobody])
    BY DEF Good, Bounded, States
  <2>4. NoneMissed([s EXCEPT !.active = Nobody])
    BY DEF Good, NoneMissed, States
  <2>5. QED
    BY <2>1, <2>2, <2>3, <2>4 DEF Good
<1>2. CASE Runnable(s) # {}
  <2>1. s.queue \in [Lists -> Seq(Processes)]
    BY DEF Good, States
  <2>2. /\ SearchFrom(s) \in 1 .. NumPriorities
        /\ s.highest # 0 => SearchFrom(s) = s.highest
        /\ s.highest = 0 => SearchFrom(s) = NumPriorities
    BY PriorityAssumption DEF SearchFrom, Good, States
  <2>3. top \in Priorities /\ top \in Runnable(s)
    <3>1. Runnable(s) \in SUBSET (0 .. NumPriorities)
      BY <2>2, PriorityAssumption DEF Runnable
    <3>2. PICK m \in Runnable(s) : \A l \in Runnable(s) : l <= m
      BY <1>2, <3>1, LargestExists, PriorityAssumption
    <3>3. m \in Priorities /\ IsTop(s, m)
      BY <2>2, <3>2, PriorityAssumption DEF Runnable, Priorities, IsTop
    <3>4. top \in Priorities /\ IsTop(s, top)
      BY <3>3
    <3>5. QED
      BY <3>4 DEF IsTop
  <2>4. top \in Lists /\ top \in 1 .. NumPriorities
    BY <2>3 DEF Lists, Priorities
  <2> HIDE DEF top
  <2>5. seq \in Seq(Processes) /\ DOMAIN seq = 1 .. Len(seq)
    BY <2>1, <2>4
  <2>6. first \in DOMAIN seq
    <3>1. /\ LivePositions(s, top) # {}
          /\ \A k \in LivePositions(s, top) : k \in DOMAIN seq
      BY <2>3 DEF Runnable, LivePositions
    <3>2. LivePositions(s, top) \in SUBSET Nat
      BY <3>1, <2>5
    <3>3. PICK m \in LivePositions(s, top) :
             \A k \in LivePositions(s, top) : m <= k
      BY <3>1, <3>2, SmallestExists
    <3>4. m \in DOMAIN seq /\ IsFirst(m, LivePositions(s, top))
      BY <3>1, <3>3 DEF IsFirst
    <3>5. QED
      BY <3>4
  <2> HIDE DEF first
  <2>7. q \in [Lists -> Seq(Processes)]
    <3>1. ASSUME NEW l \in Lists
          PROVE  s.queue[l] \in Seq(Processes) /\ <<>> \in Seq(Processes)
      BY <2>1
    <3>2. SubSeq(seq, first + 1, Len(seq)) \in Seq(Processes)
      BY <2>5, <2>6
    <3>3. QED
      BY <3>1, <3>2
  <2>8. \A l \in Lists : /\ l # top /\ l \notin top + 1 .. SearchFrom(s)
                                => q[l] = s.queue[l]
                         /\ l # top /\ l \in top + 1 .. SearchFrom(s)
                                => q[l] = <<>>
    OBVIOUS
  <2>9. SwitchToHighest(s) = TransferTo(woken, seq[first])
    BY <1>2 DEF SwitchToHighest, Good, States, top, first
  <2> HIDE DEF q
  <2>10. woken \in States /\ woken.active = s.active
    <3>1. top \in 0 .. NumPriorities
      BY <2>4, PriorityAssumption
    <3> HIDE DEF seq
    <3>2. QED
      BY <3>1, <2>7 DEF Good, States
  <2>11. /\ woken.queue = q /\ woken.highest = top
         /\ woken.excess = s.excess
    BY DEF Good, States
  <2> HIDE DEF woken
  <2>12. Bounded(woken)
    <3> SUFFICES ASSUME NEW l \in Priorities, l > top
                 PROVE  q[l] = <<>>
      BY <2>11 DEF Bounded
    <3>1. l \in Lists /\ l \in Int /\ l # top
      BY <2>4, PriorityAssumption DEF Lists, Priorities
    <3>2. CASE l <= SearchFrom(s)
      BY <2>2, <2>4, <2>8, <3>1, <3>2
    <3>3. CASE ~(l <= SearchFrom(s))
      <4>1. s.highest # 0 /\ l > s.highest
        BY <2>2, <3>1, <3>3, PriorityAssumption DEF Priorities
      <4>2. s.queue[l] = <<>>
        BY <4>1 DEF Good, Bounded
      <4>3. QED
        BY <2>2, <2>4, <2>8, <3>1, <3>3, <4>2
    <3>4. QED
      BY <3>2, <3>3
  <2>13. NoneMissed(woken)
    <3> SUFFICES ASSUME NEW x \in Semaphores, s.excess[x] > 0
                 PROVE  q[x] = <<>>
      BY <2>11 DEF NoneMissed
    <3>1. top + 1 .. SearchFrom(s) \subseteq Priorities
      BY <2>2, <2>4, PriorityAssumption DEF Priorities
    <3>2. x \in Lists /\ x # top /\ x \notin top + 1 .. SearchFrom(s)
      BY <2>3, <3>1, ListAssumption DEF Lists
    <3>3. s.queue[x] = <<>>
      BY DEF Good, NoneMissed
    <3>4. QED
      BY <2>8, <3>2, <3>3
  <2>14. seq[first] \in Processes
    BY <2>5, <2>6
  <2>15. QED
    BY <2>9, <2>10, <2>12, <2>13, <2>14, TransferToGood DEF Good
<1>3. QED
  BY <1>1, <1>2

\* resume:preemptedYieldingIf: keeps Good.
LEMMA ResumeGood ==
    ASSUME NEW s, Good(s), s.active \in Processes,
           NEW p \in Processes, NEW yielding
    PROVE  Good(Resume(s, p, yielding))
BY PutToSleepGood, TransferToGood DEF Resume

\* synchronousSignal: keeps Good: it counts the signal only if nothing waits.
LEMMA SynchronousSignalGood ==
    ASSUME NEW s, Good(s), s.active \in Processes,
           NEW x \in Semaphores, NEW yielding
    PROVE  Good(SynchronousSignal(s, x, yielding))
<1>1. x \in Lists
  BY DEF Lists
<1>2. CASE IsEmptyList(s, x)
  <2> DEFINE e == [s.excess EXCEPT ![x] = @ + 1]
             t == [s EXCEPT !.excess = e]
  <2>1. e \in [Semaphores -> Nat]
    BY DEF Good, States
  <2>2. \A y \in Semaphores : y # x => e[y] = s.excess[y]
    BY DEF Good, States
  <2>3. SynchronousSignal(s, x, yielding) = t
    BY <1>2 DEF SynchronousSignal
  <2> HIDE DEF e
  <2>4. t \in States
    BY <2>1 DEF Good, States
  <2>5. t.queue = s.queue /\ t.highest = s.highest /\ t.excess = e
    BY DEF Good, States
  <2> HIDE DEF t
  <2>6. Bounded(t)
    BY <2>5 DEF Good, Bounded
  <2>7. NoneMissed(t)
    BY <1>2, <2>2, <2>5 DEF Good, NoneMissed, IsEmptyList
  <2>8. QED
    BY <2>3, <2>4, <2>6, <2>7 DEF Good
<1>3. CASE ~IsEmptyList(s, x)
  <2>1. s.queue[x] # <<>>
    BY <1>3 DEF IsEmptyList
  <2>2. QED
    BY <1>1, <1>3, <2>1, RemoveFirstLinkGood, ResumeGood DEF SynchronousSignal
<1>4. QED
  BY <1>2, <1>3

-----------------------------------------------------------------------------
(* The primitives keep Good.                                               *)

\* What leaves the queues and the bound alone and adds no signal keeps Good.
LEMMA SameQueuesGood ==
    ASSUME NEW s, Good(s), NEW t \in States,
           t.queue = s.queue, t.highest = s.highest,
           \A x \in Semaphores : t.excess[x] > 0 => s.excess[x] > 0
    PROVE  Good(t)
BY DEF Good, Bounded, NoneMissed

\* Taking a critical section keeps Good.
LEMMA TakeGood ==
    ASSUME NEW s, Good(s), s.active \in Processes, NEW cs \in CriticalSections
    PROVE  Good(Take(s, cs))
<1> DEFINE o == [s.owner EXCEPT ![cs] = s.active]
           i == [s.inside EXCEPT ![cs] = @ \cup {s.active}]
           t == [s EXCEPT !.owner = o, !.inside = i]
<1>1. /\ o \in [CriticalSections -> Processes \cup {Nobody}]
      /\ i \in [CriticalSections -> SUBSET Processes]
  BY DEF Good, States
<1>2. Take(s, cs) = t
  BY DEF Take
<1> HIDE DEF o, i
<1>3. /\ t \in States /\ t.queue = s.queue /\ t.highest = s.highest
      /\ t.excess = s.excess
  BY <1>1 DEF Good, States
<1> HIDE DEF t
<1>4. QED
  BY <1>2, <1>3, SameQueuesGood

\* What a primitive's first steps leave the queues and the bound to be.
LEMMA PrimitiveSignal ==
    ASSUME Good(sched), NEW x \in Semaphores, Signal(x)
    PROVE  Good(sched')
BY SynchronousSignalGood DEF Signal, Primitive, Running, Commit, Becomes

LEMMA PrimitiveWait ==
    ASSUME Good(sched), NEW x \in Semaphores, Wait(x)
    PROVE  Good(sched')
<1>1. CASE sched.excess[x] > 0 /\ Commit([sched EXCEPT !.excess[x] = @ - 1])
  <2> DEFINE e == [sched.excess EXCEPT ![x] = @ - 1]
             t == [sched EXCEPT !.excess = e]
  <2>1. e \in [Semaphores -> Nat]
    BY <1>1 DEF Good, States
  <2>2. \A y \in Semaphores : e[y] > 0 => sched.excess[y] > 0
    BY <1>1 DEF Good, States
  <2>3. sched' = t
    BY <1>1 DEF Commit, Becomes
  <2> HIDE DEF e
  <2>4. /\ t \in States /\ t.queue = sched.queue /\ t.highest = sched.highest
        /\ t.excess = e
    BY <2>1 DEF Good, States
  <2> HIDE DEF t
  <2>5. QED
    BY <2>2, <2>3, <2>4, SameQueuesGood
<1>2. CASE /\ sched.excess[x] = 0
           /\ Commit(SwitchToHighest(AddLastLink(sched, sched.active, x)))
  <2>1. x \in Lists /\ x \notin Priorities
    BY ListAssumption DEF Lists
  <2>2. MayQueue(sched, x)
    BY <1>2, <2>1 DEF MayQueue
  <2>3. sched.active \in Processes
    BY DEF Wait, Primitive, Running
  <2>4. QED
    BY <1>2, <2>1, <2>2, <2>3, AddLastLinkGood, SwitchToHighestGood
       DEF Commit, Becomes
<1>3. QED
  BY <1>1, <1>2 DEF Wait

LEMMA PrimitiveYield ==
    ASSUME Good(sched), Yield
    PROVE  Good(sched')
<1> DEFINE l == priority[sched.active]
<1>1. sched.active \in Processes /\ sched.queue[l] # <<>>
  BY DEF Yield, Primitive, Running, IsEmptyList
<1>2. l \in Priorities /\ l \in Lists /\ l \notin Semaphores
  BY <1>1, PriorityAssumption, ListAssumption DEF Lists
<1>3. sched.highest = 0 \/ ~(l > sched.highest)
  BY <1>1, <1>2 DEF Good, Bounded
<1>4. MayQueue(sched, l)
  BY <1>2, <1>3, HighestType, PriorityAssumption DEF MayQueue, Good, Priorities
<1>5. sched' = SwitchToHighest(AddLastLink(sched, sched.active, l))
  BY DEF Yield, Commit, Becomes
<1> HIDE DEF l
<1>6. QED
  BY <1>1, <1>2, <1>4, <1>5, AddLastLinkGood, SwitchToHighestGood

LEMMA PrimitiveResumeGood ==
    ASSUME Good(sched), NEW p \in Processes, PrimitiveResume(p)
    PROVE  Good(sched')
BY ResumeGood DEF PrimitiveResume, Primitive, Running, Commit, Becomes

LEMMA PrimitiveSuspendGood ==
    ASSUME Good(sched), NEW p \in Processes, PrimitiveSuspend(p)
    PROVE  Good(sched')
<1>1. CASE Commit(SwitchToHighest(sched))
  BY <1>1, SwitchToHighestGood
     DEF PrimitiveSuspend, Primitive, Running, Commit, Becomes
<1>2. CASE LET l == sched.myList[p]
           IN /\ l # NoList
              /\ p \in Elements(sched.queue[l])
              /\ Commit([RemoveProcess(sched, p, l) EXCEPT !.myList[p] = NoList])
  <2> DEFINE l == sched.myList[p]
             r == RemoveProcess(sched, p, l)
             m == [r.myList EXCEPT ![p] = NoList]
             t == [r EXCEPT !.myList = m]
  <2>1. l \in Lists
    BY <1>2 DEF Good, States
  <2> HIDE DEF l
  <2>2. Good(r)
    BY <1>2, <2>1, RemoveProcessGood DEF l
  <2>3. sched' = t
    BY <1>2 DEF Commit, Becomes, l
  <2> HIDE DEF r
  <2>4. m \in [Processes -> Lists \cup {NoList}]
    BY <2>2 DEF Good, States
  <2> HIDE DEF m
  <2>5. /\ t \in States /\ t.queue = r.queue /\ t.highest = r.highest
        /\ t.excess = r.excess
    BY <2>2, <2>4 DEF Good, States
  <2> HIDE DEF t
  <2>6. QED
    BY <2>2, <2>3, <2>5, SameQueuesGood
<1>3. QED
  BY <1>1, <1>2 DEF PrimitiveSuspend

LEMMA PrimitiveEnterGood ==
    ASSUME Good(sched), NEW cs \in CriticalSections, EnterCriticalSection(cs)
    PROVE  Good(sched')
<1> DEFINE p == sched.active
           a == [sched.answering EXCEPT ![p] = @ \cup {cs}]
           t == [sched EXCEPT !.answering = a]
<1>1. p \in Processes
  BY DEF EnterCriticalSection, Primitive, Running
<1>2. CASE Commit(Take(sched, cs))
  BY <1>1, <1>2, TakeGood DEF Commit, Becomes
<1>3. CASE Commit(sched)
  BY <1>3 DEF Commit, Becomes
<1>4. CASE Commit(SwitchToHighest(AddLastLink(t, p, cs)))
  <2>1. a \in [Processes -> SUBSET CriticalSections]
    BY <1>1 DEF Good, States
  <2> HIDE DEF a
  <2>2. /\ t \in States /\ t.queue = sched.queue /\ t.highest = sched.highest
        /\ t.excess = sched.excess /\ t.active = p
    BY <2>1 DEF Good, States
  <2> HIDE DEF t
  <2>3. Good(t)
    BY <2>2, SameQueuesGood
  <2>4. cs \in Lists /\ MayQueue(t, cs)
    BY ListAssumption DEF Lists, MayQueue
  <2>5. QED
    BY <1>1, <1>4, <2>2, <2>3, <2>4, AddLastLinkGood, SwitchToHighestGood
       DEF Commit, Becomes
<1>5. QED
  BY <1>2, <1>3, <1>4 DEF EnterCriticalSection

LEMMA PrimitiveTestAndSetGood ==
    ASSUME Good(sched), NEW cs \in CriticalSections, TestAndSetOwnership(cs)
    PROVE  Good(sched')
BY TakeGood DEF TestAndSetOwnership, Primitive, Running, Commit, Becomes

LEMMA PrimitiveExitGood ==
    ASSUME Good(sched), NEW cs \in CriticalSections, ExitCriticalSection(cs)
    PROVE  Good(sched')
<1> DEFINE i   == [sched.inside EXCEPT ![cs] = @ \ {sched.active}]
           out == [sched EXCEPT !.inside = i]
<1>1. sched.active \in Processes
  BY DEF ExitCriticalSection, Primitive, Running
<1>2. i \in [CriticalSections -> SUBSET Processes]
  BY DEF Good, States
<1>3. IF IsEmptyList(out, cs)
      THEN sched' = [out EXCEPT !.owner[cs] = Nobody]
      ELSE sched' = Resume([RemoveFirstLink(out, cs)
                              EXCEPT !.owner[cs] = Head(out.queue[cs])],
                           Head(out.queue[cs]), preemptionYields)
  BY DEF ExitCriticalSection, Commit, Becomes
<1> HIDE DEF i
<1>4. /\ out \in States /\ out.queue = sched.queue
      /\ out.highest = sched.highest /\ out.excess = sched.excess
      /\ out.active = sched.active
  BY <1>2 DEF Good, States
<1> HIDE DEF out
<1>5. Good(out)
  BY <1>4, SameQueuesGood
\* Giving the section to another owner keeps Good.
<1>6. ASSUME NEW s, Good(s), NEW p \in Processes \cup {Nobody}
      PROVE  /\ Good([s EXCEPT !.owner[cs] = p])
             /\ [s EXCEPT !.owner[cs] = p].active = s.active
  <2> DEFINE o == [s.owner EXCEPT ![cs] = p]
             t == [s EXCEPT !.owner = o]
  <2>1. o \in [CriticalSections -> Processes \cup {Nobody}]
    BY <1>6 DEF Good, States
  <2> HIDE DEF o
  <2>2. /\ t \in States /\ t.queue = s.queue /\ t.highest = s.highest
        /\ t.excess = s.excess /\ t.active = s.active
    BY <1>6, <2>1 DEF Good, States
  <2> HIDE DEF t
  <2>3. Good(t) /\ t.active = s.active
    BY <1>6, <2>2, SameQueuesGood
  <2>4. QED
    BY <2>3 DEF t, o
<1>7. CASE IsEmptyList(out, cs)
  BY <1>3, <1>5, <1>6, <1>7
<1>8. CASE ~IsEmptyList(out, cs)
  <2> DEFINE r == RemoveFirstLink(out, cs)
             p == Head(out.queue[cs])
  <2>1. Good(r) /\ r.active = sched.active /\ p \in Processes
    BY <1>4, <1>5, <1>8, RemoveFirstLinkGood DEF IsEmptyList, Lists
  <2>2. sched' = Resume([r EXCEPT !.owner[cs] = p], p, preemptionYields)
    BY <1>3, <1>8
  <2> HIDE DEF r, p
  <2>3. QED
    BY <1>1, <1>6, <2>1, <2>2, ResumeGood
<1>9. QED
  BY <1>7, <1>8

LEMMA TerminateGood ==
    ASSUME Good(sched), NEW p \in Processes, Terminate(p)
    PROVE  Good(sched')
<1> DEFINE c == [sched.context EXCEPT ![p] = FALSE]
           t == [sched EXCEPT !.context = c]
<1>1. c \in [Processes -> BOOLEAN]
  BY DEF Good, States
<1>2. sched' = t
  BY DEF Terminate
<1> HIDE DEF c
<1>3. /\ t \in States /\ t.queue = sched.queue /\ t.highest = sched.highest
      /\ t.excess = sched.excess
  BY <1>1 DEF Good, States
<1> HIDE DEF t
<1>4. QED
  BY <1>2, <1>3, SameQueuesGood
-----------------------------------------------------------------------------
(* The event check keeps Good, and its place stays in range.               *)

\* The check visits each of EventOrder's events, then the external semaphores.
LEMMA EventOrderType ==
    /\ External = 7
    /\ DOMAIN EventOrder = 1 .. 6
    /\ \A k \in DOMAIN EventOrder : EventOrder[k] \in Events
<1>1. DOMAIN EventOrder = 1 .. 6 /\ Len(EventOrder) = 6
  BY DEF EventOrder
<1>2. \A k \in 1 .. 6 : EventOrder[k] \in Events
  <2>1. /\ EventOrder[1] = "profile" /\ EventOrder[2] = "longRunning"
        /\ EventOrder[3] = "lowSpace" /\ EventOrder[4] = "interrupt"
        /\ EventOrder[5] = "timer" /\ EventOrder[6] = "finalization"
    BY DEF EventOrder
  <2>2. \A k \in 1 .. 6 : k = 1 \/ k = 2 \/ k = 3 \/ k = 4 \/ k = 5 \/ k = 6
    OBVIOUS
  <2>3. QED
    BY <2>1, <2>2 DEF Events
<1>3. QED
  BY <1>1, <1>2 DEF External

LEMMA CheckEventGood ==
    ASSUME Good(sched), CheckEvent
    PROVE  Good(sched')
<1> DEFINE e == EventOrder[check]
           x == EventSemaphore[e]
<1>1. e \in Events /\ sched.active \in Processes
  BY EventOrderType DEF CheckEvent, Running
<1>2. x # NoSemaphore => x \in Semaphores
  BY <1>1, EventAssumption
<1>3. \/ UNCHANGED sched
      \/ /\ x # NoSemaphore
         /\ sched' = SynchronousSignal(sched, x, preemptionYields)
  BY DEF CheckEvent, Becomes
<1> HIDE DEF x
<1>4. QED
  BY <1>1, <1>2, <1>3, SynchronousSignalGood

LEMMA SignalExternalGood ==
    ASSUME Good(sched), NEW x \in Semaphores, SignalExternal(x)
    PROVE  Good(sched')
BY SynchronousSignalGood DEF SignalExternal, Running, Becomes

-----------------------------------------------------------------------------
(* The inductive invariant and the theorems.                               *)

FlagsType == /\ preemptionYields \in BOOLEAN
             /\ pending \subseteq Events
             /\ check \in 0 .. External

SchedulerInv == Good(sched) /\ FlagsType

LEMMA InitGood == Init => SchedulerInv
<1> SUFFICES ASSUME Init PROVE SchedulerInv
  OBVIOUS
<1>1. sched \in States
  BY PriorityAssumption, ProcessAssumption DEF Init, States
<1>2. Bounded(sched) /\ NoneMissed(sched)
  BY DEF Init, Bounded, NoneMissed
<1>3. FlagsType
  BY EventOrderType DEF Init, FlagsType
<1>4. QED
  BY <1>1, <1>2, <1>3 DEF SchedulerInv, Good

\* Every action keeps the scheduler's objects good.
LEMMA NextGood == SchedulerInv /\ [Next]_vars => Good(sched)'
<1> SUFFICES ASSUME Good(sched), [Next]_vars PROVE Good(sched')
  BY DEF SchedulerInv
<1>1. ASSUME NEW x \in Semaphores, Signal(x) \/ Wait(x)
      PROVE  Good(sched')
  BY <1>1, PrimitiveSignal, PrimitiveWait
<1>2. CASE Yield
  BY <1>2, PrimitiveYield
<1>3. ASSUME NEW p \in Processes,
             PrimitiveResume(p) \/ PrimitiveSuspend(p) \/ Terminate(p)
      PROVE  Good(sched')
  BY <1>3, PrimitiveResumeGood, PrimitiveSuspendGood, TerminateGood
<1>4. ASSUME NEW cs \in CriticalSections,
             \/ EnterCriticalSection(cs)
             \/ TestAndSetOwnership(cs)
             \/ ExitCriticalSection(cs)
      PROVE  Good(sched')
  BY <1>4, PrimitiveEnterGood, PrimitiveTestAndSetGood, PrimitiveExitGood
<1>5. CASE CheckEvent
  BY <1>5, CheckEventGood
<1>6. ASSUME NEW x \in Semaphores, SignalExternal(x)
      PROVE  Good(sched')
  BY <1>6, SignalExternalGood
<1>7. ASSUME \/ \E e \in RaisedEvents : Raise(e)
             \/ EnterEventCheck \/ LeaveEventCheck \/ SetCogVMFlags
             \/ UNCHANGED vars
      PROVE  Good(sched')
  <2>1. UNCHANGED sched
    BY <1>7 DEF Raise, EnterEventCheck, LeaveEventCheck, SetCogVMFlags, vars
  <2>2. QED
    BY <2>1
<1>8. QED
  BY <1>1, <1>2, <1>3, <1>4, <1>5, <1>6, <1>7 DEF Next

\* Every action keeps the flags and the place of the event check in range.
LEMMA NextFlags == SchedulerInv /\ [Next]_vars => FlagsType'
<1> SUFFICES ASSUME FlagsType, [Next]_vars PROVE FlagsType'
  BY DEF SchedulerInv
<1>1. ASSUME NEW x \in Semaphores, Signal(x) \/ Wait(x) \/ SignalExternal(x)
      PROVE  FlagsType'
  BY <1>1 DEF Signal, Wait, SignalExternal, Commit, FlagsType
<1>2. CASE Yield
  BY <1>2 DEF Yield, Commit, FlagsType
<1>3. ASSUME NEW p \in Processes,
             PrimitiveResume(p) \/ PrimitiveSuspend(p) \/ Terminate(p)
      PROVE  FlagsType'
  BY <1>3 DEF PrimitiveResume, PrimitiveSuspend, Terminate, Commit, FlagsType
<1>4. ASSUME NEW cs \in CriticalSections,
             \/ EnterCriticalSection(cs)
             \/ TestAndSetOwnership(cs)
             \/ ExitCriticalSection(cs)
      PROVE  FlagsType'
  BY <1>4 DEF EnterCriticalSection, TestAndSetOwnership, ExitCriticalSection,
              Commit, FlagsType
<1>5. CASE CheckEvent
  <2>1. UNCHANGED preemptionYields /\ pending' \subseteq Events
    BY <1>5 DEF CheckEvent, FlagsType
  <2>2. check' \in 0 .. External
    BY <1>5, EventOrderType DEF CheckEvent, FlagsType
  <2>3. QED
    BY <2>1, <2>2 DEF FlagsType, External
<1>6. ASSUME NEW e \in RaisedEvents, Raise(e)
      PROVE  FlagsType'
  BY <1>6, EventAssumption DEF Raise, FlagsType
<1>7. ASSUME EnterEventCheck \/ LeaveEventCheck
      PROVE  FlagsType'
  BY <1>7, EventOrderType DEF EnterEventCheck, LeaveEventCheck, FlagsType
<1>8. CASE SetCogVMFlags
  BY <1>8 DEF SetCogVMFlags, FlagsType
<1>9. CASE UNCHANGED vars
  BY <1>9 DEF vars, FlagsType
<1>10. QED
  BY <1>1, <1>2, <1>3, <1>4, <1>5, <1>6, <1>7, <1>8, <1>9 DEF Next

LEMMA SchedulerInvariant == Spec => []SchedulerInv
<1>1. SchedulerInv /\ [Next]_vars => SchedulerInv'
  BY NextGood, NextFlags DEF SchedulerInv
<1>2. QED
  BY InitGood, <1>1, PTL DEF Spec

\* The scheduler's state keeps its type; that wakeHighestPriority chooses a
\* run queue and a process that exist is part of it.
THEOREM TypeCorrect == Spec => []TypeOK
<1>1. SchedulerInv => TypeOK
  BY DEF SchedulerInv, Good, FlagsType, TypeOK
<1>2. QED
  BY SchedulerInvariant, <1>1, PTL

\* The cached bound of wakeHighestPriority is never below a queued process.
THEOREM CacheIsBound == Spec => []CacheBoundsQueues
<1>1. SchedulerInv => CacheBoundsQueues
  BY DEF SchedulerInv, Good, Bounded, CacheBoundsQueues
<1>2. QED
  BY SchedulerInvariant, <1>1, PTL

\* A semaphore with excess signals has no waiters.
THEOREM NoWakeupIsMissed == Spec => []NoWakeupMissed
<1>1. SchedulerInv => NoWakeupMissed
  BY DEF SchedulerInv, Good, NoneMissed, NoWakeupMissed, IsEmptyList
<1>2. QED
  BY SchedulerInvariant, <1>1, PTL
=============================================================================
