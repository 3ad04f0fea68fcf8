-------------------- MODULE VMOwnershipProcesses_proofs --------------------
(***************************************************************************)
(* Theorems about the processes of VMOwnership, for any threads and        *)
(* processes.                                                              *)
(*                                                                         *)
(* A process that is away in external code is on exactly one thread's      *)
(* list, once: InPlace, an invariant of the interpreter's state alone, but *)
(* for who may preempt and come back.  What a call, or a callback out of   *)
(* it, left away with its thread is what it comes back to (Callers), and   *)
(* that process may run on that thread (Homes).  So no process runs on a   *)
(* thread other than the one it is affined to, for any image.              *)
(*                                                                         *)
(* Whoever runs the image is fit to and its process is on no list (Ours):  *)
(* this for images all of whose calls give the VM up, since a callback out *)
(* of another call leaves the thread disowning a VM that it owns.          *)
(***************************************************************************)
EXTENDS VMOwnership_proofs, SequenceTheorems

-----------------------------------------------------------------------------
(* Processes that are away.                                                *)

\* No process is twice on the lists of the threads.
AwayOnce(v) ==
    \A t, u \in Threads :
       \A j \in 1 .. Len(v.awolProcesses[t]), k \in 1 .. Len(v.awolProcesses[u]) :
          v.awolProcesses[t][j] = v.awolProcesses[u][k] => t = u /\ j = k

AwayIsMarked(v) ==
    \A t \in Threads : \A j \in 1 .. Len(v.awolProcesses[t]) :
       v.myList[v.awolProcesses[t][j]] = "external"

MarkedIsAway(v) ==
    \A r \in Processes : v.myList[r] = "external" =>
       \E t \in Threads : \E j \in 1 .. Len(v.awolProcesses[t]) :
          v.awolProcesses[t][j] = r

ActiveIsHere(v) == v.activeProcess \in Processes =>
                      v.myList[v.activeProcess] # "external"

Places(v) == AwayOnce(v) /\ AwayIsMarked(v) /\ MarkedIsAway(v)

InPlace(v) == Places(v) /\ ActiveIsHere(v)

LEMMA AppendElements ==
    ASSUME NEW S, NEW seq \in Seq(S), NEW e \in S
    PROVE  /\ Len(Append(seq, e)) = Len(seq) + 1
           /\ Append(seq, e)[Len(seq) + 1] = e
           /\ \A k \in 1 .. Len(seq) : Append(seq, e)[k] = seq[k]
OBVIOUS

LEMMA FrontElements ==
    ASSUME NEW S, NEW seq \in Seq(S), seq # <<>>
    PROVE  /\ Len(seq) \in Nat \ {0}
           /\ SubSeq(seq, 1, Len(seq) - 1) \in Seq(S)
           /\ Len(SubSeq(seq, 1, Len(seq) - 1)) = Len(seq) - 1
           /\ \A k \in 1 .. Len(seq) - 1 : SubSeq(seq, 1, Len(seq) - 1)[k] = seq[k]
<1>1. Len(seq) \in Nat \ {0}
  BY EmptySeq
<1> DEFINE n == Len(seq) - 1
<1>2. n \in Nat /\ n <= Len(seq) /\ \A k \in 1 .. n : seq[k] \in S
  BY <1>1
<1> HIDE DEF n
<1>3. n \in Nat
  BY <1>1 DEF n
<1>4. /\ SubSeq(seq, 1, n) \in Seq(S)
      /\ Len(SubSeq(seq, 1, n)) = IF 1 <= n THEN n - 1 + 1 ELSE 0
      /\ \A k \in 1 .. n - 1 + 1 : SubSeq(seq, 1, n)[k] = seq[1 + k - 1]
  BY <1>2, <1>3, SubSeqProperties
<1>5. /\ Len(SubSeq(seq, 1, n)) = n
      /\ \A k \in 1 .. n : SubSeq(seq, 1, n)[k] = seq[k]
  BY <1>3, <1>4
<1>6. QED
  BY <1>1, <1>4, <1>5 DEF n

\* Lists that change, but not between external and the others.
LEMMA PlacesStay ==
    ASSUME NEW v \in VMStates, NEW w \in VMStates, Places(v),
           w.awolProcesses = v.awolProcesses,
           \A r \in Processes : w.myList[r] = "external" <=> v.myList[r] = "external"
    PROVE  Places(w)
<1>1. \A t \in Threads : v.awolProcesses[t] \in Seq(Processes)
  BY DEF VMStates
<1>2. \A t \in Threads : \A j \in 1 .. Len(v.awolProcesses[t]) :
         v.awolProcesses[t][j] \in Processes
  BY <1>1
<1>3. QED
  BY <1>2 DEF Places, AwayOnce, AwayIsMarked, MarkedIsAway

LEMMA SetActiveStays ==
    ASSUME NEW v \in VMStates, NEW p \in Processes, Places(v), v.myList[p] # "external"
    PROVE  InPlace(SetActive(v, p))
<1> DEFINE w == SetActive(v, p)
<1>1. /\ w \in VMStates /\ w.activeProcess = p
      /\ w.awolProcesses = v.awolProcesses
  BY SetActiveType
<1>2. /\ w.myList[p] = "nil"
      /\ \A r \in Processes : r # p => w.myList[r] = v.myList[r]
  BY DEF SetActive, VMStates
<1> HIDE DEF w
<1>3. Places(w)
  BY <1>1, <1>2, PlacesStay
<1>4. QED
  BY <1>1, <1>2, <1>3 DEF InPlace, ActiveIsHere, w

LEMMA MakeReadyStays ==
    ASSUME NEW v \in VMStates, NEW p \in Processes, InPlace(v), v.myList[p] # "external"
    PROVE  /\ InPlace(MakeReady(v, p))
           /\ \A r \in Processes : r # p => MakeReady(v, p).myList[r] = v.myList[r]
<1> DEFINE w == MakeReady(v, p)
<1>1. /\ w \in VMStates /\ w.activeProcess = v.activeProcess
      /\ w.awolProcesses = v.awolProcesses
  BY MakeReadyType
<1>2. /\ w.myList[p] = "ready"
      /\ \A r \in Processes : r # p => w.myList[r] = v.myList[r]
  BY DEF MakeReady, VMStates
<1> HIDE DEF w
<1>3. Places(w)
  BY <1>1, <1>2, PlacesStay DEF InPlace
<1>4. QED
  BY <1>1, <1>2, <1>3 DEF InPlace, ActiveIsHere, w

\* A preempted process joins the list of the thread that disowned the VM.
LEMMA PreemptPlaces ==
    ASSUME NEW v \in VMStates, v.disowningVMThread # NoThread,
           v.activeProcess \in Processes, InPlace(v)
    PROVE  /\ Places(PreemptDisowningThread(v))
           /\ PreemptDisowningThread(v).myList[v.activeProcess] = "external"
<1> DEFINE t == v.disowningVMThread
           p == v.activeProcess
           w == PreemptDisowningThread(v)
           old == v.awolProcesses[t]
<1>1. t \in Threads /\ p \in Processes /\ w \in VMStates /\ old \in Seq(Processes)
  BY ConstantsOK, PreemptType DEF VMStates
<1>2. /\ w.awolProcesses = [v.awolProcesses EXCEPT ![t] = Append(old, p)]
      /\ w.myList = [v.myList EXCEPT ![p] = "external"]
  BY DEF PreemptDisowningThread, VMStates
<1>3. /\ v.awolProcesses \in [Threads -> Seq(Processes)]
      /\ v.myList \in [Processes -> {"nil", "ready", "blocked", "external"}]
  BY DEF VMStates
<1>4. /\ w.awolProcesses[t] = Append(old, p)
      /\ \A u \in Threads : u # t => w.awolProcesses[u] = v.awolProcesses[u]
      /\ w.myList[p] = "external"
      /\ \A r \in Processes : r # p => w.myList[r] = v.myList[r]
  BY <1>1, <1>2, <1>3
<1>5. /\ Len(Append(old, p)) = Len(old) + 1 /\ Len(old) \in Nat
      /\ Append(old, p)[Len(old) + 1] = p
      /\ \A k \in 1 .. Len(old) : Append(old, p)[k] = old[k]
  BY <1>1, AppendElements
<1>6. \A u \in Threads : \A k \in 1 .. Len(v.awolProcesses[u]) :
         v.awolProcesses[u][k] \in Processes
  BY <1>3
\* Nobody has p yet.
<1>7. \A u \in Threads : \A k \in 1 .. Len(v.awolProcesses[u]) : v.awolProcesses[u][k] # p
  BY <1>1 DEF InPlace, Places, AwayIsMarked, ActiveIsHere
\* A place on a list is the new one or an old one.
<1>8. ASSUME NEW u \in Threads, NEW k \in 1 .. Len(w.awolProcesses[u])
      PROVE  \/ u = t /\ k = Len(old) + 1 /\ w.awolProcesses[u][k] = p
             \/ /\ k \in 1 .. Len(v.awolProcesses[u])
                /\ w.awolProcesses[u][k] = v.awolProcesses[u][k]
  <2>1. CASE u # t
    BY <1>4, <2>1
  <2>2. CASE u = t
    <3>1. k \in 1 .. Len(old) + 1
      BY <1>4, <1>5, <1>8, <2>2
    <3>2. CASE k = Len(old) + 1
      BY <1>4, <1>5, <2>2, <3>2
    <3>3. CASE k # Len(old) + 1
      <4>1. k \in 1 .. Len(old)
        BY <1>5, <3>1, <3>3
      <4>2. QED
        BY <1>4, <1>5, <2>2, <4>1
    <3>4. QED
      BY <3>2, <3>3
  <2>3. QED
    BY <2>1, <2>2
<1> HIDE DEF w, p, t, old
<1>9. AwayOnce(w)
  <2>1. SUFFICES ASSUME NEW u1 \in Threads, NEW u2 \in Threads,
                        NEW k1 \in 1 .. Len(w.awolProcesses[u1]),
                        NEW k2 \in 1 .. Len(w.awolProcesses[u2]),
                        w.awolProcesses[u1][k1] = w.awolProcesses[u2][k2]
                 PROVE  u1 = u2 /\ k1 = k2
    BY DEF AwayOnce
  <2>2. \/ u1 = t /\ k1 = Len(old) + 1 /\ w.awolProcesses[u1][k1] = p
        \/ /\ k1 \in 1 .. Len(v.awolProcesses[u1])
           /\ w.awolProcesses[u1][k1] = v.awolProcesses[u1][k1]
    BY <1>8
  <2>3. \/ u2 = t /\ k2 = Len(old) + 1 /\ w.awolProcesses[u2][k2] = p
        \/ /\ k2 \in 1 .. Len(v.awolProcesses[u2])
           /\ w.awolProcesses[u2][k2] = v.awolProcesses[u2][k2]
    BY <1>8
  <2>4. QED
    BY <1>7, <2>1, <2>2, <2>3 DEF InPlace, Places, AwayOnce
<1>10. AwayIsMarked(w)
  <2>1. SUFFICES ASSUME NEW u \in Threads, NEW k \in 1 .. Len(w.awolProcesses[u])
                 PROVE  w.myList[w.awolProcesses[u][k]] = "external"
    BY DEF AwayIsMarked
  <2>2. QED
    <3>1. CASE w.awolProcesses[u][k] = p
      BY <1>4, <3>1
    <3>2. CASE /\ k \in 1 .. Len(v.awolProcesses[u])
               /\ w.awolProcesses[u][k] = v.awolProcesses[u][k]
      <4>1. /\ v.awolProcesses[u][k] \in Processes /\ v.awolProcesses[u][k] # p
            /\ v.myList[v.awolProcesses[u][k]] = "external"
        BY <1>6, <1>7, <3>2 DEF InPlace, Places, AwayIsMarked
      <4>2. QED
        BY <1>4, <3>2, <4>1
    <3>3. QED
      BY <1>8, <3>1, <3>2
<1>11. MarkedIsAway(w)
  <2>1. SUFFICES ASSUME NEW r \in Processes, w.myList[r] = "external"
                 PROVE  \E u \in Threads : \E k \in 1 .. Len(w.awolProcesses[u]) :
                           w.awolProcesses[u][k] = r
    BY DEF MarkedIsAway
  <2>2. CASE r = p
    <3>1. Len(old) + 1 \in 1 .. Len(w.awolProcesses[t]) /\ w.awolProcesses[t][Len(old) + 1] = p
      BY <1>4, <1>5
    <3>2. QED
      BY <1>1, <2>2, <3>1
  <2>3. CASE r # p
    <3>1. PICK u \in Threads : \E k \in 1 .. Len(v.awolProcesses[u]) :
             v.awolProcesses[u][k] = r
      BY <1>4, <2>1, <2>3 DEF InPlace, Places, MarkedIsAway
    <3>2. PICK k \in 1 .. Len(v.awolProcesses[u]) : v.awolProcesses[u][k] = r
      BY <3>1
    <3>3. k \in 1 .. Len(w.awolProcesses[u]) /\ w.awolProcesses[u][k] = r
      <4>1. CASE u # t
        BY <1>4, <3>2, <4>1
      <4>2. CASE u = t
        <5>1. v.awolProcesses[u] = old
          BY <4>2 DEF old
        <5>2. QED
          BY <1>4, <1>5, <3>2, <4>2, <5>1
      <4>3. QED
        BY <4>1, <4>2
    <3>4. QED
      BY <3>3
  <2>4. QED
    BY <2>2, <2>3
<1>12. QED
  BY <1>4, <1>9, <1>10, <1>11 DEF Places, w, p

\* The last process of a thread's list leaves it to run.
LEMMA PopPlaces ==
    ASSUME NEW v \in VMStates, NEW t \in Threads, v.awolProcesses[t] # <<>>,
           NEW unaffine \in BOOLEAN, Places(v)
    PROVE  InPlace(PopAWOLProcess(v, t, unaffine))
<1> DEFINE away == v.awolProcesses[t]
           p    == away[Len(away)]
           left == [v EXCEPT !.awolProcesses[t] = SubSeq(@, 1, Len(@) - 1),
                             !.ownerIndex[p] = IF unaffine THEN NoThread ELSE @]
           old  == left.activeProcess
           mid  == IF old # Nobody /\ left.myList[old] = "nil"
                   THEN MakeReady(left, old) ELSE left
           w    == PopAWOLProcess(v, t, unaffine)
<1>1. /\ away \in Seq(Processes) /\ away # <<>>
      /\ v.awolProcesses \in [Threads -> Seq(Processes)]
  BY DEF VMStates
<1>2. /\ Len(away) \in Nat \ {0} /\ p \in Processes
      /\ SubSeq(away, 1, Len(away) - 1) \in Seq(Processes)
      /\ Len(SubSeq(away, 1, Len(away) - 1)) = Len(away) - 1
      /\ \A k \in 1 .. Len(away) - 1 : SubSeq(away, 1, Len(away) - 1)[k] = away[k]
  BY <1>1, FrontElements
<1>3. /\ left \in VMStates /\ left.myList = v.myList
      /\ left.activeProcess = v.activeProcess
      /\ left.awolProcesses = [v.awolProcesses EXCEPT ![t] = SubSeq(away, 1, Len(away) - 1)]
  BY <1>2 DEF VMStates
<1>4. /\ left.awolProcesses[t] = SubSeq(away, 1, Len(away) - 1)
      /\ \A u \in Threads : u # t => left.awolProcesses[u] = v.awolProcesses[u]
  BY <1>1, <1>3
<1>5. /\ mid \in VMStates /\ mid.awolProcesses = left.awolProcesses
      /\ \A r \in Processes : mid.myList[r] = "external" <=> left.myList[r] = "external"
  <2> HIDE DEF left
  <2>1. CASE old # Nobody /\ left.myList[old] = "nil"
    <3>1. old \in Processes
      BY <1>3, <2>1 DEF VMStates
    <3>2. mid = MakeReady(left, old)
      BY <2>1
    <3>3. \A r \in Processes : MakeReady(left, old).myList[r] =
                                  IF r = old THEN "ready" ELSE left.myList[r]
      BY <1>3, <3>1 DEF MakeReady, VMStates
    <3>4. QED
      BY <1>3, <2>1, <3>1, <3>2, <3>3, MakeReadyType
  <2>2. CASE ~(old # Nobody /\ left.myList[old] = "nil")
    BY <1>3, <2>2
  <2>3. QED
    BY <2>1, <2>2
<1>6. w = SetActive(mid, p)
  BY DEF PopAWOLProcess
<1> HIDE DEF mid, left
<1>7. /\ w \in VMStates /\ w.activeProcess = p
      /\ w.awolProcesses = left.awolProcesses
      /\ w.myList[p] = "nil"
      /\ \A r \in Processes : r # p => (w.myList[r] = "external" <=> v.myList[r] = "external")
  <2>1. /\ SetActive(mid, p) \in VMStates /\ SetActive(mid, p).activeProcess = p
        /\ SetActive(mid, p).awolProcesses = mid.awolProcesses
    BY <1>2, <1>5, SetActiveType
  <2>2. \A r \in Processes : SetActive(mid, p).myList[r] =
                                IF r = p THEN "nil" ELSE mid.myList[r]
    BY <1>2, <1>5 DEF SetActive, VMStates
  <2>3. QED
    BY <1>2, <1>3, <1>5, <1>6, <2>1, <2>2
\* What is left was there before, and is not p.
<1>8. ASSUME NEW u \in Threads, NEW k \in 1 .. Len(w.awolProcesses[u])
      PROVE  /\ k \in 1 .. Len(v.awolProcesses[u])
             /\ w.awolProcesses[u][k] = v.awolProcesses[u][k]
             /\ w.awolProcesses[u][k] \in Processes
             /\ ~(u = t /\ k = Len(away))
  <2>1. CASE u # t
    BY <1>1, <1>4, <1>7, <2>1
  <2>2. CASE u = t
    <3>1. w.awolProcesses[u] = SubSeq(away, 1, Len(away) - 1) /\ v.awolProcesses[u] = away
      BY <1>4, <1>7, <2>2
    <3>2. k \in 1 .. Len(away) - 1
      BY <1>2, <1>8, <3>1
    <3>3. k \in 1 .. Len(away) /\ k # Len(away) /\ away[k] \in Processes
      BY <1>1, <1>2, <3>2
    <3>4. QED
      BY <1>2, <3>1, <3>2, <3>3
  <2>3. QED
    BY <2>1, <2>2
<1>9. Len(away) \in 1 .. Len(v.awolProcesses[t]) /\ p = v.awolProcesses[t][Len(away)]
  BY <1>2
<1> HIDE DEF w, p, away
<1>10. \A u \in Threads : \A k \in 1 .. Len(w.awolProcesses[u]) : w.awolProcesses[u][k] # p
  BY <1>8, <1>9 DEF Places, AwayOnce
<1>11. AwayOnce(w)
  BY <1>8 DEF Places, AwayOnce
<1>12. AwayIsMarked(w)
  BY <1>7, <1>8, <1>10 DEF Places, AwayIsMarked
<1>13. MarkedIsAway(w)
  <2>1. SUFFICES ASSUME NEW r \in Processes, w.myList[r] = "external"
                 PROVE  \E u \in Threads : \E k \in 1 .. Len(w.awolProcesses[u]) :
                           w.awolProcesses[u][k] = r
    BY DEF MarkedIsAway
  <2>2. r # p /\ v.myList[r] = "external"
    BY <1>7, <2>1
  <2>3. PICK u \in Threads : \E k \in 1 .. Len(v.awolProcesses[u]) :
           v.awolProcesses[u][k] = r
    BY <2>2 DEF Places, MarkedIsAway
  <2>4. PICK k \in 1 .. Len(v.awolProcesses[u]) : v.awolProcesses[u][k] = r
    BY <2>3
  <2>5. k \in 1 .. Len(w.awolProcesses[u]) /\ w.awolProcesses[u][k] = r
    <3>1. CASE u # t
      BY <1>4, <1>7, <2>4, <3>1
    <3>2. CASE u = t
      <4>1. v.awolProcesses[u] = away /\ k # Len(away)
        BY <1>9, <2>2, <2>4, <3>2 DEF away
      <4>2. k \in 1 .. Len(away) - 1
        BY <1>2, <2>4, <4>1
      <4>3. QED
        BY <1>2, <1>4, <1>7, <2>4, <3>2, <4>1, <4>2
    <3>3. QED
      BY <3>1, <3>2
  <2>6. QED
    BY <2>5
<1>14. ActiveIsHere(w)
  BY <1>7 DEF ActiveIsHere
<1>15. QED
  BY <1>11, <1>12, <1>13, <1>14 DEF InPlace, Places, w


-----------------------------------------------------------------------------
(* The steps.                                                              *)

LEMMA ResumedStays ==
    ASSUME NEW v \in VMStates, NEW q \in Processes, v.myList[q] = "blocked",
           v.activeProcess \in Processes, InPlace(v)
    PROVE  InPlace(Resumed(v, q))
<1>1. InPlace(MakeReady(v, q))
  BY MakeReadyStays
<1> DEFINE p == v.activeProcess
           w == MakeReady(v, p)
<1>2. v.myList[p] # "external"
  BY DEF InPlace, ActiveIsHere
<1>3. w \in VMStates /\ Places(w) /\ w.myList[q] # "external"
  <2>1. w \in VMStates
    BY MakeReadyType
  <2>2. Places(w) /\ \A r \in Processes : r # p => w.myList[r] = v.myList[r]
    BY <1>2, MakeReadyStays DEF InPlace
  <2>3. w.myList[q] # "external"
    BY <2>2 DEF MakeReady, VMStates
  <2>4. QED
    BY <2>1, <2>2, <2>3
<1>4. InPlace(SetActive(w, q))
  <2> HIDE DEF w
  <2>1. QED
    BY <1>3, SetActiveStays
<1>5. QED
  BY <1>1, <1>4 DEF Resumed

SamePlaces(v, w) == /\ w.activeProcess = v.activeProcess
                    /\ w.myList = v.myList
                    /\ w.awolProcesses = v.awolProcesses

LEMMA SameInPlace ==
    ASSUME NEW v, NEW w, SamePlaces(v, w), InPlace(v) PROVE InPlace(w)
BY DEF SamePlaces, InPlace, Places, AwayOnce, AwayIsMarked, MarkedIsAway, ActiveIsHere

LEMMA SwitchInPlace ==
    ASSUME NEW t \in Threads, NEW v \in VMStates, NEW p, InPlace(v),
           ThreadSwitchIfNecessary(t, v, p)
    PROVE  InPlace(vm)'
<1>1. SamePlaces(v, vm')
  BY DEF ThreadSwitchIfNecessary, SamePlaces, VMStates
<1>2. InPlace(vm')
  BY <1>1, SameInPlace
<1>3. QED
  BY <1>2 DEF InPlace, Places, AwayOnce, AwayIsMarked, MarkedIsAway, ActiveIsHere

\* An action that changes no list and no active process.
LEMMA SameInPlaceNext ==
    ASSUME InPlace(vm), SamePlaces(vm, vm') PROVE InPlace(vm)'
<1>1. InPlace(vm')
  BY SameInPlace
<1>2. QED
  BY <1>1 DEF InPlace, Places, AwayOnce, AwayIsMarked, MarkedIsAway, ActiveIsHere

\* Most actions of the owner that touch vm, and of everybody else.
LEMMA BlockInPlace ==
    ASSUME IInv, InPlace(vm), NEW t \in Threads, Block(t) PROVE InPlace(vm)'
<1> DEFINE v == [vm EXCEPT !.myList[vm.activeProcess] = "blocked"]
<1>1. pc[t] = "running" /\ TransferToHighest(t, v)
  BY DEF Block
<1>2. vm.activeProcess \in Processes /\ vm \in VMStates
  BY <1>1, OwnerFacts DEF IInv, Inv, TypeOK
<1>3. vm.myList[vm.activeProcess] # "external"
  BY <1>2 DEF InPlace, ActiveIsHere
<1>4. /\ v \in VMStates
      /\ v.activeProcess = vm.activeProcess
      /\ v.awolProcesses = vm.awolProcesses
      /\ v.myList[vm.activeProcess] = "blocked"
      /\ \A r \in Processes : r # vm.activeProcess => v.myList[r] = vm.myList[r]
  BY <1>2 DEF VMStates
<1> HIDE DEF v
<1>5. Places(v)
  BY <1>2, <1>3, <1>4, PlacesStay DEF InPlace
<1>6. InPlace(v)
  BY <1>4, <1>5 DEF InPlace, ActiveIsHere
<1>7. ASSUME NEW p \in Processes, IsHighest(v, p),
             ThreadSwitchIfNecessary(t, SetActive(v, p), p)
      PROVE  InPlace(vm)'
  <2>1. v.myList[p] # "external"
    BY <1>7 DEF IsHighest, Ready
  <2>2. SetActive(v, p) \in VMStates /\ InPlace(SetActive(v, p))
    BY <1>4, <1>5, <2>1, SetActiveStays, SetActiveType
  <2>3. QED
    BY <1>7, <2>2, SwitchInPlace
<1>8. CASE vm' = v
  <2>1. InPlace(vm')
    BY <1>6, <1>8
  <2>2. QED
    BY <2>1 DEF InPlace, Places, AwayOnce, AwayIsMarked, MarkedIsAway, ActiveIsHere
<1>9. QED
  BY <1>1, <1>7, <1>8 DEF TransferToHighest

\* What a state is replaced by is in place.
LEMMA ReplacedInPlace ==
    ASSUME NEW v, InPlace(v), vm' = v PROVE InPlace(vm)'
<1>1. InPlace(vm')
  OBVIOUS
<1>2. QED
  BY <1>1 DEF InPlace, Places, AwayOnce, AwayIsMarked, MarkedIsAway, ActiveIsHere

LEMMA WakeInPlace ==
    ASSUME IInv, InPlace(vm), NEW t \in Threads, Wake(t) PROVE InPlace(vm)'
<1>1. vm.activeProcess \in Processes /\ vm \in VMStates
  BY OwnerFacts DEF IInv, Inv, TypeOK, Wake
<1>2. PICK q \in Processes :
         /\ vm.myList[q] = "blocked"
         /\ LET v == Resumed(vm, q)
            IN IF v.activeProcess = q
               THEN ThreadSwitchIfNecessary(t, v, q)
               ELSE vm' = v
  BY DEF Wake
<1> DEFINE v == Resumed(vm, q)
<1>3. v \in VMStates /\ InPlace(v)
  BY <1>1, <1>2, ResumedType, ResumedStays
<1>4. ThreadSwitchIfNecessary(t, v, q) \/ vm' = v
  BY <1>2
<1> HIDE DEF v
<1>5. QED
  BY <1>3, <1>4, SwitchInPlace, ReplacedInPlace

LEMMA CheckForEventsInPlace ==
    ASSUME IInv, InPlace(vm), NEW t \in Threads, CheckForEvents(t) PROVE InPlace(vm)'
<1>1. vm.activeProcess \in Processes /\ vm \in VMStates
  BY OwnerFacts DEF IInv, Inv, TypeOK, CheckForEvents
<1>2. PICK v \in {vm} \cup {Resumed(vm, q) : q \in {p \in Processes :
                                                    vm.myList[p] = "blocked"}} :
         vm' = v \/ ThreadSwitchIfNecessary(t, v, v.activeProcess)
  BY DEF CheckForEvents
<1>3. v \in VMStates /\ InPlace(v)
  BY <1>1, <1>2, ResumedType, ResumedStays
<1>4. QED
  BY <1>2, <1>3, SwitchInPlace, ReplacedInPlace

LEMMA CedeInPlace ==
    ASSUME IInv, InPlace(vm), NEW t \in Threads, Cede(t) PROVE InPlace(vm)'
<1>1. vm.activeProcess \in Processes /\ vm \in VMStates
  BY OwnerFacts DEF IInv, Inv, TypeOK, Cede
<1>2. vm.myList[vm.activeProcess] # "external"
  BY <1>1 DEF InPlace, ActiveIsHere
<1>3. \/ ThreadSwitchIfNecessary(t, vm, vm.activeProcess)
      \/ vm' = MakeReady(vm, vm.activeProcess)
  BY DEF Cede
<1>4. InPlace(MakeReady(vm, vm.activeProcess))
  BY <1>1, <1>2, MakeReadyStays
<1>5. QED
  BY <1>1, <1>3, <1>4, SwitchInPlace, ReplacedInPlace

LEMMA PreemptedPlaces ==
    ASSUME IInv, InPlace(vm)
    PROVE  /\ Places(Preempted(vm))
           /\ vm.disowningVMThread = NoThread => InPlace(Preempted(vm))
<1>1. vm \in VMStates /\ (vm.disowningVMThread # NoThread => vm.activeProcess \in Processes)
  BY DEF IInv, Inv, TypeOK, Control, DisowningIsActive
<1>2. CASE vm.disowningVMThread = NoThread
  BY <1>2 DEF Preempted, InPlace
<1>3. CASE vm.disowningVMThread # NoThread
  BY <1>1, <1>3, PreemptPlaces DEF Preempted
<1>4. QED
  BY <1>2, <1>3

LEMMA ToExecuteInPlace ==
    ASSUME IInv, InPlace(vm), NEW t \in Threads, TryToExecuteSmalltalk(t)
    PROVE  InPlace(vm)'
<1> DEFINE away == PreemptDisowningThread(vm)
<1>1. vm' \in ToExecute(vm)
  BY DEF TryToExecuteSmalltalk
<1>2. CASE vm.disowningVMThread = NoThread
  BY <1>1, <1>2, ReplacedInPlace DEF ToExecute
<1>3. CASE vm.disowningVMThread # NoThread
  <2>1. away = Preempted(vm)
    BY <1>3 DEF Preempted
  <2>2. away \in VMStates /\ Places(away)
    BY <2>1, PreemptedOK, PreemptedPlaces DEF IInv, Inv
  <2>3. \/ vm' = [away EXCEPT !.activeProcess = Nobody]
        \/ \E p \in Processes : IsHighest(away, p) /\ vm' = SetActive(away, p)
    BY <1>1, <1>3 DEF ToExecute, IsHighest, Ready
  <2> HIDE DEF away
  <2>4. CASE vm' = [away EXCEPT !.activeProcess = Nobody]
    <3> DEFINE w == [away EXCEPT !.activeProcess = Nobody]
    <3>1. /\ w \in VMStates /\ w.activeProcess = Nobody
          /\ w.awolProcesses = away.awolProcesses /\ w.myList = away.myList
      BY <2>2 DEF VMStates
    <3> HIDE DEF w
    <3>2. Places(w)
      BY <2>2, <3>1, PlacesStay
    <3>3. InPlace(w)
      BY <3>1, <3>2, ConstantsOK DEF InPlace, ActiveIsHere
    <3>4. QED
      BY <2>4, <3>3, ReplacedInPlace DEF w
  <2>5. ASSUME NEW p \in Processes, IsHighest(away, p), vm' = SetActive(away, p)
        PROVE  InPlace(vm)'
    <3>1. away.myList[p] # "external"
      BY <2>5 DEF IsHighest, Ready
    <3>2. QED
      BY <2>2, <2>5, <3>1, SetActiveStays, ReplacedInPlace
  <2>6. QED
    BY <2>3, <2>4, <2>5
<1>4. QED
  BY <1>2, <1>3

LEMMA OwnVMInPlace ==
    ASSUME IInv, InPlace(vm), NEW t \in Threads, OwnVM(t) PROVE InPlace(vm)'
<1>1. CASE vm.disowningVMThread = t
  <2>1. vm' = [vm EXCEPT !.disowningVMThread = NoThread]
    BY <1>1 DEF OwnVM
  <2>2. SamePlaces(vm, vm')
    BY <2>1 DEF SamePlaces, IInv, Inv, TypeOK, VMStates
  <2>3. QED
    BY <2>2, SameInPlaceNext
<1>2. CASE vm.disowningVMThread # t
  <2> DEFINE unaffine == Top(t).kind = "callout" /\ Top(t).unaffined
             v == Preempted(vm)
  <2>1. vm' = PopAWOLProcess(v, t, unaffine)
    BY <1>2 DEF OwnVM
  <2>2. Away(t)
    BY DEF OwnVM, Away, Coming
  <2>3. v \in VMStates /\ v.awolProcesses[t] # <<>> /\ Places(v)
    BY <2>2, PreemptedOK, PreemptedPlaces DEF IInv, Inv
  <2>4. unaffine \in BOOLEAN
    OBVIOUS
  <2> HIDE DEF v, unaffine
  <2>5. InPlace(PopAWOLProcess(v, t, unaffine))
    BY <2>3, <2>4, PopPlaces
  <2>6. QED
    BY <2>1, <2>5, ReplacedInPlace
<1>3. QED
  BY <1>1, <1>2

\* The others leave the lists alone, and most of them vm altogether.
LEMMA OthersInPlace ==
    ASSUME IInv, NEW t \in Threads,
           CallOut(t) \/ ReturnFromCallBack(t) \/ CallBack(t)
              \/ CedeToHigherPriorityThreads(t)
    PROVE  SamePlaces(vm, vm')
<1>1. vm \in VMStates
  BY DEF IInv, Inv, TypeOK
<1>2. CASE CallOut(t) \/ ReturnFromCallBack(t) \/ CallBack(t)
  <2>1. \/ vm' = [vm EXCEPT !.disowningVMThread = t]
        \/ vm' = [vm EXCEPT !.disowningVMThread = NoThread]
        \/ vm' = vm
    BY <1>2 DEF CallOut, ReturnFromCallBack, CallBack, DisownVM
  <2>2. QED
    BY <1>1, <2>1 DEF SamePlaces, VMStates
<1>3. CASE CedeToHigherPriorityThreads(t)
  <2>1. vm' = [vm EXCEPT !.threadPriority[ActiveThread(t)] = priority[vm.activeProcess]]
    BY <1>3 DEF CedeToHigherPriorityThreads
  <2>2. QED
    BY <1>1, <2>1 DEF SamePlaces, VMStates
<1>4. QED
  BY <1>2, <1>3

LEMMA StayInPlace ==
    ASSUME IInv, InPlace(vm), Next PROVE InPlace(vm)'
<1>1. ASSUME vm' = vm PROVE InPlace(vm)'
  BY <1>1, ReplacedInPlace
<1>2. ASSUME NEW a \in Actors, NEW at, NEW x, NEW y, NEW index,
             \/ TryLock(a, at, x, y)
             \/ LookAt(a, at, index, x, y)
             \/ Signal(a)
      PROVE  vm' = vm
  BY <1>2 DEF TryLock, LookAt, Signal
<1>3. CASE Beating
  BY <1>1, <1>2, <1>3, ConstantsOK DEF Beating, Beat, EnsureRunningVMThread
<1>4. ASSUME NEW t \in Threads, SchedulingLoop(t) PROVE InPlace(vm)'
  <2>1. CASE TryToExecuteSmalltalk(t)
    BY <2>1, ToExecuteInPlace
  <2>2. CASE ~TryToExecuteSmalltalk(t)
    <3>1. vm' = vm
      BY <1>2, <1>4, <2>2, ConstantsOK
         DEF SchedulingLoop, StartVMThread, Schedule, HeedRelinquishing, TestVMOwner,
             WaitOn
    <3>2. QED
      BY <1>1, <3>1
  <2>3. QED
    BY <2>1, <2>2
<1>5. ASSUME NEW t \in Threads, Running(t) PROVE InPlace(vm)'
  <2>1. CASE CallKeepingVM(t)
    BY <1>1, <2>1 DEF CallKeepingVM
  <2>2. QED
    BY <1>5, <2>1, BlockInPlace, WakeInPlace, CheckForEventsInPlace, CedeInPlace,
       OthersInPlace, SameInPlaceNext DEF Running, Leaving
<1>6. ASSUME NEW t \in Threads, ComingBack(t) PROVE InPlace(vm)'
  <2>1. CASE Return(t) \/ ReturnKeepingVM(t)
    BY <1>1, <2>1 DEF Return, ReturnKeepingVM
  <2>2. QED
    BY <1>6, <2>1, OthersInPlace, SameInPlaceNext DEF ComingBack
<1>7. ASSUME NEW t \in Threads, Acquiring(t) PROVE InPlace(vm)'
  <2>1. CASE OwnVM(t)
    BY <2>1, OwnVMInPlace
  <2>2. CASE ~OwnVM(t)
    <3>1. vm' = vm
      BY <1>2, <1>7, <2>2, ConstantsOK
         DEF Acquiring, WantOwnership, Spin, WaitingPriorityIsAtLeast, WaitOn
    <3>2. QED
      BY <1>1, <3>1
  <2>3. QED
    BY <2>1, <2>2
<1>8. QED
  BY <1>1, <1>2, <1>3, <1>4, <1>5, <1>6, <1>7, ConstantsOK DEF Next

LEMMA InitInPlace == Init => InPlace(vm)
<1> SUFFICES ASSUME Init PROVE InPlace(vm)
  OBVIOUS
<1>1. \A t \in Threads : Len(vm.awolProcesses[t]) = 0
  BY DEF Init
<1>2. \A r \in Processes : vm.myList[r] # "external"
  BY DEF Init
<1>3. QED
  BY <1>1, <1>2 DEF InPlace, Places, AwayOnce, AwayIsMarked, MarkedIsAway, ActiveIsHere

\* A place is a thread and an index in its list.
LEMMA PlacesKept ==
    ASSUME TypeOK, InPlace(vm) PROVE AwayIsKept
<1>1. \A t \in Threads : DOMAIN vm.awolProcesses[t] = 1 .. Len(vm.awolProcesses[t])
  BY DEF TypeOK, VMStates
<1>2. SUFFICES ASSUME NEW r \in Processes
               PROVE  LET places == {x \in AwayPlaces : vm.awolProcesses[x[1]][x[2]] = r}
                      IN IF vm.myList[r] = "external" THEN \E x \in places : places = {x}
                                                      ELSE places = {}
  BY DEF AwayIsKept
<1> DEFINE places == {x \in AwayPlaces : vm.awolProcesses[x[1]][x[2]] = r}
<1>3. ASSUME NEW x \in places
      PROVE  \E t \in Threads : \E k \in 1 .. Len(vm.awolProcesses[t]) :
                x = <<t, k>> /\ vm.awolProcesses[t][k] = r
  <2>1. PICK t \in Threads : x \in {t} \X DOMAIN vm.awolProcesses[t]
    BY <1>3 DEF AwayPlaces
  <2>2. PICK k \in DOMAIN vm.awolProcesses[t] : x = <<t, k>>
    BY <2>1
  <2>3. QED
    BY <1>1, <1>3, <2>2
<1>4. ASSUME NEW t \in Threads, NEW k \in 1 .. Len(vm.awolProcesses[t]),
             vm.awolProcesses[t][k] = r
      PROVE  <<t, k>> \in places
  <2>1. <<t, k>> \in {t} \X DOMAIN vm.awolProcesses[t]
    BY <1>1
  <2>2. <<t, k>> \in AwayPlaces
    BY <2>1 DEF AwayPlaces
  <2>3. QED
    BY <1>4, <2>2
<1> HIDE DEF places
<1>5. CASE vm.myList[r] = "external"
  <2>1. PICK t \in Threads : \E k \in 1 .. Len(vm.awolProcesses[t]) :
           vm.awolProcesses[t][k] = r
    BY <1>5 DEF InPlace, Places, MarkedIsAway
  <2>2. PICK k \in 1 .. Len(vm.awolProcesses[t]) : vm.awolProcesses[t][k] = r
    BY <2>1
  <2>3. <<t, k>> \in places
    BY <1>4, <2>2
  <2>4. ASSUME NEW x \in places PROVE x = <<t, k>>
    BY <1>3, <2>2 DEF InPlace, Places, AwayOnce
  <2>5. places = {<<t, k>>}
    BY <2>3, <2>4
  <2>6. QED
    BY <1>5, <2>3, <2>5 DEF places
<1>6. CASE vm.myList[r] # "external"
  <2>1. places = {}
    BY <1>3, <1>6 DEF InPlace, Places, AwayIsMarked
  <2>2. QED
    BY <1>6, <2>1 DEF places
<1>7. QED
  BY <1>5, <1>6

\* However calls, callbacks and preemptions interleave, no process is lost in
\* external code and none comes back twice.
THEOREM NoneLostAway == Spec => []AwayIsKept
<1> DEFINE Kept == IInv /\ InPlace(vm)
<1>1. Init => Kept
  BY InitOK, InitInPlace
<1>2. Kept /\ [Next]_vars => Kept'
  <2>1. ASSUME Kept, UNCHANGED vars PROVE InPlace(vm)'
    BY <2>1, ReplacedInPlace DEF vars
  <2>2. QED
    BY <2>1, NextOK, StayInPlace
<1>3. Kept => AwayIsKept
  BY PlacesKept DEF IInv, Inv
<1> HIDE DEF Kept
<1>4. QED
  BY <1>1, <1>2, <1>3, PTL DEF Spec

-----------------------------------------------------------------------------
(* Who may run what: the inductive invariant.                              *)

NoneKeeps(stack) == \A j \in 1 .. Len(stack) : stack[j].kind # "unthreaded"

NothingKept == \A t \in Threads : NoneKeeps(calls[t])

\* What a thread's state tells of where it is.
Fits(t) ==
    /\ state[t] \in {"Unavailable", "WantingOwnership"} =>
          pc[t] \in Coming \cup {"outside"}
    /\ state[t] = "Initializing" => pc[t] = "starting"

StatesFit == \A t \in Threads : Fits(t)

Running3 == {"running", "cede", "ceding"}

NothingDisowned == \A t \in Threads : pc[t] \in Running3 => vm.disowningVMThread = NoThread

\* A process that has stopped stays active only until the thread that was given
\* the VM brings its own back.
Replaced == vm.disowningVMThread = NoThread /\
            \E t \in Threads : vmOwner = t /\ pc[t] \in Coming \cup {"aborted"}

ActiveIsUnlisted ==
    vm.activeProcess \in Processes /\ vm.myList[vm.activeProcess] # "nil" => Replaced

\* The thread the VM is to be ceded to is coming back.
CandidateComes ==
    \A t \in Threads : pc[t] = "ceding" /\ candidate.thread # NoThread =>
       pc[candidate.thread] \in Coming

Ours == /\ NothingKept
        /\ StatesFit
        /\ NothingDisowned
        /\ ActiveIsUnlisted
        /\ CandidateComes

-----------------------------------------------------------------------------
(* Stacks of calls.                                                        *)

LEMMA StackKeepsNone ==
    ASSUME NEW stack \in Seq(Calls), NoneKeeps(stack)
    PROVE  /\ NoneKeeps(SubSeq(stack, 1, Len(stack) - 1))
           /\ \A call \in Calls : call.kind # "unthreaded" => NoneKeeps(Append(stack, call))
           /\ \A p : NoneKeeps([stack EXCEPT ![Len(stack)].process = p])
           /\ stack # <<>> => stack[Len(stack)].kind # "unthreaded"
BY DEF NoneKeeps

LEMMA OthersKeepNone ==
    ASSUME NothingKept, NEW t \in Threads, NoneKeeps(calls'[t]),
           \A w \in Threads : w # t => calls'[w] = calls[w]
    PROVE  NothingKept'
BY DEF NothingKept, NoneKeeps

-----------------------------------------------------------------------------
(* Steps that leave the interpreter's state alone.                         *)

\* Nobody begins to run the image or goes out, and those who come back keep
\* coming, with the VM if they have it.
Quiet ==
    /\ UNCHANGED <<vm, calls, candidate>>
    /\ \A t \in Threads :
          /\ pc'[t] \in Running3 \cup {"outside"} => pc'[t] = pc[t]
          /\ pc[t] \in Coming => pc'[t] \in Coming
          /\ pc[t] = "aborted" => pc'[t] = "aborted"
          /\ vmOwner = t /\ pc[t] \in Coming \cup {"aborted"} => vmOwner' = t

LEMMA QuietOurs ==
    ASSUME TypeOK, Ours, Quiet, StatesFit' PROVE Ours'
<1>1. NothingKept' /\ NothingDisowned'
  BY DEF Quiet, Ours, NothingKept, NoneKeeps, NothingDisowned
<1>2. ActiveIsUnlisted'
  <2>1. Replaced => Replaced'
    BY DEF Quiet, Replaced
  <2>2. QED
    BY <2>1 DEF Quiet, Ours, ActiveIsUnlisted
<1>3. CandidateComes'
  <2>1. ASSUME NEW t \in Threads, pc'[t] = "ceding", candidate'.thread # NoThread
        PROVE  pc'[candidate'.thread] \in Coming
    <3>1. candidate.thread \in Threads /\ candidate' = candidate
      BY <2>1 DEF Quiet, TypeOK
    <3>2. pc[t] = "ceding"
      BY <2>1 DEF Quiet, Running3
    <3>3. pc[candidate.thread] \in Coming
      BY <2>1, <3>1, <3>2 DEF Ours, CandidateComes
    <3>4. QED
      BY <3>1, <3>3 DEF Quiet
  <2>2. QED
    BY <2>1 DEF CandidateComes
<1>4. QED
  BY <1>1, <1>2, <1>3 DEF Ours

\* One thread moves, and its state fits where it goes.
LEMMA QuietMove ==
    ASSUME TypeOK, Ours, NEW t \in Threads, NEW position, Goto(t, position),
           position \notin Running3 \cup {"outside"},
           pc[t] # "aborted", pc[t] \in Coming => position \in Coming,
           UNCHANGED <<vm, calls, candidate>>,
           \/ vmOwner' = vmOwner
           \/ vmOwner \notin Threads /\ vmOwner' = t
           \/ vmOwner = t /\ pc[t] \notin Coming /\ vmOwner' \notin Threads,
           \A w \in Threads : w # t => state'[w] = state[w],
           Fits(t)'
    PROVE  Ours'
<1>1. pc'[t] = position /\ \A w \in Threads : w # t => pc'[w] = pc[w]
  BY ConstantsOK DEF Goto, TypeOK
<1>2. Quiet
  BY <1>1 DEF Quiet, Running3, Coming
<1>3. StatesFit'
  BY <1>1 DEF Ours, StatesFit, Fits
<1>4. QED
  BY <1>2, <1>3, QuietOurs

\* The heartbeat moves.
LEMMA QuietBeat ==
    ASSUME TypeOK, Ours, NEW position, Goto(Heartbeat, position),
           UNCHANGED <<vm, calls, candidate, state>>,
           vmOwner' = vmOwner \/ vmOwner \notin Threads
    PROVE  Ours'
<1>1. \A w \in Threads : pc'[w] = pc[w]
  BY ConstantsOK DEF Goto, TypeOK
<1>2. Quiet
  BY <1>1, ConstantsOK DEF Quiet
<1>3. StatesFit'
  BY <1>1 DEF Ours, StatesFit, Fits
<1>4. QED
  BY <1>2, <1>3, QuietOurs

LEMMA LoopOurs ==
    ASSUME IInv, Ours, NEW t \in Threads,
           SchedulingLoop(t), ~TryToExecuteSmalltalk(t)
    PROVE  Ours'
<1> USE ConstantsOK DEF Fits, Running3, Coming
<1>1. TypeOK /\ Fits(t)
  BY DEF IInv, Inv, Ours, StatesFit
<1>2. CASE StartVMThread(t)
  <2>1. state'[t] = "AssignableOrInVM" /\ pc'[t] = "loop"
    BY <1>1, <1>2 DEF StartVMThread, Goto, TypeOK
  <2>2. QED
    BY <1>1, <1>2, <2>1, QuietMove DEF StartVMThread, ownership, TypeOK
<1>3. CASE Schedule(t)
  <2>1. PICK position \in {"execute", "lock"} : Goto(t, position)
    BY <1>3 DEF Schedule
  <2>2. state[t] \notin {"Unavailable", "WantingOwnership", "Initializing"} /\ state' = state
    BY <1>1, <1>3 DEF Schedule
  <2>3. QED
    BY <1>1, <1>3, <2>1, <2>2, QuietMove DEF Schedule, ownership
<1>4. CASE TryLock(t, "lock", "look", "test")
  <2>1. PICK position \in {"look", "test"} : Goto(t, position)
    BY <1>4 DEF TryLock
  <2>2. state[t] \notin {"Unavailable", "WantingOwnership", "Initializing"} /\ state' = state
    BY <1>1, <1>4 DEF TryLock
  <2>3. QED
    BY <1>1, <1>4, <2>1, <2>2, QuietMove DEF TryLock
<1>5. CASE LookAt(t, "look", t, "relinquished?", "test")
  <2>1. PICK position \in {"relinquished?", "test"} : Goto(t, position)
    BY <1>5 DEF LookAt
  <2>2. state[t] \notin {"Unavailable", "WantingOwnership", "Initializing"} /\ state' = state
    BY <1>1, <1>5 DEF LookAt
  <2>3. vmOwner' = vmOwner \/ (vmOwner \notin Threads /\ vmOwner' = t)
    BY <1>5 DEF LookAt
  <2>4. QED
    BY <1>1, <1>5, <2>1, <2>2, <2>3, QuietMove DEF LookAt
<1>6. CASE HeedRelinquishing(t)
  <2>1. PICK position \in {"test", "execute"} : Goto(t, position)
    BY <1>6 DEF HeedRelinquishing, Release, Keep
  <2>2. state[t] \notin {"Unavailable", "WantingOwnership", "Initializing"} /\ state' = state
    BY <1>1, <1>6 DEF HeedRelinquishing
  <2>3. vmOwner = t
    BY <1>6 DEF HeedRelinquishing, IInv, Inv, Control, InsideOwns, Inside, InsidePositions
  <2>4. vmOwner' = vmOwner \/ vmOwner' \notin Threads
    BY <1>6 DEF HeedRelinquishing, Release, Keep
  <2>5. QED
    BY <1>1, <1>6, <2>1, <2>2, <2>3, <2>4, QuietMove DEF HeedRelinquishing
<1>7. CASE TestVMOwner(t)
  <2>1. PICK position \in {"loop", "pooled"} : Goto(t, position)
    BY <1>7 DEF TestVMOwner
  <2>2. state[t] \notin {"Unavailable", "WantingOwnership", "Initializing"} /\ state' = state
    BY <1>1, <1>7 DEF TestVMOwner
  <2>3. QED
    BY <1>1, <1>7, <2>1, <2>2, QuietMove DEF TestVMOwner, ownership
<1>8. CASE WaitOn(t, "pooled", "loop")
  <2>1. state[t] \notin {"Unavailable", "WantingOwnership", "Initializing"} /\ state' = state
    BY <1>1, <1>8 DEF WaitOn
  <2>2. QED
    BY <1>1, <1>8, <2>1, QuietMove DEF WaitOn, ownership
<1>9. QED
  BY <1>2, <1>3, <1>4, <1>5, <1>6, <1>7, <1>8 DEF SchedulingLoop

\* Where a thread that is coming back may be, its state does not matter.
LEMMA ComingMove ==
    ASSUME TypeOK, Ours, NEW t \in Threads, NEW position \in Coming, Goto(t, position),
           pc[t] \in Coming \cup {"outside"}, state'[t] # "Initializing",
           UNCHANGED <<vm, calls, candidate>>,
           vmOwner' = vmOwner \/ (vmOwner \notin Threads /\ vmOwner' = t),
           \A w \in Threads : w # t => state'[w] = state[w]
    PROVE  Ours'
<1>1. pc'[t] = position
  BY ConstantsOK DEF Goto, TypeOK
<1>2. QED
  BY <1>1, QuietMove DEF Fits, Running3, Coming

LEMMA AcquiringOurs ==
    ASSUME IInv, Ours, NEW t \in Threads, Acquiring(t) \/ Return(t), ~OwnVM(t)
    PROVE  Ours'
<1> USE ConstantsOK
<1>1. TypeOK /\ Fits(t)
  BY DEF IInv, Inv, Ours, StatesFit
<1>2. ASSUME NEW at \in Coming, NEW got \in Coming, NEW failed \in Coming,
             TryLock(t, at, got, failed)
      PROVE  Ours'
  <2>1. PICK position \in Coming : Goto(t, position)
    BY <1>2 DEF TryLock
  <2>2. state' = state /\ state[t] # "Initializing"
    BY <1>1, <1>2 DEF TryLock, Fits, Coming
  <2>3. QED
    BY <1>1, <1>2, <2>1, <2>2, ComingMove DEF TryLock
<1>3. ASSUME NEW at \in Coming, NEW got \in Coming, NEW failed \in Coming,
             LookAt(t, at, t, got, failed)
      PROVE  Ours'
  <2>1. PICK position \in Coming : Goto(t, position)
    BY <1>3 DEF LookAt
  <2>2. state' = state /\ state[t] # "Initializing"
    BY <1>1, <1>3 DEF LookAt, Fits, Coming
  <2>3. vmOwner' = vmOwner \/ (vmOwner \notin Threads /\ vmOwner' = t)
    BY <1>3 DEF LookAt
  <2>4. QED
    BY <1>1, <1>3, <2>1, <2>2, <2>3, ComingMove DEF LookAt
<1>4. CASE WantOwnership(t)
  <2>1. state'[t] = "WantingOwnership"
    BY <1>1, <1>4 DEF WantOwnership, TypeOK
  <2>2. QED
    BY <1>1, <1>4, <2>1, ComingMove DEF WantOwnership, ownership, Coming, TypeOK
<1>5. CASE Spin(t)
  <2>1. PICK position \in Coming : Goto(t, position)
    BY <1>5 DEF Spin, Coming
  <2>2. state[t] # "Initializing"
    BY <1>1, <1>5 DEF Spin, Fits, Coming
  <2>3. QED
    BY <1>1, <1>5, <2>1, <2>2, ComingMove DEF Spin, Coming
<1>6. CASE WaitingPriorityIsAtLeast(t)
  <2>1. state[t] # "Initializing"
    BY <1>1, <1>6 DEF WaitingPriorityIsAtLeast, Fits
  <2>2. QED
    BY <1>1, <1>6, <2>1, ComingMove DEF WaitingPriorityIsAtLeast, Coming
<1>7. CASE WaitOn(t, "dozing", "retry")
  <2>1. state[t] # "Initializing"
    BY <1>1, <1>7 DEF WaitOn, Fits
  <2>2. QED
    BY <1>1, <1>7, <2>1, ComingMove DEF WaitOn, Coming, ownership
<1>8. CASE Return(t)
  <2>1. state[t] # "Initializing"
    BY <1>1, <1>8 DEF Return, Fits
  <2>2. QED
    BY <1>1, <1>8, <2>1, ComingMove DEF Return, Coming, ownership
<1>9. {"enter", "entering", "want", "retry", "retrying", "spin", "back"} \subseteq Coming
  BY DEF Coming
<1>10. QED
  BY <1>2, <1>3, <1>4, <1>5, <1>6, <1>7, <1>8, <1>9 DEF Acquiring

LEMMA BeatingOurs ==
    ASSUME IInv, Ours, Beating, ~Signal(Heartbeat) PROVE Ours'
<1> USE ConstantsOK
<1>1. TypeOK /\ UNCHANGED <<vm, calls, candidate, state>>
  BY DEF Beating, Beat, TryLock, LookAt, EnsureRunningVMThread, IInv, Inv
<1>2. vmOwner' = vmOwner \/ vmOwner \notin Threads
  <2>1. CASE Beat \/ TryLock(Heartbeat, "lock", "look", "loop")
    BY <2>1 DEF Beat, TryLock, ownership
  <2>2. CASE LookAt(Heartbeat, "look", Anonymous, "pick", "loop")
    BY <2>2 DEF LookAt
  <2>3. CASE EnsureRunningVMThread
    BY <2>3 DEF EnsureRunningVMThread, IInv, Inv, Control, InsideOwns, Inside,
                InsidePositions
  <2>4. QED
    BY <2>1, <2>2, <2>3 DEF Beating
<1>3. \E position : Goto(Heartbeat, position)
  <2>1. CASE ~EnsureRunningVMThread
    BY <2>1 DEF Beating, Beat, TryLock, LookAt
  <2>2. CASE EnsureRunningVMThread
    <3> DEFINE unused == {t \in Threads : state[t] = "nil"}
    <3>1. \/ Release(Heartbeat, "loop")
          \/ \E t \in Threads : GiveTo(Heartbeat, t)
          \/ IF relinquished \/ unused = {}
             THEN Release(Heartbeat, "loop")
             ELSE \E t \in unused : GiveTo(Heartbeat, t)
      BY <2>2 DEF EnsureRunningVMThread
    <3>2. QED
      BY <3>1 DEF Release, GiveTo
  <2>3. QED
    BY <2>1, <2>2
<1>4. QED
  BY <1>1, <1>2, <1>3, QuietBeat

LEMMA SignalOurs ==
    ASSUME IInv, Ours, NEW a \in Actors, Signal(a) PROVE Ours'
<1> USE ConstantsOK
<1> DEFINE u     == target[a]
           after == IF a = Heartbeat THEN "loop" ELSE "test"
<1>1. TypeOK /\ u \in Threads /\ pc[a] = "signal" /\ after \in {"loop", "test"}
  BY DEF IInv, Inv, Targeted, Signal
<1>2. UNCHANGED <<vm, calls, candidate, vmOwner>>
  BY DEF Signal, ownership
<1>3. a \in Threads => state[a] \notin {"Unavailable", "WantingOwnership", "Initializing"}
  BY <1>1 DEF Ours, StatesFit, Fits, Coming
<1> HIDE DEF u, after
<1>4. CASE state[u] = "nil"
  <2>1. /\ state' = [state EXCEPT ![u] = "Initializing"]
        /\ pc' = [pc EXCEPT ![a] = after, ![u] = "starting"]
    BY <1>4 DEF Signal, u, after
  <2>2. pc[u] = "unborn" /\ u # a
    BY <1>1, <1>4 DEF IInv, Born
  <2>3. /\ \A w \in Threads : w # a /\ w # u => pc'[w] = pc[w] /\ state'[w] = state[w]
        /\ pc'[u] = "starting" /\ state'[u] = "Initializing"
        /\ a \in Threads => pc'[a] = after /\ state'[a] = state[a]
    BY <1>1, <2>1, <2>2 DEF TypeOK
  <2>4. Quiet
    BY <1>1, <1>2, <2>2, <2>3 DEF Quiet, Running3, Coming
  <2>5. StatesFit'
    BY <1>1, <1>3, <2>3 DEF Ours, StatesFit, Fits
  <2>6. QED
    BY <1>1, <2>4, <2>5, QuietOurs
<1>5. CASE state[u] # "nil"
  <2>1. state' = state /\ Goto(a, after)
    BY <1>5 DEF Signal, u, after
  <2>2. /\ \A w \in Threads : w # a => pc'[w] = pc[w]
        /\ pc'[a] = after
    BY <1>1, <2>1 DEF TypeOK, Goto
  <2>3. Quiet
    BY <1>1, <1>2, <2>2 DEF Quiet, Running3, Coming
  <2>4. StatesFit'
    BY <1>1, <1>3, <2>1, <2>2 DEF Ours, StatesFit, Fits
  <2>5. QED
    BY <1>1, <2>3, <2>4, QuietOurs
<1>6. QED
  BY <1>4, <1>5

-----------------------------------------------------------------------------
(* Steps of the owner.                                                     *)

LEMMA RunningFacts ==
    ASSUME IInv, Ours, NEW t \in Threads, pc[t] \in Running3
    PROVE  /\ vmOwner = t
           /\ vm \in VMStates /\ vm.activeProcess \in Processes
           /\ vm.disowningVMThread = NoThread
           /\ vm.myList[vm.activeProcess] = "nil"
           /\ state[t] = "AssignableOrInVM"
<1>1. vmOwner = t /\ vm.activeProcess \in Processes /\ TypeOK
  BY OwnerFacts DEF IInv, Inv, Running3
<1>2. vm.disowningVMThread = NoThread
  BY DEF Ours, NothingDisowned
<1>3. vm.myList[vm.activeProcess] = "nil"
  <2>1. ~Replaced
    BY <1>1, ConstantsOK DEF Replaced, Running3, Coming
  <2>2. QED
    BY <1>1, <2>1 DEF Ours, ActiveIsUnlisted
<1>4. state[t] = "AssignableOrInVM"
  <2>1. state[t] \notin {"nil", "Unavailable", "WantingOwnership", "Initializing"}
    BY DEF Ours, StatesFit, Fits, Running3, Coming, IInv, Born
  <2>2. QED
    BY <1>1, <2>1 DEF TypeOK, CTMStates
<1>5. QED
  BY <1>1, <1>2, <1>3, <1>4 DEF TypeOK

\* Only the owner runs the image, before and after.
LEMMA OwnerStep ==
    ASSUME IInv, Ours, NEW t \in Threads, vmOwner = t,
           \A w \in Threads : w # t => pc'[w] = pc[w],
           NothingKept', StatesFit', ActiveIsUnlisted',
           pc'[t] \in Running3 => vm'.disowningVMThread = NoThread,
           pc'[t] = "ceding" /\ candidate'.thread # NoThread =>
              pc'[candidate'.thread] \in Coming
    PROVE  Ours'
<1>1. \A w \in Threads : w # t => pc'[w] \notin Running3
  BY DEF IInv, Inv, Control, InsideOwns, Inside, InsidePositions, Running3
<1>2. NothingDisowned'
  BY <1>1 DEF NothingDisowned
<1>3. CandidateComes'
  BY <1>1 DEF CandidateComes, Running3
<1>4. QED
  BY <1>2, <1>3 DEF Ours

LEMMA SwitchOurs ==
    ASSUME IInv, Ours, NEW t \in Threads, pc[t] \in Running3,
           NEW v \in VMStates, NEW p \in Processes, v.activeProcess = p,
           v.myList[p] = "nil", v.disowningVMThread = NoThread,
           ThreadSwitchIfNecessary(t, v, p), calls' = calls
    PROVE  Ours'
<1> USE ConstantsOK
<1> DEFINE u == v.ownerIndex[p]
<1>1. /\ vmOwner = t /\ state[t] = "AssignableOrInVM" /\ TypeOK
      /\ u \in Threads \cup {NoThread}
  BY RunningFacts DEF VMStates, IInv, Inv
<1>2. NothingKept'
  BY DEF Ours, NothingKept, NoneKeeps
<1>3. /\ vm'.activeProcess = p /\ vm'.myList = v.myList
      /\ vm'.disowningVMThread = NoThread
  <2>1. CASE u \notin {NoThread, vmOwner}
    <3> DEFINE w == [v EXCEPT !.activeAffined = TRUE, !.threadPriority[u] = priority[p]]
    <3>1. vm' = w
      BY <2>1 DEF ThreadSwitchIfNecessary
    <3>2. /\ w.activeProcess = p /\ w.myList = v.myList
          /\ w.disowningVMThread = NoThread
      BY DEF VMStates
    <3>3. QED
      BY <3>1, <3>2
  <2>2. CASE ~(u \notin {NoThread, vmOwner})
    BY <2>2 DEF ThreadSwitchIfNecessary, VMStates
  <2>3. QED
    BY <2>1, <2>2
<1>4. ActiveIsUnlisted'
  BY <1>3 DEF ActiveIsUnlisted
<1>5. CASE u \notin {NoThread, vmOwner}
  <2>1. /\ state' = [state EXCEPT ![u] = IF @ = "Unavailable"
                                         THEN "WantingOwnership" ELSE @]
        /\ GiveTo(t, u)
    BY <1>5 DEF ThreadSwitchIfNecessary
  <2> HIDE DEF u
  <2>2. pc'[t] = "signal" /\ \A x \in Threads : x # t => pc'[x] = pc[x]
    BY <1>1, <2>1 DEF GiveTo, Goto, TypeOK
  <2>3. StatesFit'
    <3>1. /\ \A x \in Threads : x # u => state'[x] = state[x]
          /\ state'[u] \in {"WantingOwnership", state[u]}
          /\ state'[u] = "WantingOwnership" /\ state[u] # "WantingOwnership"
                => state[u] = "Unavailable"
      BY <1>1, <1>5, <2>1 DEF TypeOK
    <3>2. u # t
      BY <1>1, <1>5
    <3>3. QED
      BY <1>1, <2>2, <3>1, <3>2 DEF Ours, StatesFit, Fits
  <2>4. QED
    BY <1>1, <1>2, <1>3, <1>4, <2>2, <2>3, OwnerStep
<1>6. CASE u \in {NoThread, vmOwner}
  <2>1. Keep(t, "running") /\ state' = state
    BY <1>6 DEF ThreadSwitchIfNecessary
  <2>2. pc'[t] = "running" /\ \A x \in Threads : x # t => pc'[x] = pc[x]
    BY <1>1, <2>1 DEF Keep, Goto, TypeOK
  <2>3. StatesFit'
    BY <1>1, <2>1, <2>2 DEF Ours, StatesFit, Fits
  <2>4. QED
    BY <1>1, <1>2, <1>3, <1>4, <2>2, <2>3, OwnerStep
<1>7. QED
  BY <1>5, <1>6

\* The active process stops, and the VM goes to a thread that brings another
\* back; or the program stops.
LEMMA StopOurs ==
    ASSUME IInv, Ours, NEW t \in Threads, pc[t] \in Running3,
           NEW v, vm' = v, v.disowningVMThread = NoThread,
           calls' = calls, state' = state,
           \/ \E u \in Threads : pc[u] \in Coming /\ GiveTo(t, u)
           \/ Keep(t, "aborted")
    PROVE  Ours'
<1> USE ConstantsOK
<1>1. vmOwner = t /\ state[t] = "AssignableOrInVM" /\ TypeOK
  BY RunningFacts DEF IInv, Inv
<1>2. \E u \in Threads : /\ vmOwner' = u /\ pc'[u] \in Coming \cup {"aborted"}
  BY <1>1 DEF GiveTo, Keep, Goto, TypeOK, Running3, Coming
<1>3. /\ pc'[t] \in {"signal", "aborted"}
      /\ \A x \in Threads : x # t => pc'[x] = pc[x]
  BY DEF GiveTo, Keep, Goto, IInv, Inv, TypeOK
<1>4. ActiveIsUnlisted'
  BY <1>2 DEF ActiveIsUnlisted, Replaced
<1>5. NothingKept'
  BY DEF Ours, NothingKept, NoneKeeps
<1>6. StatesFit'
  BY <1>1, <1>3 DEF Ours, StatesFit, Fits
<1>7. QED
  BY <1>1, <1>3, <1>4, <1>5, <1>6, OwnerStep DEF Running3

\* A thread that wants the VM and does not own it is coming.
LEMMA WantingComes ==
    ASSUME IInv, Ours, NEW u \in Threads, state[u] = "WantingOwnership", vmOwner # u
    PROVE  pc[u] \in Coming
BY DEF IInv, Inv, Control, OutsideIsUnavailable, Ours, StatesFit, Fits

LEMMA BlockOurs ==
    ASSUME IInv, Ours, NEW t \in Threads, Block(t) PROVE Ours'
<1> DEFINE v == [vm EXCEPT !.myList[vm.activeProcess] = "blocked"]
<1>1. pc[t] \in Running3 /\ TransferToHighest(t, v) /\ calls' = calls
  BY DEF Block, Running3
<1>2. v \in VMStates /\ v.disowningVMThread = NoThread
  BY <1>1, RunningFacts DEF VMStates
<1> HIDE DEF v
<1>3. ASSUME NEW p \in Processes, ThreadSwitchIfNecessary(t, SetActive(v, p), p)
      PROVE  Ours'
  <2> DEFINE w == SetActive(v, p)
  <2>1. /\ w \in VMStates /\ w.activeProcess = p
        /\ w.disowningVMThread = NoThread
    BY <1>2, SetActiveType
  <2>2. w.myList[p] = "nil"
    BY <1>2 DEF SetActive, VMStates
  <2> HIDE DEF w
  <2>3. ThreadSwitchIfNecessary(t, w, p)
    BY <1>3 DEF w
  <2>4. QED
    BY <1>1, <2>1, <2>2, <2>3, SwitchOurs
<1>4. CASE /\ vm' = v /\ UNCHANGED <<state, checkThreadActivation>>
           /\ IF InState("WantingOwnership") # {}
              THEN \E u \in Threads : IsWilling(u) /\ GiveTo(t, u)
              ELSE Keep(t, "aborted")
  <2>1. ASSUME NEW u \in Threads, InState("WantingOwnership") # {}, IsWilling(u)
        PROVE  pc[u] \in Coming
    <3>1. state[u] = "WantingOwnership" /\ vmOwner # u
      BY <2>1 DEF IsWilling, IsFirstHighest, InState
    <3>2. QED
      BY <3>1, WantingComes
  <2>2. \/ \E u \in Threads : pc[u] \in Coming /\ GiveTo(t, u)
        \/ Keep(t, "aborted")
    BY <1>4, <2>1
  <2>3. QED
    BY <1>1, <1>2, <1>4, <2>2, StopOurs
<1>5. QED
  BY <1>1, <1>3, <1>4 DEF TransferToHighest

LEMMA ResumedActive ==
    ASSUME NEW v \in VMStates, NEW q \in Processes, v.activeProcess \in Processes,
           v.myList[v.activeProcess] = "nil", v.myList[q] = "blocked"
    PROVE  LET w == Resumed(v, q)
           IN /\ w \in VMStates /\ w.activeProcess \in Processes
              /\ w.myList[w.activeProcess] = "nil"
              /\ w.disowningVMThread = v.disowningVMThread
<1> DEFINE w == Resumed(v, q)
           p == v.activeProcess
<1>1. w.myList[w.activeProcess] = "nil"
  <2>1. CASE priority[q] > priority[p]
    BY <2>1 DEF Resumed, SetActive, MakeReady, VMStates
  <2>2. CASE ~(priority[q] > priority[p])
    <3>1. q # p
      OBVIOUS
    <3>2. w = MakeReady(v, q)
      BY <2>2 DEF Resumed
    <3>3. QED
      BY <3>1, <3>2 DEF MakeReady, VMStates
  <2>3. QED
    BY <2>1, <2>2
<1>2. QED
  BY <1>1, ResumedType

\* The owner goes on inside, with v.
LEMMA StayOurs ==
    ASSUME IInv, Ours, NEW t \in Threads, pc[t] \in Running3,
           NEW v, vm' = v, v.activeProcess \in Processes,
           v.myList[v.activeProcess] = "nil", v.disowningVMThread = NoThread,
           NEW position \in Running3, Goto(t, position), vmOwner' = vmOwner,
           position = "ceding" /\ candidate'.thread # NoThread =>
              candidate'.thread \in Threads \ {t} /\ pc[candidate'.thread] \in Coming,
           calls' = calls, state' = state
    PROVE  Ours'
<1> USE ConstantsOK
<1>1. vmOwner = t /\ state[t] = "AssignableOrInVM" /\ TypeOK
  BY RunningFacts DEF IInv, Inv
<1>2. pc'[t] = position /\ \A w \in Threads : w # t => pc'[w] = pc[w]
  BY <1>1 DEF Goto, TypeOK
<1>3. NothingKept' /\ StatesFit'
  BY <1>1, <1>2 DEF Ours, NothingKept, NoneKeeps, StatesFit, Fits
<1>4. ActiveIsUnlisted'
  BY DEF ActiveIsUnlisted
<1>5. QED
  BY <1>1, <1>2, <1>3, <1>4, OwnerStep

LEMMA WakeOurs ==
    ASSUME IInv, Ours, NEW t \in Threads, Wake(t) PROVE Ours'
<1>1. pc[t] = "running" /\ pc[t] \in Running3 /\ calls' = calls
  BY DEF Wake, Running3
<1>2. PICK q \in Processes :
         /\ vm.myList[q] = "blocked"
         /\ LET v == Resumed(vm, q)
            IN IF v.activeProcess = q
               THEN ThreadSwitchIfNecessary(t, v, q)
               ELSE vm' = v /\ Keep(t, "running") /\ state' = state
  BY DEF Wake
<1> DEFINE v == Resumed(vm, q)
<1>3. /\ v \in VMStates /\ v.activeProcess \in Processes
      /\ v.myList[v.activeProcess] = "nil"
      /\ v.disowningVMThread = NoThread
  BY <1>1, <1>2, RunningFacts, ResumedActive
<1>4. \/ v.activeProcess = q /\ ThreadSwitchIfNecessary(t, v, q)
      \/ v.activeProcess # q /\ vm' = v /\ Keep(t, "running") /\ state' = state
  BY <1>2
<1> HIDE DEF v
<1>5. CASE v.activeProcess = q /\ ThreadSwitchIfNecessary(t, v, q)
  BY <1>1, <1>3, <1>5, SwitchOurs
<1>6. CASE v.activeProcess # q /\ vm' = v /\ Keep(t, "running") /\ state' = state
  BY <1>1, <1>3, <1>6, StayOurs DEF Keep
<1>7. QED
  BY <1>4, <1>5, <1>6

LEMMA CheckForEventsOurs ==
    ASSUME IInv, Ours, NEW t \in Threads, CheckForEvents(t) PROVE Ours'
<1>1. pc[t] = "running" /\ pc[t] \in Running3 /\ calls' = calls
  BY DEF CheckForEvents, Running3
<1>2. PICK v \in {vm} \cup {Resumed(vm, q) : q \in {p \in Processes :
                                                    vm.myList[p] = "blocked"}} :
         \/ vm' = v /\ Keep(t, "cede") /\ state' = state
         \/ ThreadSwitchIfNecessary(t, v, v.activeProcess)
  BY DEF CheckForEvents
<1>3. /\ v \in VMStates
      /\ v.activeProcess \in Processes
      /\ v.myList[v.activeProcess] = "nil"
      /\ v.disowningVMThread = NoThread
  BY <1>1, <1>2, RunningFacts, ResumedActive
<1>4. CASE ThreadSwitchIfNecessary(t, v, v.activeProcess)
  BY <1>1, <1>3, <1>4, SwitchOurs
<1>5. CASE vm' = v /\ Keep(t, "cede") /\ state' = state
  BY <1>1, <1>3, <1>5, StayOurs DEF Keep, Running3
<1>6. QED
  BY <1>2, <1>4, <1>5

LEMMA CedeToHigherOurs ==
    ASSUME IInv, Ours, NEW t \in Threads, CedeToHigherPriorityThreads(t) PROVE Ours'
<1> DEFINE v == [vm EXCEPT !.threadPriority[ActiveThread(t)] = priority[vm.activeProcess]]
<1>1. /\ pc[t] = "cede" /\ pc[t] \in Running3 /\ Goto(t, "ceding") /\ vm' = v
      /\ UNCHANGED <<vmOwner, calls, state>>
  BY DEF CedeToHigherPriorityThreads, Running3, ownership
<1>2. /\ vmOwner = t /\ vm \in VMStates /\ vm.activeProcess \in Processes
      /\ vm.disowningVMThread = NoThread /\ vm.myList[vm.activeProcess] = "nil"
      /\ state[t] = "AssignableOrInVM"
  BY <1>1, RunningFacts
<1>3. /\ v.activeProcess = vm.activeProcess /\ v.myList = vm.myList
      /\ v.disowningVMThread = NoThread
  BY <1>2 DEF VMStates
<1> HIDE DEF v
<1>4. candidate'.thread # NoThread =>
         candidate'.thread \in Threads \ {t} /\ pc[candidate'.thread] \in Coming
  <2> DEFINE nexts == {vm'.threadPriority[u] : u \in Threads} \cup {0}
  <2>1. \/ candidate' = NoCandidate
        \/ \E h \in Threads : \E n \in nexts :
              state[h] = "WantingOwnership" /\ candidate' = [thread |-> h, next |-> n]
    BY DEF CedeToHigherPriorityThreads
  <2>2. ASSUME NEW h \in Threads, state[h] = "WantingOwnership"
        PROVE  h # t /\ pc[h] \in Coming
    <3>1. h # t
      BY <1>2, <2>2
    <3>2. QED
      BY <1>2, <2>2, <3>1, WantingComes
  <2>3. QED
    BY <2>1, <2>2 DEF NoCandidate
<1>5. "ceding" \in Running3
  BY DEF Running3
<1>6. QED
  BY <1>1, <1>2, <1>3, <1>4, <1>5, StayOurs

LEMMA CedeOurs ==
    ASSUME IInv, Ours, NEW t \in Threads, Cede(t) PROVE Ours'
<1> DEFINE h == candidate.thread
           p == vm.activeProcess
<1>1. pc[t] = "ceding" /\ pc[t] \in Running3 /\ calls' = calls
  BY DEF Cede, Running3
<1>2. /\ vm \in VMStates /\ p \in Processes /\ vm.myList[p] = "nil"
      /\ vm.disowningVMThread = NoThread
  BY <1>1, RunningFacts
<1>3. CASE h \in {NoThread, ActiveThread(t)}
  <2>1. ThreadSwitchIfNecessary(t, vm, p)
    BY <1>3 DEF Cede
  <2>2. QED
    BY <1>1, <1>2, <2>1, SwitchOurs
<1>4. CASE h \notin {NoThread, ActiveThread(t)}
  <2>1. vm' = MakeReady(vm, p) /\ GiveTo(t, h) /\ state' = state
    BY <1>4 DEF Cede
  <2>2. h \in Threads /\ pc[h] \in Coming
    BY <1>1, <1>4 DEF IInv, Inv, TypeOK, Ours, CandidateComes
  <2> DEFINE v == MakeReady(vm, p)
  <2>3. v.disowningVMThread = NoThread
    BY <1>2, MakeReadyType
  <2>4. vm' = v
    BY <2>1
  <2> HIDE DEF v, h
  <2>5. QED
    BY <1>1, <2>1, <2>2, <2>3, <2>4, StopOurs
<1>5. QED
  BY <1>3, <1>4

-----------------------------------------------------------------------------
(* Going out and coming back.                                              *)

\* The owner disowns the VM with its own process active.
LEMMA OutOurs ==
    ASSUME IInv, Ours, NEW t \in Threads, pc[t] = "running",
           vm' = [vm EXCEPT !.disowningVMThread = t],
           state' = [state EXCEPT ![t] = "Unavailable"],
           Goto(t, "outside"), vmOwner' \in {Unowned, t},
           NothingKept'
    PROVE  Ours'
<1> USE ConstantsOK
<1>1. /\ vmOwner = t /\ TypeOK
      /\ vm \in VMStates /\ vm.activeProcess \in Processes
      /\ vm.myList[vm.activeProcess] = "nil"
  BY RunningFacts DEF IInv, Inv, Running3
<1>2. /\ pc'[t] = "outside" /\ \A w \in Threads : w # t => pc'[w] = pc[w]
      /\ state'[t] = "Unavailable" /\ \A w \in Threads : w # t => state'[w] = state[w]
  BY <1>1 DEF Goto, TypeOK
<1>3. /\ vm'.activeProcess = vm.activeProcess /\ vm'.myList = vm.myList
      /\ vm'.disowningVMThread = t
  BY <1>1 DEF VMStates
<1>4. StatesFit'
  BY <1>2 DEF Ours, StatesFit, Fits
<1>5. ActiveIsUnlisted'
  BY <1>1, <1>3 DEF ActiveIsUnlisted
<1>6. QED
  BY <1>1, <1>2, <1>4, <1>5, OwnerStep DEF Running3

LEMMA PushKeepsNone ==
    ASSUME IInv, Ours, NEW t \in Threads, NEW call \in Calls, Push(t, call),
           call.kind # "unthreaded"
    PROVE  NothingKept'
<1>1. calls \in [Threads -> Seq(Calls)] /\ NoneKeeps(calls[t])
  BY DEF IInv, Inv, TypeOK, Ours, NothingKept
<1>2. /\ calls'[t] = Append(calls[t], call)
      /\ \A w \in Threads : w # t => calls'[w] = calls[w]
  BY <1>1 DEF Push
<1>3. NoneKeeps(calls'[t])
  BY <1>1, <1>2, StackKeepsNone
<1>4. QED
  BY <1>2, <1>3, OthersKeepNone DEF Ours

LEMMA PopKeepsNone ==
    ASSUME IInv, Ours, NEW t \in Threads, calls' = Pop(t)
    PROVE  NothingKept'
<1>1. calls \in [Threads -> Seq(Calls)] /\ NoneKeeps(calls[t])
  BY DEF IInv, Inv, TypeOK, Ours, NothingKept
<1>2. /\ calls'[t] = SubSeq(calls[t], 1, Len(calls[t]) - 1)
      /\ \A w \in Threads : w # t => calls'[w] = calls[w]
  BY <1>1 DEF Pop
<1>3. NoneKeeps(calls'[t])
  BY <1>1, <1>2, StackKeepsNone
<1>4. QED
  BY <1>2, <1>3, OthersKeepNone DEF Ours

LEMMA LeavingOurs ==
    ASSUME IInv, Ours, "keeps" \notin image, NEW t \in Threads, Leaving(t) PROVE Ours'
<1>1. CASE CallOut(t)
  <2>1. PICK call \in Calls : call.kind = "callout" /\ Push(t, call)
    <3>1. vm.activeProcess \in Processes
      BY <1>1, RunningFacts DEF CallOut, Running3
    <3>2. QED
      BY <1>1, <3>1 DEF CallOut, Call, Calls
  <2>2. NothingKept'
    BY <2>1, PushKeepsNone
  <2>3. QED
    BY <1>1, <2>2, OutOurs DEF CallOut, DisownVM, Release
<1>2. CASE ReturnFromCallBack(t)
  <2>1. NothingKept'
    BY <1>2, PopKeepsNone DEF ReturnFromCallBack
  <2>2. vmOwner = t
    BY <1>2, RunningFacts DEF ReturnFromCallBack, Running3
  <2>3. vmOwner' \in {Unowned, t} /\ Goto(t, "outside")
    BY <1>2, <2>2 DEF ReturnFromCallBack, DisownVM, Release, Keep
  <2>4. QED
    BY <1>2, <2>1, <2>3, OutOurs DEF ReturnFromCallBack, DisownVM
<1>3. QED
  BY <1>1, <1>2 DEF Leaving, CallKeepingVM

LEMMA CallBackOurs ==
    ASSUME IInv, Ours, NEW t \in Threads, CallBack(t) PROVE Ours'
<1> USE ConstantsOK
<1>1. /\ pc[t] = "outside" /\ UNCHANGED <<vmOwner, candidate>>
      /\ TypeOK /\ vm \in VMStates
  BY DEF CallBack, ownership, IInv, Inv, TypeOK
<1>2. CASE vmOwner = t
  <2>1. /\ Push(t, Call("callback", vm.activeProcess, FALSE, TRUE))
        /\ vm' = [vm EXCEPT !.disowningVMThread = NoThread]
        /\ state' = [state EXCEPT ![t] = "AssignableOrInVM"]
        /\ Goto(t, "running")
    BY <1>2 DEF CallBack
  <2>2. /\ pc'[t] = "running" /\ \A w \in Threads : w # t => pc'[w] = pc[w]
        /\ state'[t] = "AssignableOrInVM"
        /\ \A w \in Threads : w # t => state'[w] = state[w]
    BY <1>1, <2>1 DEF Goto, TypeOK
  <2>3. vm.activeProcess \in Processes
    BY <1>1, <1>2 DEF IInv, Inv, Control, OwnerMayRun
  <2>4. NothingKept'
    BY <2>1, <2>3, PushKeepsNone DEF Call, Calls
  <2>5. vm.myList[vm.activeProcess] = "nil"
    <3>1. ~Replaced
      BY <1>1, <1>2 DEF Replaced, Coming
    <3>2. QED
      BY <2>3, <3>1 DEF Ours, ActiveIsUnlisted
  <2>6. /\ vm'.activeProcess = vm.activeProcess /\ vm'.myList = vm.myList
        /\ vm'.disowningVMThread = NoThread
    BY <1>1, <2>1 DEF VMStates
  <2>7. ActiveIsUnlisted'
    BY <2>5, <2>6 DEF ActiveIsUnlisted
  <2>8. StatesFit'
    BY <2>2 DEF Ours, StatesFit, Fits
  <2>9. QED
    BY <1>2, <2>2, <2>4, <2>6, <2>7, <2>8, OwnerStep
<1>3. CASE vmOwner # t
  <2>1. /\ Push(t, Call("callback", Nobody, FALSE, FALSE))
        /\ Goto(t, "enter") /\ UNCHANGED <<vm, state>>
    BY <1>3 DEF CallBack
  <2>2. NothingKept'
    BY <2>1, PushKeepsNone DEF Call, Calls
  <2>3. pc'[t] = "enter" /\ \A w \in Threads : w # t => pc'[w] = pc[w]
    BY <1>1, <2>1 DEF Goto, TypeOK
  <2>4. StatesFit'
    BY <1>1, <2>1, <2>3 DEF Ours, StatesFit, Fits, Coming
  <2>5. NothingDisowned'
    BY <2>1, <2>3 DEF Ours, NothingDisowned, Running3
  <2>6. ActiveIsUnlisted'
    <3>1. Replaced => Replaced'
      BY <1>1, <2>1, <2>3 DEF Replaced, Coming
    <3>2. QED
      BY <2>1, <3>1 DEF Ours, ActiveIsUnlisted
  <2>7. CandidateComes'
    <3>1. candidate.thread # NoThread => candidate.thread \in Threads
      BY <1>1 DEF TypeOK
    <3>2. QED
      BY <1>1, <2>3, <3>1 DEF Ours, CandidateComes, Coming
  <2>8. QED
    BY <2>2, <2>4, <2>5, <2>6, <2>7 DEF Ours
<1>4. QED
  BY <1>2, <1>3

LEMMA ComingBackOurs ==
    ASSUME IInv, Ours, NEW t \in Threads, CallBack(t) \/ ReturnKeepingVM(t) PROVE Ours'
<1>1. ~ReturnKeepingVM(t)
  <2>1. calls[t] \in Seq(Calls) /\ NoneKeeps(calls[t])
    BY DEF IInv, Inv, TypeOK, Ours, NothingKept
  <2>2. QED
    BY <2>1, StackKeepsNone DEF ReturnKeepingVM, HasTop, Top
<1>2. QED
  BY <1>1, CallBackOurs

LEMMA ToExecuteOurs ==
    ASSUME IInv, Ours, NEW t \in Threads, TryToExecuteSmalltalk(t)
    PROVE  Ours'
<1> USE ConstantsOK
<1>1. /\ pc[t] = "execute" /\ vmOwner = t
      /\ TypeOK /\ Control /\ vm \in VMStates
      /\ vm' \in ToExecute(vm)
      /\ UNCHANGED <<state, calls, candidate>>
  BY DEF TryToExecuteSmalltalk, IInv, Inv, Control, InsideOwns, Inside, InsidePositions,
         TypeOK
<1>2. vm'.disowningVMThread = NoThread
  BY <1>1, ToExecuteOK
<1>3. vm'.activeProcess \in Processes => vm'.myList[vm'.activeProcess] = "nil"
  <2>1. CASE vm.disowningVMThread = NoThread
    <3>1. vm' = vm
      BY <1>1, <2>1 DEF ToExecute
    <3>2. ~Replaced
      BY <1>1 DEF Replaced, Coming
    <3>3. QED
      BY <3>1, <3>2 DEF Ours, ActiveIsUnlisted
  <2>2. CASE vm.disowningVMThread # NoThread
    <3> DEFINE away == Preempted(vm)
    <3>1. away \in VMStates
      BY <1>1, PreemptedOK
    <3>2. away = PreemptDisowningThread(vm)
      BY <2>2 DEF Preempted
    <3> HIDE DEF away
    <3>3. \/ vm' = [away EXCEPT !.activeProcess = Nobody]
          \/ \E p \in Processes : vm' = SetActive(away, p)
      BY <1>1, <2>2, <3>2 DEF ToExecute
    <3>4. CASE vm' = [away EXCEPT !.activeProcess = Nobody]
      BY <3>1, <3>4 DEF VMStates
    <3>5. ASSUME NEW p \in Processes, vm' = SetActive(away, p)
          PROVE  vm'.myList[vm'.activeProcess] = "nil"
      BY <3>1, <3>5 DEF SetActive, VMStates
    <3>6. QED
      BY <3>3, <3>4, <3>5
  <2>3. QED
    BY <2>1, <2>2
<1>4. /\ \A w \in Threads : w # t => pc'[w] = pc[w]
      /\ pc'[t] \in {"test", "running", "signal"}
  <2>1. \E position \in {"test", "running", "signal"} : Goto(t, position)
    BY DEF TryToExecuteSmalltalk, Release, Keep, GiveTo
  <2>2. QED
    BY <1>1, <2>1 DEF Goto, TypeOK
<1>5. ActiveIsUnlisted'
  BY <1>3 DEF ActiveIsUnlisted
<1>6. NothingKept'
  BY <1>1 DEF Ours, NothingKept, NoneKeeps
<1>7. StatesFit'
  BY <1>1, <1>4 DEF Ours, StatesFit, Fits, Coming
<1>8. QED
  BY <1>1, <1>2, <1>4, <1>5, <1>6, <1>7, OwnerStep

\* A process that is brought back is active on no list.
LEMMA PoppedIsUnlisted ==
    ASSUME NEW v \in VMStates, NEW t \in Threads, v.awolProcesses[t] # <<>>,
           NEW unaffine \in BOOLEAN
    PROVE  LET w == PopAWOLProcess(v, t, unaffine)
           IN w.myList[w.activeProcess] = "nil"
<1> DEFINE away == v.awolProcesses[t]
           p    == away[Len(away)]
           left == [v EXCEPT !.awolProcesses[t] = SubSeq(@, 1, Len(@) - 1),
                             !.ownerIndex[p] = IF unaffine THEN NoThread ELSE @]
           old  == left.activeProcess
           mid  == IF old # Nobody /\ left.myList[old] = "nil"
                   THEN MakeReady(left, old) ELSE left
           w    == PopAWOLProcess(v, t, unaffine)
<1>1. p \in Processes
  <2>1. away \in Seq(Processes)
    BY DEF VMStates
  <2>2. QED
    BY <2>1, FrontElements
<1>2. /\ {"activeProcess", "myList"} \subseteq DOMAIN left
      /\ DOMAIN left.myList = Processes
  BY DEF VMStates
<1>3. w = SetActive(mid, p)
  BY DEF PopAWOLProcess
<1> HIDE DEF left, p, w
<1>4. /\ {"activeProcess", "myList"} \subseteq DOMAIN mid
      /\ DOMAIN mid.myList = Processes
  BY <1>2 DEF MakeReady
<1> HIDE DEF mid
<1>5. w.activeProcess = p /\ w.myList[p] = "nil"
  BY <1>1, <1>3, <1>4 DEF SetActive
<1>6. QED
  BY <1>5 DEF w

LEMMA OwnVMOurs ==
    ASSUME IInv, Ours, NEW t \in Threads, OwnVM(t)
    PROVE  Ours'
<1> USE ConstantsOK
<1>1. /\ pc[t] = "back" /\ vmOwner = t /\ vmOwner' = t
      /\ TypeOK /\ Control /\ vm \in VMStates
      /\ state' = [state EXCEPT ![t] = "AssignableOrInVM"]
      /\ Goto(t, "running")
  BY DEF OwnVM, ownership, IInv, Inv, Control, InsideOwns, Inside, InsidePositions,
         TypeOK
<1>2. /\ pc'[t] = "running" /\ \A w \in Threads : w # t => pc'[w] = pc[w]
      /\ state'[t] = "AssignableOrInVM"
      /\ \A w \in Threads : w # t => state'[w] = state[w]
  BY <1>1 DEF Goto, TypeOK
<1>3. StatesFit'
  BY <1>2 DEF Ours, StatesFit, Fits
<1>4. NothingKept'
  <2>1. calls[t] \in Seq(Calls) /\ NoneKeeps(calls[t])
    BY <1>1 DEF TypeOK, Ours, NothingKept
  <2>2. \/ calls' = Pop(t)
        \/ calls' = [calls EXCEPT ![t][Len(calls[t])].process = vm'.activeProcess]
    BY DEF OwnVM
  <2>3. CASE calls' = Pop(t)
    <3>1. /\ calls'[t] = SubSeq(calls[t], 1, Len(calls[t]) - 1)
          /\ \A w \in Threads : w # t => calls'[w] = calls[w]
      BY <1>1, <2>3 DEF Pop, TypeOK
    <3>2. NoneKeeps(calls'[t])
      BY <2>1, <3>1, StackKeepsNone
    <3>3. QED
      BY <3>1, <3>2, OthersKeepNone DEF Ours
  <2>4. CASE calls' = [calls EXCEPT ![t][Len(calls[t])].process = vm'.activeProcess]
    <3> DEFINE stack == calls[t]
    <3>1. /\ calls'[t] = [stack EXCEPT ![Len(stack)].process = vm'.activeProcess]
          /\ \A w \in Threads : w # t => calls'[w] = calls[w]
      BY <1>1, <2>4 DEF TypeOK
    <3>2. stack \in Seq(Calls) /\ NoneKeeps(stack)
      BY <2>1
    <3> HIDE DEF stack
    <3>3. NoneKeeps([stack EXCEPT ![Len(stack)].process = vm'.activeProcess])
      BY <3>2, StackKeepsNone, Zenon
    <3>4. QED
      BY <3>1, <3>3, OthersKeepNone DEF Ours
  <2>5. QED
    BY <2>2, <2>3, <2>4
<1>5. /\ vm'.activeProcess \in Processes => vm'.myList[vm'.activeProcess] = "nil"
      /\ vm'.disowningVMThread = NoThread
  <2>1. CASE vm.disowningVMThread = t
    <3>1. vm' = [vm EXCEPT !.disowningVMThread = NoThread]
      BY <2>1 DEF OwnVM
    <3>2. /\ vm'.activeProcess = vm.activeProcess /\ vm'.myList = vm.myList
          /\ vm'.disowningVMThread = NoThread
      BY <1>1, <3>1 DEF VMStates
    <3>3. ~Replaced
      BY <2>1 DEF Replaced
    <3>4. QED
      BY <3>2, <3>3 DEF Ours, ActiveIsUnlisted
  <2>2. CASE vm.disowningVMThread # t
    <3> DEFINE v == Preempted(vm)
               unaffine == Top(t).kind = "callout" /\ Top(t).unaffined
    <3>1. vm' = PopAWOLProcess(v, t, unaffine) /\ unaffine \in BOOLEAN
      BY <2>2 DEF OwnVM
    <3>2. Away(t)
      BY <1>1 DEF Away, Coming
    <3>3. /\ v \in VMStates /\ v.awolProcesses[t] # <<>>
          /\ v.disowningVMThread = NoThread
      BY <1>1, <3>2, PreemptedOK
    <3> HIDE DEF v, unaffine
    <3>4. QED
      BY <3>1, <3>3, PopType, PoppedIsUnlisted
  <2>3. QED
    BY <2>1, <2>2
<1>6. ActiveIsUnlisted'
  BY <1>5 DEF ActiveIsUnlisted
<1>7. QED
  BY <1>1, <1>2, <1>3, <1>4, <1>5, <1>6, OwnerStep

-----------------------------------------------------------------------------
(* Only the owner runs the image, and its process is on no list.           *)

LEMMA InitOurs ==
    ASSUME Init PROVE Ours
<1> USE ConstantsOK
<1>1. /\ vm.activeProcess = Idle /\ vm.myList[Idle] = "nil"
      /\ vm.disowningVMThread = NoThread
      /\ \A t \in Threads : pc[t] \in {"loop", "unborn"}
      /\ \A t \in Threads : state[t] \in {"AssignableOrInVM", "nil"}
      /\ \A t \in Threads : calls[t] = <<>>
  BY DEF Init
<1>2. NothingKept
  <2>1. \A j : j \notin 1 .. Len(<<>>)
    OBVIOUS
  <2>2. QED
    BY <1>1, <2>1 DEF NothingKept, NoneKeeps
<1>3. StatesFit /\ NothingDisowned /\ CandidateComes
  BY <1>1 DEF StatesFit, Fits, NothingDisowned, CandidateComes, Running3
<1>4. ActiveIsUnlisted
  BY <1>1 DEF ActiveIsUnlisted
<1>5. QED
  BY <1>2, <1>3, <1>4 DEF Ours

LEMMA NextOurs ==
    ASSUME IInv, Ours, "keeps" \notin image, Next PROVE Ours'
<1>1. CASE Beating
  BY <1>1, BeatingOurs, SignalOurs, ConstantsOK
<1>2. ASSUME NEW t \in Threads, SchedulingLoop(t) PROVE Ours'
  BY <1>2, LoopOurs, ToExecuteOurs
<1>3. ASSUME NEW t \in Threads, Signal(t) PROVE Ours'
  BY <1>3, SignalOurs, ConstantsOK
<1>4. ASSUME NEW t \in Threads, Running(t) PROVE Ours'
  BY <1>4, LeavingOurs, BlockOurs, WakeOurs, CheckForEventsOurs, CedeToHigherOurs,
     CedeOurs DEF Running
<1>5. ASSUME NEW t \in Threads, ComingBack(t) PROVE Ours'
  BY <1>5, AcquiringOurs, ComingBackOurs DEF ComingBack, OwnVM, Return
<1>6. ASSUME NEW t \in Threads, Acquiring(t) PROVE Ours'
  BY <1>6, AcquiringOurs, OwnVMOurs
<1>7. QED
  BY <1>1, <1>2, <1>3, <1>4, <1>5, <1>6 DEF Next

Kept == IInv /\ ("keeps" \notin image => Ours)

LEMMA OursUnchanged ==
    ASSUME Ours, UNCHANGED vars PROVE Ours'
BY DEF vars, ownership, waiting, Ours, NothingKept, NoneKeeps, StatesFit, Fits,
       NothingDisowned, ActiveIsUnlisted, Replaced, CandidateComes

LEMMA KeptAlways == Spec => []Kept
<1>1. Init => Kept
  BY InitOK, InitOurs DEF Kept
<1>2. Kept /\ [Next]_vars => Kept'
  BY NextOK, NextOurs, OursUnchanged DEF Kept, Next, vars
<1>3. QED
  BY <1>1, <1>2, PTL DEF Spec

\* Whoever runs the image owns the VM; in an image all of whose calls give the
\* VM up its state says so and its process is on no list (what
\* assertSaneThreadAndProcess asserts), for any threads and processes.
THEOREM SaneInImage == Spec => []SaneThreadAndProcess
<1>1. Kept => SaneThreadAndProcess
  <2> SUFFICES ASSUME Kept, NEW t \in Threads, pc[t] = "running"
               PROVE  /\ vmOwner = t
                      /\ "keeps" \notin image => /\ state[t] = "AssignableOrInVM"
                                                /\ vm.myList[vm.activeProcess] = "nil"
    BY DEF SaneThreadAndProcess
  <2>1. vmOwner = t
    BY DEF Kept, IInv, Inv, Control, InsideOwns, Inside, InsidePositions
  <2>2. QED
    BY <2>1, RunningFacts DEF Kept, Running3
<1>2. QED
  BY <1>1, KeptAlways, PTL

-----------------------------------------------------------------------------
(* Calls return, and call back, into the process that made them.           *)

\* A callback is out of a call, and was not out of one that keeps the VM
\* unless it found the VM owned; then it runs in the process that called.
WellStacked(stack) ==
    \A j \in 1 .. Len(stack) : stack[j].kind = "callback" =>
       /\ j > 1 /\ stack[j - 1].kind # "callback"
       /\ ~stack[j].owned =>
             /\ stack[j - 1].kind = "callout"
             /\ stack[j].process \in {Nobody, stack[j - 1].process}

\* t is in a call, or on its way back from one.
Out(t) == pc[t] \in Coming \cup {"outside"}

LastAway(v, t) == v.awolProcesses[t][Len(v.awolProcesses[t])]

\* The process that called has gone away with t, and none has since.
PutAway(t) ==
    /\ vm.disowningVMThread # t
    /\ vm.awolProcesses[t] # <<>>
    /\ LastAway(vm, t) = Caller(t)

\* Or it is still active, unless t has been given the VM for another one.
StillActive(t) ==
    /\ vm.disowningVMThread = t
    /\ \/ vm.activeProcess = Caller(t)
       \/ vmOwner = t /\ Top(t).kind = "callout"

Called(t) ==
    Out(t) =>
    /\ calls[t] # <<>>
    /\ Top(t).kind = "unthreaded" =>
          pc[t] = "outside" /\ vmOwner = t /\ vm.disowningVMThread \in {NoThread, t}
    /\ Top(t).kind = "callback" => pc[t] # "outside" /\ ~Top(t).owned
    /\ Top(t).kind # "unthreaded" => PutAway(t) \/ StillActive(t)

\* Whoever runs the image has been preempted by nobody.
NoneOtherDisowned ==
    \A t \in Threads : pc[t] \in Running3 => vm.disowningVMThread \in {NoThread, t}

Callers ==
    /\ NoneOtherDisowned
    /\ \A t \in Threads : WellStacked(calls[t])
    /\ \A t \in Threads : Called(t)

-----------------------------------------------------------------------------
(* Stacks of calls, and their tops.                                        *)

LEMMA StackTop ==
    ASSUME TypeOK, NEW t \in Threads, calls[t] # <<>>
    PROVE  /\ calls[t] \in Seq(Calls) /\ Len(calls[t]) \in Nat \ {0}
           /\ Top(t) = calls[t][Len(calls[t])] /\ Top(t) \in Calls
<1>1. calls[t] \in Seq(Calls)
  BY DEF TypeOK
<1>2. Len(calls[t]) \in Nat \ {0}
  BY <1>1, FrontElements
<1>3. QED
  BY <1>1, <1>2 DEF Top

LEMMA PushStacked ==
    ASSUME NEW stack \in Seq(Calls), WellStacked(stack), NEW call \in Calls,
           call.kind = "callback" =>
              /\ stack # <<>> /\ stack[Len(stack)].kind # "callback"
              /\ ~call.owned => /\ stack[Len(stack)].kind = "callout"
                                /\ call.process \in {Nobody, stack[Len(stack)].process}
    PROVE  WellStacked(Append(stack, call))
<1> DEFINE n == Len(stack)
           new == Append(stack, call)
<1>1. n \in Nat /\ (stack # <<>> => n > 0)
  BY EmptySeq
<1>2. Len(new) = n + 1 /\ new[n + 1] = call /\ \A k \in 1 .. n : new[k] = stack[k]
  BY AppendElements
<1> HIDE DEF new
<1>3. SUFFICES ASSUME NEW j \in 1 .. n + 1, new[j].kind = "callback"
               PROVE  /\ j > 1 /\ new[j - 1].kind # "callback"
                      /\ ~new[j].owned =>
                            /\ new[j - 1].kind = "callout"
                            /\ new[j].process \in {Nobody, new[j - 1].process}
  BY <1>2 DEF WellStacked, new
<1>4. CASE j = n + 1
  BY <1>1, <1>2, <1>3, <1>4
<1>5. CASE j # n + 1
  <2>1. j \in 1 .. n
    BY <1>1, <1>5
  <2>2. j > 1 /\ j - 1 \in 1 .. n
    BY <1>1, <1>2, <1>3, <2>1 DEF WellStacked
  <2>3. new[j] = stack[j] /\ new[j - 1] = stack[j - 1]
    BY <1>2, <2>1, <2>2
  <2>4. QED
    BY <1>3, <2>1, <2>2, <2>3 DEF WellStacked
<1>6. QED
  BY <1>4, <1>5

LEMMA PopStacked ==
    ASSUME NEW stack \in Seq(Calls), WellStacked(stack), stack # <<>>
    PROVE  LET rest == SubSeq(stack, 1, Len(stack) - 1)
           IN /\ WellStacked(rest)
              /\ stack[Len(stack)].kind = "callback" =>
                    /\ Len(stack) > 1 /\ rest # <<>>
                    /\ Len(rest) = Len(stack) - 1
                    /\ rest[Len(rest)] = stack[Len(stack) - 1]
<1> DEFINE n == Len(stack)
           rest == SubSeq(stack, 1, n - 1)
<1>1. /\ n \in Nat \ {0} /\ rest \in Seq(Calls) /\ Len(rest) = n - 1
      /\ \A k \in 1 .. n - 1 : rest[k] = stack[k]
  BY FrontElements
<1> HIDE DEF rest
<1>2. WellStacked(rest)
  <2>1. SUFFICES ASSUME NEW j \in 1 .. n - 1, rest[j].kind = "callback"
                 PROVE  /\ j > 1 /\ rest[j - 1].kind # "callback"
                        /\ ~rest[j].owned =>
                              /\ rest[j - 1].kind = "callout"
                              /\ rest[j].process \in {Nobody, rest[j - 1].process}
    BY <1>1 DEF WellStacked
  <2>2. j \in 1 .. n /\ stack[j].kind = "callback"
    BY <1>1, <2>1
  <2>3. j > 1 /\ j - 1 \in 1 .. n - 1
    BY <1>1, <2>1, <2>2 DEF WellStacked
  <2>4. QED
    BY <1>1, <2>1, <2>2, <2>3 DEF WellStacked
<1>3. ASSUME stack[n].kind = "callback"
      PROVE  n > 1 /\ rest # <<>> /\ rest[n - 1] = stack[n - 1]
  <2>1. n \in 1 .. n
    BY <1>1
  <2>2. n > 1
    BY <1>3, <2>1 DEF WellStacked
  <2>3. Len(rest) # 0 /\ n - 1 \in 1 .. n - 1
    BY <1>1, <2>2
  <2>4. rest # <<>>
    BY <2>3, EmptySeq
  <2>5. QED
    BY <1>1, <2>2, <2>3, <2>4
<1>4. QED
  BY <1>1, <1>2, <1>3 DEF rest

LEMMA RenameStacked ==
    ASSUME NEW stack \in Seq(Calls), WellStacked(stack), stack # <<>>,
           stack[Len(stack)].kind = "callback",
           NEW p, p = stack[Len(stack) - 1].process
    PROVE  WellStacked([stack EXCEPT ![Len(stack)].process = p])
<1> DEFINE n == Len(stack)
           new == [stack EXCEPT ![n].process = p]
<1>1. n \in Nat \ {0} /\ n \in 1 .. n /\ DOMAIN stack = 1 .. n
  BY FrontElements
<1>2. stack[n] \in Calls
  BY <1>1
<1>3. /\ \A k \in 1 .. n : k # n => new[k] = stack[k]
      /\ new[n].kind = stack[n].kind /\ new[n].process = p
      /\ new[n].owned = stack[n].owned
  BY <1>1, <1>2 DEF Calls
<1>4. Len(new) = n
  BY <1>1
<1> HIDE DEF new
<1>5. SUFFICES ASSUME NEW j \in 1 .. n, new[j].kind = "callback"
               PROVE  /\ j > 1 /\ new[j - 1].kind # "callback"
                      /\ ~new[j].owned =>
                            /\ new[j - 1].kind = "callout"
                            /\ new[j].process \in {Nobody, new[j - 1].process}
  BY <1>4 DEF WellStacked, new
<1>6. stack[j].kind = "callback" /\ new[j].owned = stack[j].owned
  BY <1>3, <1>5
<1>7. /\ j > 1 /\ stack[j - 1].kind # "callback"
      /\ ~stack[j].owned => /\ stack[j - 1].kind = "callout"
                            /\ stack[j].process \in {Nobody, stack[j - 1].process}
  BY <1>6 DEF WellStacked
<1>8. j - 1 \in 1 .. n /\ j - 1 # n
  BY <1>1, <1>7
<1>9. new[j - 1] = stack[j - 1]
  BY <1>3, <1>8
<1>10. CASE j = n
  BY <1>3, <1>6, <1>7, <1>9, <1>10
<1>11. CASE j # n
  BY <1>3, <1>6, <1>7, <1>9, <1>11
<1>12. QED
  BY <1>10, <1>11

-----------------------------------------------------------------------------
(* What others do to a thread that is out.                                 *)

SameFor(t) == /\ vm'.activeProcess = vm.activeProcess
              /\ vm'.disowningVMThread = vm.disowningVMThread
              /\ vm'.awolProcesses[t] = vm.awolProcesses[t]

\* t comes nearer, or stays where it was.
LEMMA CalledStays ==
    ASSUME NEW t \in Threads, Called(t), calls'[t] = calls[t],
           \/ pc'[t] = pc[t]
           \/ pc'[t] \notin Coming \cup {"outside"}
           \/ pc'[t] \in Coming /\ Out(t) /\ Top(t).kind # "unthreaded",
           vmOwner = t /\ Out(t) => vmOwner' = t,
           SameFor(t)
    PROVE  Called(t)'
<1> SUFFICES ASSUME Out(t)' PROVE Called(t)'
  BY DEF Called
<1>1. Top(t)' = Top(t) /\ Caller(t)' = Caller(t) /\ LastAway(vm, t)' = LastAway(vm, t)
  BY DEF Top, Caller, HasTop, SameFor, LastAway
<1>2. /\ Out(t)
      /\ \/ pc'[t] = pc[t]
         \/ pc'[t] \in Coming /\ Top(t).kind # "unthreaded"
  BY DEF Out
<1>3. PutAway(t) => PutAway(t)'
  BY <1>1 DEF PutAway, SameFor
<1>4. StillActive(t) => StillActive(t)'
  BY <1>1, <1>2 DEF StillActive, SameFor
<1>5. pc'[t] = "outside" => pc[t] = "outside"
  BY <1>2 DEF Coming
<1>6. QED
  BY <1>1, <1>2, <1>3, <1>4, <1>5 DEF Called, SameFor

\* While another owns the VM, t's process goes away with it or stays so.
LEMMA PutAwayStays ==
    ASSUME NEW t \in Threads, Called(t), vmOwner # t, calls'[t] = calls[t],
           pc'[t] = pc[t] \/ pc'[t] \notin Coming \cup {"outside"},
           vm'.disowningVMThread # t,
           IF vm.disowningVMThread = t
           THEN /\ vm'.awolProcesses[t] # <<>>
                /\ LastAway(vm, t)' = vm.activeProcess
           ELSE vm'.awolProcesses[t] = vm.awolProcesses[t]
    PROVE  Called(t)'
<1> SUFFICES ASSUME Out(t)' PROVE Called(t)'
  BY DEF Called
<1>1. Top(t)' = Top(t) /\ Caller(t)' = Caller(t)
  BY DEF Top, Caller, HasTop
<1>2. Out(t) /\ pc'[t] = pc[t] /\ Top(t).kind # "unthreaded"
  BY DEF Out, Called
<1>3. PutAway(t)'
  <2>1. CASE vm.disowningVMThread = t
    <3>1. vm.activeProcess = Caller(t)
      BY <1>2, <2>1 DEF Called, PutAway, StillActive
    <3>2. QED
      BY <1>1, <2>1, <3>1 DEF PutAway
  <2>2. CASE vm.disowningVMThread # t
    <3>1. PutAway(t)
      BY <1>2, <2>2 DEF Called, StillActive
    <3>2. QED
      BY <1>1, <2>2, <3>1 DEF PutAway, LastAway
  <2>3. QED
    BY <2>1, <2>2
<1>4. QED
  BY <1>1, <1>2, <1>3 DEF Called

\* The preempted process is the last that went away with the disowning thread.
LEMMA PreemptedLast ==
    ASSUME TypeOK, Control
    PROVE  /\ Preempted(vm) \in VMStates
           /\ Preempted(vm).disowningVMThread = NoThread
           /\ \A t \in Threads :
                 IF vm.disowningVMThread = t
                 THEN /\ Preempted(vm).awolProcesses[t] # <<>>
                      /\ LastAway(Preempted(vm), t) = vm.activeProcess
                 ELSE Preempted(vm).awolProcesses[t] = vm.awolProcesses[t]
<1>1. vm \in VMStates
  BY DEF TypeOK
<1>2. /\ Preempted(vm) \in VMStates
      /\ Preempted(vm).disowningVMThread = NoThread
  BY PreemptedOK
<1>3. CASE vm.disowningVMThread = NoThread
  BY <1>2, <1>3, ConstantsOK DEF Preempted
<1>4. CASE vm.disowningVMThread # NoThread
  <2> DEFINE u == vm.disowningVMThread
             p == vm.activeProcess
             old == vm.awolProcesses[u]
             v == PreemptDisowningThread(vm)
  <2>1. p \in Processes /\ u \in Threads /\ old \in Seq(Processes)
    BY <1>1, <1>4, ConstantsOK DEF Control, DisowningIsActive, VMStates
  <2>2. v.awolProcesses = [vm.awolProcesses EXCEPT ![u] = Append(old, p)]
    BY <1>1 DEF PreemptDisowningThread, VMStates
  <2>3. Preempted(vm) = v
    BY <1>4 DEF Preempted
  <2>4. /\ v.awolProcesses[u] = Append(old, p)
        /\ \A t \in Threads : t # u => v.awolProcesses[t] = vm.awolProcesses[t]
    BY <1>1, <2>1, <2>2 DEF VMStates
  <2>5. Append(old, p) # <<>> /\ Append(old, p)[Len(Append(old, p))] = p
    BY SMTT(40), <2>1, AppendNotEmpty, AppendElements
  <2> HIDE DEF v
  <2>6. QED
    BY <1>2, <2>3, <2>4, <2>5 DEF LastAway
<1>5. QED
  BY <1>3, <1>4

\* Others while t, which owns the VM, runs the image, calls or comes back.
LEMMA OwnerLeavesCallers ==
    ASSUME IInv, Callers, NEW t \in Threads, vmOwner = t,
           NEW w \in Threads, w # t, pc'[w] = pc[w], calls'[w] = calls[w],
           \/ SameFor(w)
           \/ /\ pc[t] \in {"running", "cede", "ceding", "outside"}
              /\ vm'.disowningVMThread \in {NoThread, t}
              /\ vm'.awolProcesses[w] = vm.awolProcesses[w]
           \/ /\ vm'.disowningVMThread = NoThread
              /\ vm'.awolProcesses[w] = Preempted(vm).awolProcesses[w]
    PROVE  Called(w)'
<1>1. Called(w) /\ TypeOK /\ Control /\ vmOwner # w
  BY DEF Callers, IInv, Inv
<1>2. CASE SameFor(w)
  BY <1>1, <1>2, CalledStays
<1>3. CASE /\ pc[t] \in {"running", "cede", "ceding", "outside"}
           /\ vm'.disowningVMThread \in {NoThread, t}
           /\ vm'.awolProcesses[w] = vm.awolProcesses[w]
  <2>1. Out(w) => Away(w)
    BY <1>1 DEF Out, Away, Called, HasTop
  <2>2. Out(w) => vm.disowningVMThread # w
    BY <1>1, <1>3, <2>1, OthersCanReturn
  <2>3. CASE ~Out(w)
    BY <2>3 DEF Called, Out
  <2>4. CASE Out(w)
    BY <1>1, <1>3, <2>2, <2>4, PutAwayStays, ConstantsOK
  <2>5. QED
    BY <2>3, <2>4
<1>4. CASE /\ vm'.disowningVMThread = NoThread
           /\ vm'.awolProcesses[w] = Preempted(vm).awolProcesses[w]
  <2>1. IF vm.disowningVMThread = w
        THEN /\ vm'.awolProcesses[w] # <<>>
             /\ LastAway(vm, w)' = vm.activeProcess
        ELSE vm'.awolProcesses[w] = vm.awolProcesses[w]
    BY <1>1, <1>4, PreemptedLast DEF LastAway
  <2>2. QED
    BY <1>1, <1>4, <2>1, PutAwayStays, ConstantsOK
<1>5. QED
  BY <1>2, <1>3, <1>4

-----------------------------------------------------------------------------
(* Steps.                                                                  *)

\* The interpreter's state and the stacks stay; some threads come nearer.
LEMMA QuietCallers ==
    ASSUME IInv, Callers, UNCHANGED <<vm, calls>>,
           \A w \in Threads :
              \/ pc'[w] = pc[w]
              \/ pc'[w] \notin Coming \cup Running3 \cup {"outside"}
              \/ pc'[w] \in Coming /\ Out(w) /\ Top(w).kind # "unthreaded",
           \A w \in Threads : vmOwner = w /\ Out(w) => vmOwner' = w
    PROVE  Callers'
<1>1. ASSUME NEW w \in Threads PROVE Called(w)'
  <2>1. SameFor(w) /\ Called(w) /\ calls'[w] = calls[w]
    BY DEF SameFor, Callers
  <2>2. \/ pc'[w] = pc[w]
        \/ pc'[w] \notin Coming \cup {"outside"}
        \/ pc'[w] \in Coming /\ Out(w) /\ Top(w).kind # "unthreaded"
    OBVIOUS
  <2>3. vmOwner = w /\ Out(w) => vmOwner' = w
    OBVIOUS
  <2>4. QED
    BY <2>1, <2>2, <2>3, CalledStays
<1>2. NoneOtherDisowned'
  BY DEF Callers, NoneOtherDisowned, Running3, Coming
<1>3. \A w \in Threads : WellStacked(calls[w])'
  BY DEF Callers, WellStacked
<1>4. QED
  BY <1>1, <1>2, <1>3 DEF Callers

\* One thread moves, out of the way or nearer.
LEMMA QuietMoveCallers ==
    ASSUME IInv, Callers, NEW a \in Actors, NEW position, Goto(a, position),
           UNCHANGED <<vm, calls>>,
           \/ position \notin Coming \cup Running3 \cup {"outside"}
           \/ position \in Coming /\ Out(a) /\ HasTop(a, "callout")
           \/ position \in Coming /\ pc[a] \in Coming
           \/ a = Heartbeat,
           \/ vmOwner' = vmOwner
           \/ vmOwner \notin Threads
           \/ vmOwner = a /\ ~Out(a)
    PROVE  Callers'
<1>1. /\ TypeOK
      /\ pc'[a] = position /\ \A w \in Threads : w # a => pc'[w] = pc[w]
  BY ConstantsOK DEF Goto, IInv, Inv, TypeOK
<1>2. ASSUME NEW w \in Threads
      PROVE  \/ pc'[w] = pc[w]
             \/ pc'[w] \notin Coming \cup Running3 \cup {"outside"}
             \/ pc'[w] \in Coming /\ Out(w) /\ Top(w).kind # "unthreaded"
  <2>1. pc[w] \in Coming => Out(w) /\ Top(w).kind # "unthreaded"
    BY DEF Callers, Called, Out, Coming
  <2>2. QED
    BY <1>1, <2>1, ConstantsOK DEF HasTop
<1>3. QED
  BY <1>2, QuietCallers

LEMMA LoopCallers ==
    ASSUME IInv, Callers, NEW t \in Threads,
           SchedulingLoop(t), ~TryToExecuteSmalltalk(t)
    PROVE  Callers'
<1> USE ConstantsOK DEF Running3, Coming
<1>1. CASE StartVMThread(t) \/ Schedule(t) \/ TestVMOwner(t) \/ WaitOn(t, "pooled", "loop")
  <2>1. /\ \E position \in {"loop", "execute", "lock", "pooled"} : Goto(t, position)
        /\ UNCHANGED <<vm, calls, vmOwner>>
    BY <1>1 DEF StartVMThread, Schedule, TestVMOwner, WaitOn, ownership
  <2>2. QED
    BY <2>1, QuietMoveCallers
<1>2. CASE \/ TryLock(t, "lock", "look", "test")
           \/ LookAt(t, "look", t, "relinquished?", "test")
  <2>1. /\ \E position \in {"look", "test", "relinquished?"} : Goto(t, position)
        /\ UNCHANGED <<vm, calls>>
        /\ vmOwner' = vmOwner \/ vmOwner \notin Threads
    BY <1>2 DEF TryLock, LookAt
  <2>2. QED
    BY <2>1, QuietMoveCallers
<1>3. CASE HeedRelinquishing(t)
  <2>1. /\ \E position \in {"test", "execute"} : Goto(t, position)
        /\ UNCHANGED <<vm, calls>>
        /\ vmOwner = t /\ ~Out(t)
    BY <1>3 DEF HeedRelinquishing, Release, Keep, Out, IInv, Inv, Control, InsideOwns,
                Inside, InsidePositions
  <2>2. QED
    BY <2>1, QuietMoveCallers
<1>4. QED
  BY <1>1, <1>2, <1>3 DEF SchedulingLoop

LEMMA AcquiringCallers ==
    ASSUME IInv, Callers, NEW t \in Threads, Acquiring(t) \/ Return(t), ~OwnVM(t)
    PROVE  Callers'
<1> USE ConstantsOK
<1>1. CASE Return(t)
  <2>1. /\ Goto(t, "enter") /\ UNCHANGED <<vm, calls, vmOwner>>
        /\ Out(t) /\ HasTop(t, "callout")
    BY <1>1 DEF Return, Out, ownership
  <2>2. QED
    BY <2>1, QuietMoveCallers DEF Coming
<1>2. CASE Acquiring(t) /\ ~OwnVM(t)
  <2>1. pc[t] \in Coming /\ UNCHANGED <<vm, calls>>
    BY <1>2 DEF Acquiring, TryLock, LookAt, WantOwnership, Spin,
                WaitingPriorityIsAtLeast, WaitOn, Coming
  <2>2. \E position \in Coming : Goto(t, position)
    BY <1>2 DEF Acquiring, TryLock, LookAt, WantOwnership, Spin,
                WaitingPriorityIsAtLeast, WaitOn, Coming
  <2>3. vmOwner' = vmOwner \/ vmOwner \notin Threads
    BY <1>2 DEF Acquiring, TryLock, LookAt, WantOwnership, Spin,
                WaitingPriorityIsAtLeast, WaitOn, ownership
  <2>4. QED
    BY <2>1, <2>2, <2>3, QuietMoveCallers
<1>3. QED
  BY <1>1, <1>2

LEMMA BeatingCallers ==
    ASSUME IInv, Callers, Beating, ~Signal(Heartbeat) PROVE Callers'
<1> USE ConstantsOK
<1>1. UNCHANGED <<vm, calls>>
  BY DEF Beating, Beat, TryLock, LookAt, EnsureRunningVMThread
<1>2. vmOwner' = vmOwner \/ vmOwner \notin Threads
  <2>1. CASE Beat \/ TryLock(Heartbeat, "lock", "look", "loop")
    BY <2>1 DEF Beat, TryLock, ownership
  <2>2. CASE LookAt(Heartbeat, "look", Anonymous, "pick", "loop")
    BY <2>2 DEF LookAt
  <2>3. CASE EnsureRunningVMThread
    BY <2>3 DEF EnsureRunningVMThread, IInv, Inv, Control, InsideOwns, Inside,
                InsidePositions
  <2>4. QED
    BY <2>1, <2>2, <2>3 DEF Beating
<1>3. \A w \in Threads : pc'[w] = pc[w]
  BY BeatingMoves DEF Moves, IInv, Inv, Threads, Actors
<1>4. QED
  BY <1>1, <1>2, <1>3, QuietCallers

LEMMA SignalCallers ==
    ASSUME IInv, Callers, NEW a \in Actors, Signal(a) PROVE Callers'
<1> USE ConstantsOK
<1> DEFINE after == IF a = Heartbeat THEN "loop" ELSE "test"
<1>1. UNCHANGED <<vm, calls, vmOwner>>
  BY DEF Signal, ownership
<1>2. \A w \in Threads : pc'[w] = pc[w] \/ pc'[w] \in {"loop", "test", "starting"}
  <2>1. \/ pc' = [pc EXCEPT ![a] = after, ![target[a]] = "starting"]
        \/ pc' = [pc EXCEPT ![a] = after]
    BY DEF Signal, Goto
  <2>2. QED
    BY <2>1 DEF IInv, Inv, TypeOK
<1>3. QED
  BY <1>1, <1>2, QuietCallers DEF Running3, Coming

\* The owner does something, after which it is fit to run or out as it should be.
LEMMA OwnerCallers ==
    ASSUME IInv, Callers, NEW t \in Threads, vmOwner = t,
           \A w \in Threads : w # t => pc'[w] = pc[w] /\ calls'[w] = calls[w],
           \/ \A w \in Threads : SameFor(w)
           \/ /\ pc[t] \in {"running", "cede", "ceding", "outside"}
              /\ vm'.disowningVMThread \in {NoThread, t}
              /\ \A w \in Threads : w # t => vm'.awolProcesses[w] = vm.awolProcesses[w]
           \/ /\ vm'.disowningVMThread = NoThread
              /\ \A w \in Threads : w # t =>
                    vm'.awolProcesses[w] = Preempted(vm).awolProcesses[w],
           pc'[t] \in Running3 => vm'.disowningVMThread \in {NoThread, t},
           WellStacked(calls'[t]),
           Called(t)'
    PROVE  Callers'
<1>1. ASSUME NEW w \in Threads PROVE Called(w)'
  BY OwnerLeavesCallers
<1>2. NoneOtherDisowned'
  <2>1. ASSUME NEW w \in Threads, w # t PROVE pc'[w] \notin Running3
    BY <2>1 DEF IInv, Inv, Control, InsideOwns, Inside, InsidePositions, Running3
  <2>2. QED
    BY <2>1 DEF NoneOtherDisowned
<1>3. \A w \in Threads : WellStacked(calls[w])'
  <2>1. \A w \in Threads : WellStacked(calls'[w])
    BY DEF Callers
  <2>2. QED
    BY <2>1 DEF WellStacked
<1>4. QED
  BY <1>1, <1>2, <1>3 DEF Callers

\* The owner runs on, gives the VM away or stops.
LEMMA RunningCallers ==
    ASSUME IInv, Callers, NEW t \in Threads, pc[t] \in Running3,
           NEW position \in {"running", "cede", "ceding", "signal", "aborted"},
           Goto(t, position), calls' = calls,
           vm'.disowningVMThread = vm.disowningVMThread,
           vm'.awolProcesses = vm.awolProcesses
    PROVE  Callers'
<1>1. /\ vmOwner = t /\ pc'[t] = position
      /\ \A w \in Threads : w # t => pc'[w] = pc[w]
  BY OwnerFacts, ConstantsOK DEF IInv, Inv, TypeOK, Goto, Running3
<1>2. vm.disowningVMThread \in {NoThread, t}
  BY DEF Callers, NoneOtherDisowned
<1>3. Called(t)' /\ WellStacked(calls'[t])
  BY <1>1 DEF Called, Out, Coming, Callers
<1>4. QED
  BY <1>1, <1>2, <1>3, OwnerCallers DEF Running3

LEMMA SwitchCallers ==
    ASSUME IInv, Callers, NEW t \in Threads, pc[t] \in Running3,
           NEW v \in VMStates, NEW p, ThreadSwitchIfNecessary(t, v, p), calls' = calls,
           v.disowningVMThread = vm.disowningVMThread,
           v.awolProcesses = vm.awolProcesses
    PROVE  Callers'
<1>1. /\ vm'.disowningVMThread = vm.disowningVMThread
      /\ vm'.awolProcesses = vm.awolProcesses
  BY DEF ThreadSwitchIfNecessary, VMStates
<1>2. Goto(t, "signal") \/ Goto(t, "running")
  BY DEF ThreadSwitchIfNecessary, GiveTo, Keep
<1>3. QED
  BY <1>1, <1>2, RunningCallers

LEMMA OwnerRunsCallers ==
    ASSUME IInv, Callers, NEW t \in Threads,
           \/ Block(t) \/ Wake(t) \/ CheckForEvents(t)
           \/ CedeToHigherPriorityThreads(t) \/ Cede(t)
    PROVE  Callers'
<1>1. /\ pc[t] \in Running3 /\ calls' = calls
  BY DEF Block, Wake, CheckForEvents, CedeToHigherPriorityThreads, Cede, Running3
<1>2. vm \in VMStates /\ vm.activeProcess \in Processes
  BY <1>1, OwnerFacts DEF IInv, Inv, TypeOK, Running3
<1>3. ASSUME NEW q \in Processes
      PROVE  /\ Resumed(vm, q) \in VMStates
             /\ Resumed(vm, q).disowningVMThread = vm.disowningVMThread
             /\ Resumed(vm, q).awolProcesses = vm.awolProcesses
  BY <1>2, ResumedType
<1>4. CASE Block(t)
  <2> DEFINE v == [vm EXCEPT !.myList[vm.activeProcess] = "blocked"]
  <2>1. TransferToHighest(t, v)
    BY <1>4 DEF Block
  <2>2. /\ v \in VMStates /\ v.disowningVMThread = vm.disowningVMThread
        /\ v.awolProcesses = vm.awolProcesses
    BY <1>2 DEF VMStates
  <2> HIDE DEF v
  <2>3. ASSUME NEW p \in Processes, ThreadSwitchIfNecessary(t, SetActive(v, p), p)
        PROVE  Callers'
    BY <1>1, <2>2, <2>3, SetActiveType, SwitchCallers
  <2>4. ASSUME vm' = v, \/ \E u \in Threads : GiveTo(t, u)
                        \/ Keep(t, "aborted")
        PROVE  Callers'
    <3>1. Goto(t, "signal") \/ Goto(t, "aborted")
      BY <2>4 DEF GiveTo, Keep
    <3>2. QED
      BY <1>1, <2>2, <2>4, <3>1, RunningCallers
  <2>5. QED
    BY <2>1, <2>3, <2>4 DEF TransferToHighest
<1>5. CASE Wake(t)
  <2>1. PICK q \in Processes :
           \/ ThreadSwitchIfNecessary(t, Resumed(vm, q), q)
           \/ vm' = Resumed(vm, q) /\ Goto(t, "running")
    BY <1>5 DEF Wake, Keep
  <2>2. QED
    BY <1>1, <1>3, <2>1, SwitchCallers, RunningCallers
<1>6. CASE CheckForEvents(t)
  <2>1. PICK v \in {vm} \cup {Resumed(vm, q) : q \in Processes} :
           \/ vm' = v /\ Goto(t, "cede")
           \/ ThreadSwitchIfNecessary(t, v, v.activeProcess)
    BY <1>6 DEF CheckForEvents, Keep
  <2>2. /\ v \in VMStates /\ v.disowningVMThread = vm.disowningVMThread
        /\ v.awolProcesses = vm.awolProcesses
    BY <1>2, <1>3
  <2>3. QED
    BY <1>1, <2>1, <2>2, SwitchCallers, RunningCallers
<1>7. CASE CedeToHigherPriorityThreads(t)
  <2>1. /\ vm' = [vm EXCEPT !.threadPriority[ActiveThread(t)] = priority[vm.activeProcess]]
        /\ Goto(t, "ceding")
    BY <1>7 DEF CedeToHigherPriorityThreads
  <2>2. /\ vm'.disowningVMThread = vm.disowningVMThread
        /\ vm'.awolProcesses = vm.awolProcesses
    BY <1>2, <2>1 DEF VMStates
  <2>3. QED
    BY <1>1, <2>1, <2>2, RunningCallers
<1>8. CASE Cede(t)
  <2>1. \/ ThreadSwitchIfNecessary(t, vm, vm.activeProcess)
        \/ vm' = MakeReady(vm, vm.activeProcess) /\ Goto(t, "signal")
    BY <1>8 DEF Cede, GiveTo
  <2>2. QED
    BY <1>1, <1>2, <2>1, MakeReadyType, SwitchCallers, RunningCallers
<1>9. QED
  BY <1>4, <1>5, <1>6, <1>7, <1>8

\* A thread that is given the VM puts away whoever was disowning it.
LEMMA ToExecuteCallers ==
    ASSUME IInv, Callers, NEW t \in Threads, TryToExecuteSmalltalk(t)
    PROVE  Callers'
<1>1. /\ TypeOK /\ Control /\ calls' = calls /\ pc[t] = "execute"
      /\ vm' \in ToExecute(vm)
  BY DEF TryToExecuteSmalltalk, IInv, Inv
<1>2. vmOwner = t
  BY <1>1, InsideOwnsVM DEF Control, InsideOwns, Inside, InsidePositions
<1>3. \E position \in {"test", "running", "signal"} : Goto(t, position)
  BY DEF TryToExecuteSmalltalk, Release, Keep, GiveTo
<1>4. /\ \A w \in Threads : w # t => pc'[w] = pc[w]
      /\ pc'[t] \in {"test", "running", "signal"}
  BY <1>1, <1>3, ConstantsOK DEF Goto, TypeOK
<1>5. vm'.disowningVMThread = NoThread
  BY <1>1, ToExecuteOK
<1>6. vm'.awolProcesses = Preempted(vm).awolProcesses
  <2> DEFINE v == Preempted(vm)
  <2>1. \/ vm' = v
        \/ vm' = [v EXCEPT !.activeProcess = Nobody]
        \/ \E p \in Processes : vm' = SetActive(v, p)
    BY <1>1 DEF ToExecute, Preempted
  <2>2. v \in VMStates
    BY <1>1, PreemptedLast
  <2> HIDE DEF v
  <2>3. vm'.awolProcesses = v.awolProcesses
    <3>1. [v EXCEPT !.activeProcess = Nobody].awolProcesses = v.awolProcesses
      BY <2>2 DEF VMStates
    <3>2. \A p : SetActive(v, p).awolProcesses = v.awolProcesses
      BY <2>2 DEF SetActive, VMStates
    <3>3. QED
      BY <2>1, <3>1, <3>2
  <2>4. QED
    BY <2>3 DEF v
<1>7. Called(t)' /\ WellStacked(calls'[t])
  BY <1>1, <1>4 DEF Called, Out, Coming, Callers
<1>8. QED
  BY <1>1, <1>2, <1>4, <1>5, <1>6, <1>7, OwnerCallers

\* What is brought back is what was put away.
LEMMA BringsBackCaller ==
    ASSUME IInv, Callers, NEW t \in Threads, OwnVM(t), vm.disowningVMThread # t
    PROVE  vm'.activeProcess = Caller(t)
<1> DEFINE unaffine == Top(t).kind = "callout" /\ Top(t).unaffined
           v == Preempted(vm)
<1>1. TypeOK /\ Control /\ pc[t] = "back"
  BY DEF OwnVM, IInv, Inv
<1>2. PutAway(t)
  BY <1>1 DEF Callers, Called, Out, Coming, StillActive
<1>3. /\ v \in VMStates /\ v.awolProcesses[t] = vm.awolProcesses[t]
  BY <1>1, PreemptedLast
<1>4. vm' = PopAWOLProcess(v, t, unaffine)
  BY DEF OwnVM
<1> HIDE DEF v, unaffine
<1>5. vm'.activeProcess = LastAway(v, t)
  <2> DEFINE p    == v.awolProcesses[t][Len(v.awolProcesses[t])]
             left == [v EXCEPT !.awolProcesses[t] = SubSeq(@, 1, Len(@) - 1),
                               !.ownerIndex[p] = IF unaffine THEN NoThread ELSE @]
             mid  == IF left.activeProcess # Nobody /\ left.myList[left.activeProcess] = "nil"
                     THEN MakeReady(left, left.activeProcess) ELSE left
  <2>1. vm' = SetActive(mid, p)
    BY <1>4 DEF PopAWOLProcess
  <2>2. "activeProcess" \in DOMAIN left
    BY <1>3 DEF VMStates
  <2>3. "activeProcess" \in DOMAIN mid
    BY <2>2 DEF MakeReady
  <2> HIDE DEF mid, p
  <2>4. SetActive(mid, p).activeProcess = p
    BY <2>3 DEF SetActive
  <2>5. QED
    BY <2>1, <2>4 DEF LastAway, p
<1>6. QED
  BY <1>2, <1>3, <1>5 DEF PutAway, LastAway

LEMMA OwnVMCallers ==
    ASSUME IInv, Callers, NEW t \in Threads, OwnVM(t) PROVE Callers'
<1> DEFINE unaffine == Top(t).kind = "callout" /\ Top(t).unaffined
           stack == calls[t]
           n == Len(stack)
<1>1. /\ TypeOK /\ Control /\ pc[t] = "back" /\ Goto(t, "running")
      /\ calls' = IF Top(t).kind = "callout" THEN Pop(t)
                  ELSE [calls EXCEPT ![t][n].process = vm'.activeProcess]
  BY DEF OwnVM, IInv, Inv
<1>2. vmOwner = t
  BY <1>1 DEF Control, InsideOwns, Inside, InsidePositions
<1>3. /\ \A w \in Threads : w # t => pc'[w] = pc[w] /\ calls'[w] = calls[w]
      /\ pc'[t] = "running"
  BY <1>1, ConstantsOK DEF Goto, TypeOK, Pop
<1>4. /\ stack # <<>> /\ WellStacked(stack) /\ Top(t).kind # "unthreaded"
      /\ Top(t).kind = "callback" => ~Top(t).owned
      /\ PutAway(t) \/ StillActive(t)
  BY <1>1 DEF Callers, Called, Out, Coming
<1>5. stack \in Seq(Calls) /\ Top(t) = stack[n] /\ Top(t) \in Calls
  BY <1>1, <1>4, StackTop
<1>6. Top(t).kind = "callback" => vm'.activeProcess = stack[n - 1].process
  <2> SUFFICES ASSUME Top(t).kind = "callback"
               PROVE  vm'.activeProcess = stack[n - 1].process
    OBVIOUS
  <2>1. Caller(t) = stack[n - 1].process
    BY <1>4 DEF Caller, HasTop
  <2>2. CASE vm.disowningVMThread = t
    <3>1. vm.activeProcess = Caller(t)
      BY <1>4, <2>2 DEF PutAway, StillActive
    <3>2. vm'.activeProcess = vm.activeProcess
      BY <1>1, <2>2 DEF OwnVM, TypeOK, VMStates
    <3>3. QED
      BY <2>1, <3>1, <3>2
  <2>3. CASE vm.disowningVMThread # t
    BY <2>1, <2>3, BringsBackCaller
  <2>4. QED
    BY <2>2, <2>3
<1>7. WellStacked(calls'[t])
  <2>1. CASE Top(t).kind = "callout"
    <3>1. calls'[t] = SubSeq(stack, 1, n - 1)
      BY <1>1, <2>1 DEF Pop, TypeOK
    <3>2. QED
      BY <1>4, <1>5, <3>1, PopStacked
  <2>2. CASE Top(t).kind = "callback"
    <3>1. calls'[t] = [stack EXCEPT ![n].process = vm'.activeProcess]
      BY <1>1, <2>2 DEF TypeOK
    <3> HIDE DEF n, stack
    <3>2. QED
      BY <1>4, <1>5, <1>6, <2>2, <3>1, RenameStacked DEF n
  <2>3. QED
    BY <1>4, <1>5, <2>1, <2>2 DEF Calls
<1>8. /\ vm'.disowningVMThread = NoThread
      /\ \A w \in Threads : w # t =>
            vm'.awolProcesses[w] = Preempted(vm).awolProcesses[w]
  <2>1. CASE vm.disowningVMThread = t
    <3>1. /\ vm'.disowningVMThread = NoThread
          /\ vm'.awolProcesses = vm.awolProcesses
      BY <1>1, <2>1 DEF OwnVM, TypeOK, VMStates
    <3>2. QED
      BY <1>1, <2>1, <3>1, PreemptedLast
  <2>2. CASE vm.disowningVMThread # t
    <3> DEFINE v == Preempted(vm)
    <3>1. /\ v \in VMStates /\ v.disowningVMThread = NoThread
          /\ v.awolProcesses[t] = vm.awolProcesses[t]
      BY <1>1, <2>2, PreemptedLast
    <3>2. vm' = PopAWOLProcess(v, t, unaffine) /\ unaffine \in BOOLEAN
      BY <2>2 DEF OwnVM
    <3>3. v.awolProcesses[t] # <<>>
      BY <1>4, <2>2, <3>1 DEF PutAway, StillActive
    <3> HIDE DEF v, unaffine
    <3>4. QED
      BY <3>1, <3>2, <3>3, PopType DEF v
  <2>3. QED
    BY <2>1, <2>2
<1>9. Called(t)'
  BY <1>3 DEF Called, Out, Coming
<1>10. QED
  BY <1>2, <1>3, <1>7, <1>8, <1>9, OwnerCallers

-----------------------------------------------------------------------------
(* Calls and callbacks.                                                    *)

\* The callers of t when a call is pushed: out of the process that is active.
LEMMA CallOutCallers ==
    ASSUME IInv, Callers, NEW t \in Threads, CallOut(t) \/ CallKeepingVM(t)
    PROVE  Callers'
<1> USE ConstantsOK
<1>1. /\ TypeOK /\ Control /\ pc[t] = "running" /\ Goto(t, "outside")
      /\ vm.activeProcess \in Processes
      /\ vm \in VMStates
  BY OwnerFacts
     DEF CallOut, CallKeepingVM, DisownVM, Release, IInv, Inv, TypeOK
<1>2. /\ vmOwner = t /\ vm.disowningVMThread \in {NoThread, t}
      /\ pc'[t] = "outside" /\ \A w \in Threads : w # t => pc'[w] = pc[w]
  BY <1>1, OwnerFacts DEF Goto, TypeOK, Callers, NoneOtherDisowned, Running3
<1>3. ASSUME NEW call \in Calls, Push(t, call), call.kind # "callback"
      PROVE  /\ Top(t)' = call /\ calls'[t] # <<>>
             /\ \A w \in Threads : w # t => calls'[w] = calls[w]
             /\ WellStacked(calls'[t])
             /\ ~HasTop(t, "callback")'
  <2>1. /\ calls[t] \in Seq(Calls) /\ WellStacked(calls[t])
        /\ calls'[t] = Append(calls[t], call) /\ calls'[t] # <<>>
        /\ calls'[t][Len(calls'[t])] = call
        /\ \A w \in Threads : w # t => calls'[w] = calls[w]
    BY <1>1, <1>3, PushedTop DEF Callers
  <2>2. WellStacked(calls'[t])
    BY <1>3, <2>1, PushStacked
  <2>3. Top(t)' = call
    BY <2>1 DEF Top
  <2>4. QED
    BY <1>3, <2>1, <2>2, <2>3 DEF HasTop
<1>4. CASE CallOut(t)
  <2> DEFINE call == Call("callout", vm.activeProcess, vm.activeProcess = Idle, FALSE)
  <2>1. /\ call \in Calls /\ call.kind = "callout"
        /\ call.process = vm.activeProcess
    BY <1>1 DEF Call, Calls
  <2>2. Push(t, call) /\ vm' = [vm EXCEPT !.disowningVMThread = t]
    BY <1>4 DEF CallOut, DisownVM
  <2> HIDE DEF call
  <2>3. /\ vm'.disowningVMThread = t
        /\ vm'.awolProcesses = vm.awolProcesses
        /\ vm'.activeProcess = vm.activeProcess
    BY <1>1, <2>2 DEF VMStates
  <2>4. Called(t)'
    BY <1>3, <2>1, <2>2, <2>3 DEF Called, StillActive, Caller
  <2>5. QED
    BY <1>1, <1>2, <1>3, <2>1, <2>2, <2>3, <2>4, OwnerCallers DEF Running3
<1>5. CASE CallKeepingVM(t)
  <2> DEFINE call == Call("unthreaded", vm.activeProcess, FALSE, FALSE)
  <2>1. call \in Calls /\ call.kind = "unthreaded"
    BY <1>1 DEF Call, Calls
  <2>2. Push(t, call) /\ vm' = vm /\ vmOwner' = vmOwner
    BY <1>5 DEF CallKeepingVM, ownership
  <2> HIDE DEF call
  <2>3. Called(t)'
    BY <1>2, <1>3, <2>1, <2>2 DEF Called
  <2>4. \A w \in Threads : SameFor(w)
    BY <2>2 DEF SameFor
  <2>5. QED
    BY <1>1, <1>2, <1>3, <2>1, <2>2, <2>3, <2>4, OwnerCallers DEF Running3
<1>6. QED
  BY <1>4, <1>5

\* A callback returns in the process it ran in, which called if the VM was
\* taken for it.
LEMMA ReturnFromCallBackCallers ==
    ASSUME IInv, Callers, NEW t \in Threads, ReturnFromCallBack(t)
    PROVE  Callers'
<1> USE ConstantsOK
<1> DEFINE stack == calls[t]
           n == Len(stack)
           rest == SubSeq(stack, 1, n - 1)
<1>1. /\ TypeOK /\ Control /\ pc[t] = "running" /\ Goto(t, "outside")
      /\ vm.activeProcess \in Processes /\ vm \in VMStates
      /\ vmOwner = t /\ calls' = Pop(t)
      /\ vm' = [vm EXCEPT !.disowningVMThread = t]
      /\ IF Top(t).owned THEN vmOwner' = vmOwner ELSE TRUE
  BY OwnerFacts
     DEF ReturnFromCallBack, DisownVM, Release, Keep, IInv, Inv, TypeOK
<1>2. /\ pc'[t] = "outside"
      /\ \A w \in Threads : w # t => pc'[w] = pc[w] /\ calls'[w] = calls[w]
      /\ calls'[t] = rest
  BY <1>1 DEF Goto, TypeOK, Pop
<1>3. /\ vm'.disowningVMThread = t
      /\ vm'.awolProcesses = vm.awolProcesses
      /\ vm'.activeProcess = vm.activeProcess
  BY <1>1 DEF VMStates
<1>4. /\ stack \in Seq(Calls) /\ stack # <<>> /\ WellStacked(stack)
      /\ n \in Nat \ {0} /\ Top(t) = stack[n]
      /\ stack[n].kind = "callback" /\ stack[n].process = vm.activeProcess
  BY <1>1, StackTop DEF ReturnFromCallBack, HasTop, Callers
<1> HIDE DEF stack, n, rest
<1>5. /\ WellStacked(rest) /\ rest # <<>>
      /\ n > 1 /\ rest[Len(rest)] = stack[n - 1]
  BY <1>4, PopStacked DEF n, rest
<1>6. /\ stack[n - 1].kind # "callback"
      /\ ~stack[n].owned =>
            /\ stack[n - 1].kind = "callout"
            /\ stack[n - 1].process = vm.activeProcess
  <2>1. n \in 1 .. Len(stack)
    BY <1>4 DEF n
  <2>2. QED
    BY <1>1, <1>4, <2>1 DEF WellStacked
<1>7. Top(t)' = stack[n - 1] /\ calls'[t] # <<>> /\ stack[n - 1] \in Calls
  <2>1. n - 1 \in 1 .. Len(stack)
    BY <1>4, <1>5 DEF n
  <2>2. QED
    BY <1>2, <1>4, <1>5, <2>1 DEF Top
<1>8. Called(t)'
  <2>1. Caller(t)' = stack[n - 1].process
    BY <1>6, <1>7 DEF Caller, HasTop
  <2>2. stack[n - 1].kind \in {"callout", "unthreaded"}
    BY <1>6, <1>7 DEF Calls
  <2>3. CASE stack[n].owned
    <3>1. vmOwner' = t
      BY <1>1, <1>4, <2>3
    <3>2. QED
      BY <1>2, <1>3, <1>6, <1>7, <2>2, <3>1 DEF Called, StillActive
  <2>4. CASE ~stack[n].owned
    BY <1>3, <1>6, <1>7, <2>1, <2>4 DEF Called, StillActive
  <2>5. QED
    BY <2>3, <2>4
<1>9. QED
  BY <1>1, <1>2, <1>3, <1>5, <1>8, OwnerCallers DEF Running3

\* Calling back, with the VM or to wait for it.
LEMMA CallBackCallers ==
    ASSUME IInv, Callers, NEW t \in Threads, CallBack(t) PROVE Callers'
<1> USE ConstantsOK
<1> DEFINE stack == calls[t]
           n == Len(stack)
<1>1. /\ TypeOK /\ Control /\ pc[t] = "outside" /\ stack # <<>>
      /\ vm \in VMStates /\ vmOwner' = vmOwner
  BY DEF CallBack, IInv, Inv, TypeOK, ownership
<1>2. /\ stack \in Seq(Calls) /\ n \in Nat \ {0} /\ Top(t) = stack[n]
      /\ Top(t) \in Calls /\ WellStacked(stack)
  BY <1>1, StackTop DEF Callers
<1>3. Called(t) /\ Out(t) /\ Top(t).kind # "callback"
  BY <1>1 DEF Callers, Called, Out
<1>4. CASE vmOwner = t
  <2> DEFINE call == Call("callback", vm.activeProcess, FALSE, TRUE)
  <2>1. /\ Push(t, call) /\ vm' = [vm EXCEPT !.disowningVMThread = NoThread]
        /\ Goto(t, "running")
    BY <1>4 DEF CallBack
  <2>2. call \in Calls /\ call.kind = "callback" /\ call.owned
    BY <1>1 DEF Call, Calls, VMStates
  <2> HIDE DEF call
  <2>3. /\ vm'.disowningVMThread = NoThread
        /\ vm'.awolProcesses = vm.awolProcesses
    BY <1>1, <2>1 DEF VMStates
  <2>4. pc'[t] = "running" /\ \A w \in Threads : w # t => pc'[w] = pc[w]
    BY <1>1, <2>1 DEF Goto, TypeOK
  <2>5. WellStacked(calls'[t]) /\ \A w \in Threads : w # t => calls'[w] = calls[w]
    BY ZenonT(60), <1>1, <1>2, <1>3, <2>1, <2>2, PushedTop, PushStacked
  <2>6. Called(t)'
    BY <2>4 DEF Called, Out, Coming
  <2>7. QED
    BY <1>1, <1>4, <2>3, <2>4, <2>5, <2>6, OwnerCallers
<1>5. CASE vmOwner # t
  <2> DEFINE call == Call("callback", Nobody, FALSE, FALSE)
  <2>1. Push(t, call) /\ vm' = vm /\ Goto(t, "enter")
    BY <1>5 DEF CallBack
  <2>2. /\ call \in Calls /\ call.kind = "callback" /\ ~call.owned
        /\ call.process = Nobody
    BY DEF Call, Calls
  <2> HIDE DEF call
  <2>3. pc'[t] = "enter" /\ \A w \in Threads : w # t => pc'[w] = pc[w]
    BY <1>1, <2>1 DEF Goto, TypeOK
  <2>4. /\ calls'[t] = Append(stack, call) /\ calls'[t] # <<>>
        /\ Top(t)' = call
        /\ \A w \in Threads : w # t => calls'[w] = calls[w]
    BY <1>1, <2>1, <2>2, PushedTop DEF Top
  <2>5. Top(t).kind = "callout"
    BY <1>2, <1>3, <1>5 DEF Called, Calls
  <2>6. WellStacked(calls'[t])
    BY <1>2, <2>2, <2>4, <2>5, PushStacked
  <2>7. Caller(t)' = Caller(t)
    <3>1. Caller(t) = stack[n].process
      BY <1>2, <1>3 DEF Caller, HasTop
    <3>2. calls'[t][Len(calls'[t]) - 1] = stack[n]
      <4> HIDE DEF stack
      <4>1. QED
        BY <1>2, <2>2, <2>4
    <3>3. Caller(t)' = calls'[t][Len(calls'[t]) - 1].process
      BY <2>2, <2>4 DEF Caller, HasTop
    <3>4. QED
      BY <3>1, <3>2, <3>3
  <2>8. PutAway(t)' \/ StillActive(t)'
    <3>1. CASE PutAway(t)
      BY <2>1, <2>7, <3>1 DEF PutAway, LastAway
    <3>2. CASE StillActive(t)
      BY <1>5, <2>1, <2>7, <3>2 DEF StillActive
    <3>3. QED
      BY <1>3, <2>5, <3>1, <3>2 DEF Called
  <2>9. Called(t)'
    BY <2>2, <2>3, <2>4, <2>8 DEF Called
  <2>10. ASSUME NEW w \in Threads, w # t PROVE Called(w)'
    BY <1>1, <2>1, <2>3, <2>4, <2>10, CalledStays DEF SameFor, Callers
  <2>11. NoneOtherDisowned'
    BY <2>1, <2>3 DEF Callers, NoneOtherDisowned, Running3
  <2>12. \A w \in Threads : WellStacked(calls[w])'
    <3>1. \A w \in Threads : WellStacked(calls'[w])
      BY <2>4, <2>6 DEF Callers
    <3>2. QED
      BY <3>1 DEF WellStacked
  <2>13. QED
    BY <2>9, <2>10, <2>11, <2>12 DEF Callers
<1>6. QED
  BY <1>4, <1>5

\* A call that keeps the VM returns.
LEMMA ReturnKeepingCallers ==
    ASSUME IInv, Callers, NEW t \in Threads, ReturnKeepingVM(t) PROVE Callers'
<1> USE ConstantsOK
<1>1. /\ TypeOK /\ pc[t] = "outside" /\ Goto(t, "running") /\ calls' = Pop(t)
      /\ vm' = vm /\ calls[t] # <<>> /\ Top(t).kind = "unthreaded"
  BY DEF ReturnKeepingVM, HasTop, IInv, Inv
<1>2. vmOwner = t /\ vm.disowningVMThread \in {NoThread, t}
  BY <1>1 DEF Callers, Called, Out
<1>3. /\ pc'[t] = "running"
      /\ \A w \in Threads : w # t => pc'[w] = pc[w] /\ calls'[w] = calls[w]
      /\ calls'[t] = SubSeq(calls[t], 1, Len(calls[t]) - 1)
  BY <1>1 DEF Goto, TypeOK, Pop
<1>4. WellStacked(calls'[t])
  BY <1>1, <1>3, StackTop, PopStacked DEF Callers
<1>5. Called(t)'
  BY <1>3 DEF Called, Out, Coming
<1>6. \A w \in Threads : SameFor(w)
  BY <1>1 DEF SameFor
<1>7. QED
  BY <1>1, <1>2, <1>3, <1>4, <1>5, <1>6, OwnerCallers

-----------------------------------------------------------------------------
(* The theorems.                                                           *)

LEMMA InitCallers == Init => Callers
<1> SUFFICES ASSUME Init PROVE Callers
  OBVIOUS
<1>1. \A t \in Threads : pc[t] \in {"loop", "unborn"} /\ calls[t] = <<>>
  BY DEF Init, Actors
<1>2. NoneOtherDisowned /\ \A t \in Threads : Called(t)
  BY <1>1 DEF NoneOtherDisowned, Called, Out, Coming, Running3
<1>3. \A t \in Threads : WellStacked(calls[t])
  BY <1>1 DEF WellStacked
<1>4. QED
  BY <1>2, <1>3 DEF Callers

LEMMA NextCallers == IInv /\ Callers /\ [Next]_vars => Callers'
<1> SUFFICES ASSUME IInv, Callers, [Next]_vars PROVE Callers'
  OBVIOUS
<1>1. CASE UNCHANGED vars
  BY <1>1, QuietCallers DEF vars, ownership
<1>2. ASSUME Beating PROVE Callers'
  BY <1>2, BeatingCallers, SignalCallers, ConstantsOK
<1>3. ASSUME NEW t \in Threads, SchedulingLoop(t) PROVE Callers'
  BY <1>3, LoopCallers, ToExecuteCallers
<1>4. ASSUME NEW t \in Threads, Signal(t) PROVE Callers'
  BY <1>4, SignalCallers, ConstantsOK
<1>5. ASSUME NEW t \in Threads, Running(t) PROVE Callers'
  BY <1>5, OwnerRunsCallers, CallOutCallers, ReturnFromCallBackCallers
     DEF Running, Leaving
<1>6. ASSUME NEW t \in Threads, ComingBack(t) PROVE Callers'
  BY <1>6, AcquiringCallers, CallBackCallers, ReturnKeepingCallers,
     OwnVMCallers DEF ComingBack
<1>7. ASSUME NEW t \in Threads, Acquiring(t) PROVE Callers'
  BY <1>7, AcquiringCallers, OwnVMCallers
<1>8. QED
  BY <1>1, <1>2, <1>3, <1>4, <1>5, <1>6, <1>7 DEF Next

LEMMA CallersAlways == Spec => [](IInv /\ Callers)
<1>1. Init => IInv /\ Callers
  BY InitOK, InitCallers
<1>2. IInv /\ Callers /\ [Next]_vars => (IInv /\ Callers)'
  BY NextOK, NextCallers
<1>3. QED
  BY <1>1, <1>2, PTL DEF Spec

\* However many processes have gone away with a thread, and whatever ran
\* meanwhile, a call whose process was put away returns into that process.
THEOREM CallReturnsHome == Spec => ReturnsToCaller
<1>1. IInv /\ Callers /\ [Next]_vars =>
         [\A t \in Threads :
             OwnVM(t) /\ HasTop(t, "callout") /\ vm.disowningVMThread # t =>
                vm'.activeProcess = Caller(t)]_vars
  BY BringsBackCaller
<1>2. QED
  BY CallersAlways, <1>1, PTL DEF Spec, ReturnsToCaller

\* And a callback out of it runs in that process.
THEOREM CallBackRunsHome == Spec => CallsBackToCaller
<1>1. IInv /\ Callers /\ [Next]_vars =>
         [\A t \in Threads :
             OwnVM(t) /\ HasTop(t, "callback") /\ vm.disowningVMThread # t =>
                vm'.activeProcess = Caller(t)]_vars
  BY BringsBackCaller
<1>2. QED
  BY CallersAlways, <1>1, PTL DEF Spec, CallsBackToCaller

-----------------------------------------------------------------------------
(* Processes run where they are affined.                                   *)

\* v's active process may run on t.
MayRun(v, t) == v.ownerIndex[v.activeProcess] \in {NoThread, t}

\* That of an owner may, unless it is yet to find out.
OwnerAffined ==
    \A t \in Threads : vmOwner = t /\ pc[t] \in {"running", "outside"} => MayRun(vm, t)

\* The process to come back to t, still active or away with it, may run on t.
Home(v, t) == IF v.disowningVMThread = t
              THEN MayRun(v, t)
              ELSE v.ownerIndex[LastAway(v, t)] \in {NoThread, t}

AtHome(t) == Out(t) /\ Top(t).kind # "unthreaded" => Home(vm, t)

\* A thread that the VM is to be ceded to does not find it while it is in a call.
CandidateIsIn ==
    \A t \in Threads : pc[t] = "ceding" /\ candidate.thread \notin {NoThread, t} =>
       pc[candidate.thread] # "outside"

Homes ==
    /\ OwnerAffined
    /\ \A t \in Threads : AtHome(t)
    /\ CandidateIsIn

-----------------------------------------------------------------------------
(* Steps that leave the interpreter's state alone.                         *)

LEMMA QuietHomes ==
    ASSUME TypeOK, Homes, UNCHANGED <<vm, calls, candidate>>,
           \A w \in Threads :
              \/ pc'[w] = pc[w]
              \/ pc'[w] \notin Coming \cup Running3 \cup {"outside"}
              \/ pc'[w] \in Coming /\ Out(w),
           \A w \in Threads :
              vmOwner' = w /\ pc'[w] \in {"running", "outside"} => vmOwner = w
    PROVE  Homes'
<1>1. OwnerAffined'
  BY DEF Homes, OwnerAffined, MayRun, Running3, Coming
<1>2. ASSUME NEW w \in Threads PROVE AtHome(w)'
  <2>1. Out(w)' => Out(w)
    BY DEF Out
  <2>2. AtHome(w) /\ Top(w)' = Top(w) /\ Home(vm, w)' = Home(vm, w)
    BY DEF Homes, Top, Home, MayRun, LastAway
  <2>3. QED
    BY <2>1, <2>2 DEF AtHome
<1>3. CandidateIsIn'
  <2> SUFFICES ASSUME NEW w \in Threads, pc'[w] = "ceding",
                      candidate'.thread \notin {NoThread, w},
                      pc'[candidate'.thread] = "outside"
               PROVE  FALSE
    BY DEF CandidateIsIn
  <2>1. candidate.thread \in Threads
    BY DEF TypeOK
  <2>2. pc[w] = "ceding" /\ pc[candidate.thread] = "outside"
    BY <2>1 DEF Running3, Coming
  <2>3. QED
    BY <2>2 DEF Homes, CandidateIsIn
<1>4. QED
  BY <1>1, <1>2, <1>3 DEF Homes

LEMMA QuietMoveHomes ==
    ASSUME TypeOK, Homes, NEW a \in Actors, NEW position, Goto(a, position),
           UNCHANGED <<vm, calls, candidate>>,
           \/ position \notin Coming \cup Running3 \cup {"outside"}
           \/ position \in Coming /\ Out(a)
           \/ a = Heartbeat,
           vmOwner' \in Threads => vmOwner' \in {vmOwner, a}
    PROVE  Homes'
<1>1. pc'[a] = position /\ \A w \in Threads : w # a => pc'[w] = pc[w]
  BY ConstantsOK DEF Goto, TypeOK
<1>2. \A w \in Threads :
         /\ \/ pc'[w] = pc[w]
            \/ pc'[w] \notin Coming \cup Running3 \cup {"outside"}
            \/ pc'[w] \in Coming /\ Out(w)
         /\ vmOwner' = w /\ pc'[w] \in {"running", "outside"} => vmOwner = w
  BY <1>1, ConstantsOK DEF Coming, Running3
<1>3. QED
  BY <1>2, QuietHomes

LEMMA LoopHomes ==
    ASSUME IInv, Homes, NEW t \in Threads,
           SchedulingLoop(t), ~TryToExecuteSmalltalk(t)
    PROVE  Homes'
<1> USE ConstantsOK
<1>1. UNCHANGED <<vm, calls, candidate>>
  BY DEF SchedulingLoop, StartVMThread, Schedule, TestVMOwner, WaitOn, TryLock, LookAt,
         HeedRelinquishing
<1>2. vmOwner' \in Threads => vmOwner' \in {vmOwner, t}
  BY DEF SchedulingLoop, StartVMThread, Schedule, TestVMOwner, WaitOn, TryLock, LookAt,
         HeedRelinquishing, Release, Keep, ownership
<1>3. \E position \in {"loop", "lock", "look", "relinquished?", "execute", "test",
                       "pooled"} : Goto(t, position)
  BY DEF SchedulingLoop, StartVMThread, Schedule, TestVMOwner, WaitOn, TryLock, LookAt,
         HeedRelinquishing, Release, Keep
<1>4. QED
  BY <1>1, <1>2, <1>3, QuietMoveHomes DEF IInv, Inv, Coming, Running3

LEMMA AcquiringHomes ==
    ASSUME IInv, Homes, NEW t \in Threads, Acquiring(t) \/ Return(t), ~OwnVM(t)
    PROVE  Homes'
<1> USE ConstantsOK
<1>1. UNCHANGED <<vm, calls, candidate>>
  BY DEF Acquiring, TryLock, LookAt, WantOwnership, Spin, WaitingPriorityIsAtLeast,
         WaitOn, Return
<1>2. vmOwner' \in Threads => vmOwner' \in {vmOwner, t}
  BY DEF Acquiring, TryLock, LookAt, WantOwnership, Spin, WaitingPriorityIsAtLeast,
         WaitOn, Return, ownership
<1>3. /\ Out(t)
      /\ \E position \in Coming : Goto(t, position)
  BY DEF Acquiring, TryLock, LookAt, WantOwnership, Spin, WaitingPriorityIsAtLeast,
         WaitOn, Return, Coming, Out
<1>4. QED
  BY <1>1, <1>2, <1>3, QuietMoveHomes DEF IInv, Inv

\* Whom the VM is given to by one that looks for a thread is not in a call.
LEMMA WillingIsIn ==
    ASSUME IInv, NEW u \in Threads, vmOwner # u,
           state[u] \in {"nil", "WantingOwnership", "AssignableOrInVM"}
    PROVE  pc[u] \notin {"running", "outside"}
BY DEF IInv, Inv, Control, InsideOwns, Inside, InsidePositions, OutsideIsUnavailable

LEMMA BeatingHomes ==
    ASSUME IInv, Homes, Beating, ~Signal(Heartbeat) PROVE Homes'
<1> USE ConstantsOK
<1>1. TypeOK /\ UNCHANGED <<vm, calls, candidate>>
  BY DEF Beating, Beat, TryLock, LookAt, EnsureRunningVMThread, IInv, Inv
<1>2. CASE ~EnsureRunningVMThread
  <2>1. vmOwner' \in Threads => vmOwner' = vmOwner
    BY <1>2 DEF Beating, Beat, TryLock, LookAt, ownership
  <2>2. \E position : Goto(Heartbeat, position)
    BY <1>2 DEF Beating, Beat, TryLock, LookAt
  <2>3. QED
    BY <1>1, <2>1, <2>2, QuietMoveHomes
<1>3. CASE EnsureRunningVMThread
  <2>1. vmOwner = Anonymous
    BY <1>3 DEF EnsureRunningVMThread, IInv, Inv, Control, InsideOwns, Inside,
                InsidePositions
  <2>2. \/ Release(Heartbeat, "loop")
        \/ \E t \in Threads : /\ state[t] \in {"nil", "WantingOwnership", "AssignableOrInVM"}
                              /\ GiveTo(Heartbeat, t)
    <3>1. CASE \E t \in Threads : IsWilling(t)
      BY <1>3, <3>1, WillingStates DEF EnsureRunningVMThread
    <3>2. CASE ~\E t \in Threads : IsWilling(t)
      <4> DEFINE unused == {t \in Threads : state[t] = "nil"}
      <4>1. IF relinquished \/ unused = {}
            THEN Release(Heartbeat, "loop")
            ELSE \E t \in unused : GiveTo(Heartbeat, t)
        BY <1>3, <3>2 DEF EnsureRunningVMThread
      <4>2. QED
        BY <4>1
    <3>3. QED
      BY <3>1, <3>2
  <2>3. \E position : Goto(Heartbeat, position)
    BY <2>2 DEF Release, GiveTo
  <2>4. \A w \in Threads : pc'[w] = pc[w]
    BY <1>1, <2>3 DEF Goto, TypeOK
  <2>5. \A w \in Threads : vmOwner' = w => pc[w] \notin {"running", "outside"}
    BY <2>1, <2>2, WillingIsIn DEF Release, GiveTo
  <2>6. QED
    BY <1>1, <2>4, <2>5, QuietHomes
<1>4. QED
  BY <1>2, <1>3

LEMMA SignalHomes ==
    ASSUME IInv, Homes, NEW a \in Actors, Signal(a) PROVE Homes'
<1> USE ConstantsOK
<1> DEFINE after == IF a = Heartbeat THEN "loop" ELSE "test"
<1>1. TypeOK /\ UNCHANGED <<vm, calls, candidate, vmOwner>>
  BY DEF Signal, ownership, IInv, Inv
<1>2. \A w \in Threads : pc'[w] = pc[w] \/ pc'[w] \in {"loop", "test", "starting"}
  <2>1. \/ pc' = [pc EXCEPT ![a] = after, ![target[a]] = "starting"]
        \/ pc' = [pc EXCEPT ![a] = after]
    BY DEF Signal, Goto
  <2>2. QED
    BY <1>1, <2>1 DEF TypeOK
<1>3. QED
  BY <1>1, <1>2, QuietHomes DEF Running3, Coming

-----------------------------------------------------------------------------
(* Steps of the owner.                                                     *)

\* Whoever is preempted is affined to the thread it is away with, or was to it.
LEMMA PreemptedHome ==
    ASSUME TypeOK, Control, InPlace(vm), NEW t \in Threads, Home(vm, t),
           vm.disowningVMThread # t => vm.awolProcesses[t] # <<>>
    PROVE  /\ LastAway(Preempted(vm), t) \in Processes
           /\ Preempted(vm).ownerIndex[LastAway(Preempted(vm), t)] \in {NoThread, t}
<1> DEFINE d == vm.disowningVMThread
           p == vm.activeProcess
           v == Preempted(vm)
           last == LastAway(vm, t)
<1>1. /\ vm \in VMStates /\ d \in Threads \cup {NoThread}
      /\ vm.ownerIndex \in [Processes -> Threads \cup {NoThread}]
  BY DEF TypeOK, VMStates
<1>2. /\ d = t => LastAway(v, t) = p
      /\ d # t => LastAway(v, t) = last
  BY PreemptedLast DEF LastAway
<1>3. d # NoThread => /\ p \in Processes
                      /\ v.ownerIndex = [vm.ownerIndex EXCEPT ![p] = IF @ = NoThread THEN d ELSE @]
  BY <1>1 DEF Control, DisowningIsActive, Preempted, PreemptDisowningThread, VMStates
<1>4. d = NoThread => v = vm
  BY DEF Preempted
<1>5. d # t => /\ last \in Processes /\ last # p
               /\ vm.ownerIndex[last] \in {NoThread, t}
  <2> SUFFICES ASSUME d # t PROVE /\ last \in Processes /\ last # p
                                  /\ vm.ownerIndex[last] \in {NoThread, t}
    OBVIOUS
  <2>1. vm.awolProcesses[t] \in Seq(Processes) /\ vm.awolProcesses[t] # <<>>
    BY <1>1 DEF VMStates
  <2>2. /\ Len(vm.awolProcesses[t]) \in 1 .. Len(vm.awolProcesses[t])
        /\ last \in Processes
    BY <2>1, FrontElements DEF LastAway
  <2>3. vm.myList[last] = "external"
    BY <2>2 DEF InPlace, Places, AwayIsMarked, LastAway
  <2>4. QED
    BY <2>2, <2>3 DEF InPlace, ActiveIsHere, Home
<1> HIDE DEF v, last
<1>6. CASE d = t
  <2>1. vm.ownerIndex[p] \in {NoThread, t}
    BY <1>6 DEF Home, MayRun
  <2>2. QED
    BY <1>1, <1>2, <1>3, <1>6, <2>1, ConstantsOK DEF v
<1>7. CASE d # t
  <2>1. CASE d = NoThread
    BY <1>2, <1>4, <1>5, <1>7, <2>1 DEF v
  <2>2. CASE d # NoThread
    BY <1>1, <1>2, <1>3, <1>5, <1>7, <2>2 DEF v
  <2>3. QED
    BY <2>1, <2>2
<1>8. QED
  BY <1>6, <1>7

\* Those out while another, which owns the VM, runs the image or comes back.
LEMMA OthersAtHome ==
    ASSUME IInv, InPlace(vm), Callers, Homes, NEW t \in Threads, vmOwner = t,
           NEW w \in Threads, w # t, pc'[w] = pc[w], calls'[w] = calls[w],
           \/ /\ pc[t] \in {"running", "cede", "ceding", "outside"}
              /\ vm'.disowningVMThread \in {NoThread, t}
              /\ vm'.awolProcesses[w] = vm.awolProcesses[w]
              /\ vm'.ownerIndex = vm.ownerIndex
           \/ /\ vm'.disowningVMThread = NoThread
              /\ vm'.awolProcesses[w] = Preempted(vm).awolProcesses[w]
              /\ \A r \in Processes :
                    vm'.ownerIndex[r] \in {NoThread, Preempted(vm).ownerIndex[r]}
    PROVE  AtHome(w)'
<1> SUFFICES ASSUME Out(w)', Top(w)'.kind # "unthreaded" PROVE Home(vm, w)'
  BY DEF AtHome
<1>1. TypeOK /\ Control /\ Called(w)
  BY DEF IInv, Inv, Callers
<1>2. Out(w) /\ Top(w).kind # "unthreaded" /\ Home(vm, w)
  BY DEF Out, Top, Homes, AtHome
<1>3. vm.disowningVMThread # w => vm.awolProcesses[w] # <<>>
  BY <1>1, <1>2 DEF Called, PutAway, StillActive
<1>4. CASE /\ pc[t] \in {"running", "cede", "ceding", "outside"}
           /\ vm'.disowningVMThread \in {NoThread, t}
           /\ vm'.awolProcesses[w] = vm.awolProcesses[w]
           /\ vm'.ownerIndex = vm.ownerIndex
  <2>1. Away(w)
    BY <1>2 DEF Out, Away, HasTop
  <2>2. vm.disowningVMThread # w /\ vm'.disowningVMThread # w
    BY <1>1, <1>4, <2>1, OthersCanReturn, ConstantsOK
  <2>3. QED
    BY <1>2, <1>4, <2>2 DEF Home, LastAway
<1>5. CASE /\ vm'.disowningVMThread = NoThread
           /\ vm'.awolProcesses[w] = Preempted(vm).awolProcesses[w]
           /\ \A r \in Processes :
                 vm'.ownerIndex[r] \in {NoThread, Preempted(vm).ownerIndex[r]}
  <2> DEFINE last == LastAway(Preempted(vm), w)
  <2>1. last \in Processes /\ Preempted(vm).ownerIndex[last] \in {NoThread, w}
    BY <1>1, <1>2, <1>3, PreemptedHome
  <2>2. LastAway(vm, w)' = last
    BY <1>5 DEF LastAway
  <2>3. vm'.ownerIndex[last] \in {NoThread, w}
    BY <1>5, <2>1
  <2>4. QED
    BY <1>5, <2>2, <2>3, ConstantsOK DEF Home
<1>6. QED
  BY <1>4, <1>5

LEMMA OwnerHomes ==
    ASSUME IInv, InPlace(vm), Callers, Homes, NEW t \in Threads, vmOwner = t,
           \A w \in Threads : w # t => pc'[w] = pc[w] /\ calls'[w] = calls[w],
           \/ /\ pc[t] \in {"running", "cede", "ceding", "outside"}
              /\ vm'.disowningVMThread \in {NoThread, t}
              /\ \A w \in Threads : w # t => vm'.awolProcesses[w] = vm.awolProcesses[w]
              /\ vm'.ownerIndex = vm.ownerIndex
           \/ /\ vm'.disowningVMThread = NoThread
              /\ \A w \in Threads : w # t =>
                    vm'.awolProcesses[w] = Preempted(vm).awolProcesses[w]
              /\ \A r \in Processes :
                    vm'.ownerIndex[r] \in {NoThread, Preempted(vm).ownerIndex[r]},
           pc'[t] = "ceding" /\ candidate'.thread \notin {NoThread, t} =>
              pc'[candidate'.thread] # "outside",
           OwnerAffined', AtHome(t)'
    PROVE  Homes'
<1>1. ASSUME NEW w \in Threads PROVE AtHome(w)'
  <2>1. CASE w = t
    BY <2>1
  <2>2. CASE w # t
    BY <2>2, OthersAtHome
  <2>3. QED
    BY <2>1, <2>2
<1>2. \A w \in Threads : w # t => pc'[w] # "ceding"
  BY DEF IInv, Inv, Control, InsideOwns, Inside, InsidePositions
<1>3. CandidateIsIn'
  BY <1>2 DEF CandidateIsIn
<1>4. QED
  BY <1>1, <1>3 DEF Homes

\* The owner runs on, gives the VM away or stops.
LEMMA RunningHomes ==
    ASSUME IInv, InPlace(vm), Callers, Homes, NEW t \in Threads, pc[t] \in Running3,
           NEW position \in {"running", "cede", "ceding", "signal", "aborted"},
           Goto(t, position), calls' = calls,
           vm'.disowningVMThread = vm.disowningVMThread,
           vm'.awolProcesses = vm.awolProcesses,
           vm'.ownerIndex = vm.ownerIndex,
           position = "running" => MayRun(vm, t)',
           \A u \in Threads : vmOwner' = u /\ u # t =>
              pc[u] # "outside" \/ MayRun(vm, u)',
           position = "ceding" /\ candidate'.thread \notin {NoThread, t} =>
              pc'[candidate'.thread] # "outside"
    PROVE  Homes'
<1>1. /\ vmOwner = t /\ pc'[t] = position
      /\ \A w \in Threads : w # t => pc'[w] = pc[w]
  BY OwnerFacts, ConstantsOK DEF IInv, Inv, TypeOK, Goto, Running3
<1>2. vm.disowningVMThread \in {NoThread, t}
  BY DEF Callers, NoneOtherDisowned
<1>3. AtHome(t)'
  BY <1>1 DEF AtHome, Out, Coming
<1>4. \A w \in Threads : w # t => pc[w] # "running"
  BY <1>1 DEF IInv, Inv, Control, InsideOwns, Inside, InsidePositions
<1>5. OwnerAffined'
  <2> SUFFICES ASSUME NEW w \in Threads, vmOwner' = w, pc'[w] \in {"running", "outside"}
               PROVE  MayRun(vm, w)'
    BY DEF OwnerAffined
  <2>1. QED
    BY <1>1, <1>4
<1>6. QED
  BY <1>1, <1>2, <1>3, <1>5, OwnerHomes DEF Running3

LEMMA SwitchHomes ==
    ASSUME IInv, InPlace(vm), Callers, Homes, NEW t \in Threads, pc[t] \in Running3,
           NEW v \in VMStates, ThreadSwitchIfNecessary(t, v, v.activeProcess),
           calls' = calls,
           v.disowningVMThread = vm.disowningVMThread,
           v.awolProcesses = vm.awolProcesses, v.ownerIndex = vm.ownerIndex
    PROVE  Homes'
<1> DEFINE u == v.ownerIndex[v.activeProcess]
<1>1. /\ vm'.disowningVMThread = vm.disowningVMThread
      /\ vm'.awolProcesses = vm.awolProcesses
      /\ vm'.ownerIndex = vm.ownerIndex
      /\ vm'.activeProcess = v.activeProcess
  BY DEF ThreadSwitchIfNecessary, VMStates
<1>2. vmOwner = t
  BY OwnerFacts DEF IInv, Inv, Running3
<1>3. CASE u \notin {NoThread, vmOwner}
  <2>1. GiveTo(t, u)
    BY <1>3 DEF ThreadSwitchIfNecessary
  <2>2. MayRun(vm, u)'
    BY <1>1 DEF MayRun
  <2> HIDE DEF u
  <2>3. QED
    BY <1>1, <2>1, <2>2, RunningHomes DEF GiveTo
<1>4. CASE u \in {NoThread, vmOwner}
  <2>1. Keep(t, "running")
    BY <1>4 DEF ThreadSwitchIfNecessary
  <2>2. MayRun(vm, t)'
    BY <1>1, <1>2, <1>4 DEF MayRun
  <2> HIDE DEF u
  <2>3. QED
    BY <1>1, <1>2, <2>1, <2>2, RunningHomes DEF Keep
<1>5. QED
  BY <1>3, <1>4

LEMMA ResumedOwners ==
    ASSUME NEW v \in VMStates, NEW q \in Processes, v.activeProcess \in Processes
    PROVE  /\ Resumed(v, q).ownerIndex = v.ownerIndex
           /\ Resumed(v, q).activeProcess \in {q, v.activeProcess}
BY DEF Resumed, SetActive, MakeReady, VMStates

LEMMA OwnerRunsHomes ==
    ASSUME IInv, InPlace(vm), Callers, Homes, NEW t \in Threads,
           \/ Block(t) \/ Wake(t) \/ CheckForEvents(t)
           \/ CedeToHigherPriorityThreads(t) \/ Cede(t)
    PROVE  Homes'
<1>1. /\ pc[t] \in Running3 /\ calls' = calls
  BY DEF Block, Wake, CheckForEvents, CedeToHigherPriorityThreads, Cede, Running3
<1>2. vm \in VMStates /\ vm.activeProcess \in Processes /\ vmOwner = t /\ TypeOK
  BY <1>1, OwnerFacts DEF IInv, Inv, TypeOK, Running3
<1>3. ASSUME NEW q \in Processes
      PROVE  /\ Resumed(vm, q) \in VMStates
             /\ Resumed(vm, q).disowningVMThread = vm.disowningVMThread
             /\ Resumed(vm, q).awolProcesses = vm.awolProcesses
             /\ Resumed(vm, q).ownerIndex = vm.ownerIndex
             /\ Resumed(vm, q).activeProcess \in {q, vm.activeProcess}
  BY <1>2, ResumedType, ResumedOwners
<1>4. CASE Block(t)
  <2> DEFINE v == [vm EXCEPT !.myList[vm.activeProcess] = "blocked"]
  <2>1. TransferToHighest(t, v)
    BY <1>4 DEF Block
  <2>2. /\ v \in VMStates /\ v.disowningVMThread = vm.disowningVMThread
        /\ v.awolProcesses = vm.awolProcesses /\ v.ownerIndex = vm.ownerIndex
    BY <1>2 DEF VMStates
  <2> HIDE DEF v
  <2>3. ASSUME NEW p \in Processes, ThreadSwitchIfNecessary(t, SetActive(v, p), p)
        PROVE  Homes'
    <3> DEFINE w == SetActive(v, p)
    <3>1. /\ w \in VMStates /\ w.activeProcess = p
          /\ w.disowningVMThread = vm.disowningVMThread
          /\ w.awolProcesses = vm.awolProcesses
      BY <2>2, SetActiveType
    <3>2. w.ownerIndex = vm.ownerIndex
      BY <2>2 DEF SetActive, VMStates
    <3>3. ThreadSwitchIfNecessary(t, w, w.activeProcess)
      BY <2>3, <3>1
    <3> HIDE DEF w
    <3>4. QED
      BY <1>1, <3>1, <3>2, <3>3, SwitchHomes
  <2>4. ASSUME vm' = v, \/ \E u \in Threads : IsWilling(u) /\ GiveTo(t, u)
                        \/ Keep(t, "aborted")
        PROVE  Homes'
    <3>1. Goto(t, "signal") \/ Goto(t, "aborted")
      BY <2>4 DEF GiveTo, Keep
    <3>2. \A u \in Threads : vmOwner' = u /\ u # t => pc[u] # "outside"
      BY <1>2, <2>4, WillingStates, WillingIsIn DEF GiveTo, Keep
    <3>3. QED
      BY <1>1, <2>2, <2>4, <3>1, <3>2, RunningHomes
  <2>5. QED
    BY <2>1, <2>3, <2>4 DEF TransferToHighest
<1>5. CASE Wake(t)
  <2>1. PICK q \in Processes :
           LET v == Resumed(vm, q)
           IN IF v.activeProcess = q
              THEN ThreadSwitchIfNecessary(t, v, q)
              ELSE vm' = v /\ Keep(t, "running")
    BY <1>5 DEF Wake
  <2> DEFINE v == Resumed(vm, q)
  <2>2. \/ ThreadSwitchIfNecessary(t, v, v.activeProcess)
        \/ v.activeProcess # q /\ vm' = v /\ Keep(t, "running")
    BY <2>1
  <2>3. CASE ThreadSwitchIfNecessary(t, v, v.activeProcess)
    <3> HIDE DEF v
    <3>1. QED
      BY <1>1, <1>3, <2>3, SwitchHomes DEF v
  <2>4. CASE v.activeProcess # q /\ vm' = v /\ Keep(t, "running")
    <3>1. MayRun(vm, t)
      BY <1>2, <1>5 DEF Wake, Homes, OwnerAffined
    <3>2. MayRun(vm, t)'
      BY <1>3, <2>4, <3>1 DEF MayRun
    <3> HIDE DEF v
    <3>3. /\ vm'.disowningVMThread = vm.disowningVMThread
          /\ vm'.awolProcesses = vm.awolProcesses /\ vm'.ownerIndex = vm.ownerIndex
      BY <1>3, <2>4 DEF v
    <3>4. QED
      BY <1>1, <1>2, <2>4, <3>2, <3>3, RunningHomes DEF Keep
  <2>5. QED
    BY <2>2, <2>3, <2>4
<1>6. CASE CheckForEvents(t)
  <2>1. PICK v \in {vm} \cup {Resumed(vm, q) : q \in Processes} :
           \/ vm' = v /\ Keep(t, "cede")
           \/ ThreadSwitchIfNecessary(t, v, v.activeProcess)
    BY <1>6 DEF CheckForEvents
  <2>2. /\ v \in VMStates /\ v.disowningVMThread = vm.disowningVMThread
        /\ v.awolProcesses = vm.awolProcesses /\ v.ownerIndex = vm.ownerIndex
    BY <1>2, <1>3
  <2>3. CASE ThreadSwitchIfNecessary(t, v, v.activeProcess)
    BY <1>1, <2>2, <2>3, SwitchHomes
  <2>4. CASE vm' = v /\ Keep(t, "cede")
    BY <1>1, <1>2, <2>2, <2>4, RunningHomes DEF Keep
  <2>5. QED
    BY <2>1, <2>3, <2>4
<1>7. CASE CedeToHigherPriorityThreads(t)
  <2>1. /\ vm' = [vm EXCEPT !.threadPriority[ActiveThread(t)] = priority[vm.activeProcess]]
        /\ Goto(t, "ceding") /\ vmOwner' = vmOwner
    BY <1>7 DEF CedeToHigherPriorityThreads, ownership
  <2>2. /\ vm'.disowningVMThread = vm.disowningVMThread
        /\ vm'.awolProcesses = vm.awolProcesses /\ vm'.ownerIndex = vm.ownerIndex
    BY <1>2, <2>1 DEF VMStates
  <2>3. candidate'.thread \notin {NoThread, t} => pc'[candidate'.thread] # "outside"
    <3> DEFINE nexts == {vm'.threadPriority[u] : u \in Threads} \cup {0}
    <3>1. \/ candidate' = NoCandidate
          \/ \E h \in Threads : \E n \in nexts :
                state[h] = "WantingOwnership" /\ candidate' = [thread |-> h, next |-> n]
      BY <1>7 DEF CedeToHigherPriorityThreads
    <3>2. \A h \in Threads : h # t /\ state[h] = "WantingOwnership" => pc[h] # "outside"
      BY <1>2, WillingIsIn
    <3>3. \A h \in Threads : h # t => pc'[h] = pc[h]
      BY <1>2, <2>1, ConstantsOK DEF Goto, TypeOK
    <3>4. QED
      BY <3>1, <3>2, <3>3 DEF NoCandidate
  <2>4. QED
    BY <1>1, <1>2, <2>1, <2>2, <2>3, RunningHomes
<1>8. CASE Cede(t)
  <2>1. \/ ThreadSwitchIfNecessary(t, vm, vm.activeProcess)
        \/ /\ candidate.thread # NoThread
           /\ vm' = MakeReady(vm, vm.activeProcess) /\ GiveTo(t, candidate.thread)
    BY <1>8 DEF Cede
  <2>2. CASE ThreadSwitchIfNecessary(t, vm, vm.activeProcess)
    BY <1>1, <1>2, <2>2, SwitchHomes
  <2>3. CASE /\ candidate.thread # NoThread
             /\ vm' = MakeReady(vm, vm.activeProcess) /\ GiveTo(t, candidate.thread)
    <3>1. candidate.thread # t => pc[candidate.thread] # "outside"
      BY <1>8, <2>3 DEF Cede, Homes, CandidateIsIn
    <3>2. /\ vm'.disowningVMThread = vm.disowningVMThread
          /\ vm'.awolProcesses = vm.awolProcesses /\ vm'.ownerIndex = vm.ownerIndex
      BY <1>2, <2>3 DEF MakeReady, VMStates
    <3>3. QED
      BY <1>1, <2>3, <3>1, <3>2, RunningHomes DEF GiveTo
  <2>4. QED
    BY <2>1, <2>2, <2>3
<1>9. QED
  BY <1>4, <1>5, <1>6, <1>7, <1>8

LEMMA ToExecuteHomes ==
    ASSUME IInv, InPlace(vm), Callers, Homes, NEW t \in Threads, TryToExecuteSmalltalk(t)
    PROVE  Homes'
<1> USE ConstantsOK
<1> DEFINE v == Preempted(vm)
           p == vm'.activeProcess
           u == vm'.ownerIndex[p]
<1>1. /\ TypeOK /\ Control /\ calls' = calls /\ pc[t] = "execute"
      /\ vm' \in ToExecute(vm)
  BY DEF TryToExecuteSmalltalk, IInv, Inv
<1>2. vmOwner = t
  BY <1>1 DEF Control, InsideOwns, Inside, InsidePositions
<1>3. vm'.disowningVMThread = NoThread
  BY <1>1, ToExecuteOK
<1>4. /\ vm'.awolProcesses = v.awolProcesses
      /\ vm'.ownerIndex = v.ownerIndex
      /\ v.ownerIndex \in [Processes -> Threads \cup {NoThread}]
  <2>1. \/ vm' = v
        \/ vm' = [v EXCEPT !.activeProcess = Nobody]
        \/ \E q \in Processes : vm' = SetActive(v, q)
    BY <1>1 DEF ToExecute, Preempted
  <2>2. v \in VMStates
    BY <1>1, PreemptedLast
  <2> HIDE DEF v
  <2>3. QED
    BY <2>1, <2>2 DEF SetActive, VMStates
<1>5. /\ \A w \in Threads : w # t => pc'[w] = pc[w]
      /\ pc'[t] \in {"test", "running", "signal"}
      /\ \A w \in Threads : vmOwner' = w /\ pc'[w] \in {"running", "outside"} =>
            MayRun(vm', w)
  <2> HIDE DEF v
  <2>1. CASE p = Nobody
    <3>1. Release(t, "test")
      BY <2>1 DEF TryToExecuteSmalltalk
    <3>2. QED
      BY <1>1, <3>1 DEF Release, Goto, TypeOK
  <2>2. CASE p # Nobody /\ u \in {NoThread, vmOwner}
    <3>1. Keep(t, "running")
      BY <2>2 DEF TryToExecuteSmalltalk
    <3>2. MayRun(vm', t)
      BY <1>2, <2>2 DEF MayRun
    <3>3. QED
      BY <1>1, <1>2, <3>1, <3>2 DEF Keep, Goto, TypeOK
  <2>3. CASE p # Nobody /\ u \notin {NoThread, vmOwner}
    <3>1. GiveTo(t, u)
      BY <2>3 DEF TryToExecuteSmalltalk
    <3>2. MayRun(vm', u)
      BY DEF MayRun
    <3> HIDE DEF u
    <3>3. QED
      BY <1>1, <3>1, <3>2 DEF GiveTo, Goto, TypeOK
  <2>4. QED
    BY <2>1, <2>2, <2>3
<1>6. OwnerAffined' /\ AtHome(t)'
  BY <1>5 DEF OwnerAffined, AtHome, Out, Coming, MayRun
<1> HIDE DEF v
<1>7. QED
  BY <1>1, <1>2, <1>3, <1>4, <1>5, <1>6, OwnerHomes DEF v

LEMMA PopOwners ==
    ASSUME NEW v \in VMStates, NEW t \in Threads, v.awolProcesses[t] # <<>>,
           NEW unaffine \in BOOLEAN
    PROVE  LET w == PopAWOLProcess(v, t, unaffine)
           IN /\ w.activeProcess = LastAway(v, t)
              /\ \A r \in Processes : w.ownerIndex[r] \in {NoThread, v.ownerIndex[r]}
<1> DEFINE away == v.awolProcesses[t]
           p    == away[Len(away)]
           left == [v EXCEPT !.awolProcesses[t] = SubSeq(@, 1, Len(@) - 1),
                             !.ownerIndex[p] = IF unaffine THEN NoThread ELSE @]
           old  == left.activeProcess
           mid  == IF old # Nobody /\ left.myList[old] = "nil"
                   THEN MakeReady(left, old) ELSE left
           w    == PopAWOLProcess(v, t, unaffine)
<1>1. /\ \A r \in Processes : left.ownerIndex[r] \in {NoThread, v.ownerIndex[r]}
      /\ {"activeProcess", "ownerIndex"} \subseteq DOMAIN left
  BY DEF VMStates
<1>2. w = SetActive(mid, p)
  BY DEF PopAWOLProcess
<1> HIDE DEF left, p, w
<1>3. /\ mid.ownerIndex = left.ownerIndex
      /\ {"activeProcess", "ownerIndex"} \subseteq DOMAIN mid
  BY <1>1 DEF MakeReady
<1> HIDE DEF mid
<1>4. w.activeProcess = p /\ w.ownerIndex = mid.ownerIndex
  BY <1>2, <1>3 DEF SetActive
<1>5. QED
  BY <1>1, <1>3, <1>4 DEF w, p, LastAway

\* A thread that comes back finds its process active, or brings it back: either
\* way it may run it.
LEMMA OwnVMHomes ==
    ASSUME IInv, InPlace(vm), Callers, Homes, NEW t \in Threads, OwnVM(t) PROVE Homes'
<1> DEFINE unaffine == Top(t).kind = "callout" /\ Top(t).unaffined
           v == Preempted(vm)
<1>1. /\ TypeOK /\ Control /\ pc[t] = "back" /\ Goto(t, "running")
      /\ calls' = IF Top(t).kind = "callout" THEN Pop(t)
                  ELSE [calls EXCEPT ![t][Len(calls[t])].process = vm'.activeProcess]
      /\ vmOwner' = vmOwner
  BY DEF OwnVM, IInv, Inv, ownership
<1>2. vmOwner = t
  BY <1>1 DEF Control, InsideOwns, Inside, InsidePositions
<1>3. /\ \A w \in Threads : w # t => pc'[w] = pc[w] /\ calls'[w] = calls[w]
      /\ pc'[t] = "running"
  BY <1>1, ConstantsOK DEF Goto, TypeOK, Pop
<1>4. /\ Top(t).kind # "unthreaded" /\ Home(vm, t)
      /\ vm.disowningVMThread # t => vm.awolProcesses[t] # <<>>
  BY <1>1 DEF Homes, AtHome, Callers, Called, PutAway, StillActive, Out, Coming
<1>5. /\ v \in VMStates /\ v.disowningVMThread = NoThread
      /\ \A w \in Threads : w # vm.disowningVMThread =>
            v.awolProcesses[w] = vm.awolProcesses[w]
  BY <1>1, PreemptedLast
<1>6. /\ vm'.disowningVMThread = NoThread
      /\ MayRun(vm, t)'
      /\ \/ /\ \A w \in Threads : w # t => vm'.awolProcesses[w] = v.awolProcesses[w]
            /\ \A r \in Processes : vm'.ownerIndex[r] \in {NoThread, v.ownerIndex[r]}
         \/ vm.disowningVMThread = t /\ vm' = [vm EXCEPT !.disowningVMThread = NoThread]
  <2>1. CASE vm.disowningVMThread = t
    <3>1. vm' = [vm EXCEPT !.disowningVMThread = NoThread]
      BY <2>1 DEF OwnVM
    <3>2. /\ vm'.activeProcess = vm.activeProcess /\ vm'.ownerIndex = vm.ownerIndex
          /\ vm'.disowningVMThread = NoThread
      BY <1>1, <3>1 DEF TypeOK, VMStates
    <3>3. QED
      BY <1>4, <2>1, <3>1, <3>2 DEF Home, MayRun
  <2>2. CASE vm.disowningVMThread # t
    <3>1. vm' = PopAWOLProcess(v, t, unaffine) /\ unaffine \in BOOLEAN
      BY <2>2 DEF OwnVM
    <3>2. v.awolProcesses[t] # <<>>
      BY <1>4, <1>5, <2>2
    <3>3. /\ LastAway(v, t) \in Processes
          /\ v.ownerIndex[LastAway(v, t)] \in {NoThread, t}
      BY <1>1, <1>4, PreemptedHome
    <3> HIDE DEF v, unaffine
    <3>4. /\ vm'.disowningVMThread = NoThread
          /\ \A w \in Threads : w # t => vm'.awolProcesses[w] = v.awolProcesses[w]
          /\ vm'.activeProcess = LastAway(v, t)
          /\ \A r \in Processes : vm'.ownerIndex[r] \in {NoThread, v.ownerIndex[r]}
      BY <1>5, <3>1, <3>2, PopType, PopOwners
    <3>5. QED
      BY <3>3, <3>4 DEF MayRun
  <2>3. QED
    BY <2>1, <2>2
<1>7. OwnerAffined' /\ AtHome(t)'
  BY <1>1, <1>2, <1>3, <1>6 DEF OwnerAffined, AtHome, Out, Coming
<1>8. CASE /\ \A w \in Threads : w # t => vm'.awolProcesses[w] = v.awolProcesses[w]
           /\ \A r \in Processes : vm'.ownerIndex[r] \in {NoThread, v.ownerIndex[r]}
  BY <1>2, <1>3, <1>6, <1>7, <1>8, OwnerHomes
<1>9. CASE vm.disowningVMThread = t /\ vm' = [vm EXCEPT !.disowningVMThread = NoThread]
  <2>1. vm'.awolProcesses = vm.awolProcesses /\ vm'.ownerIndex = vm.ownerIndex
    BY <1>1, <1>9 DEF TypeOK, VMStates
  <2>2. ASSUME NEW w \in Threads, w # t PROVE AtHome(w)'
    <3> SUFFICES ASSUME Out(w)', Top(w)'.kind # "unthreaded" PROVE Home(vm, w)'
      BY DEF AtHome
    <3>1. Home(vm, w)
      BY <1>3, <2>2 DEF Homes, AtHome, Out, Top
    <3>2. QED
      BY <1>6, <1>9, <2>1, <2>2, <3>1, ConstantsOK DEF Home, LastAway
  <2>3. CandidateIsIn'
    BY <1>1, <1>2, <1>3 DEF CandidateIsIn, Control, InsideOwns, Inside, InsidePositions
  <2>4. \A w \in Threads : AtHome(w)'
    BY <1>7, <2>2
  <2>5. QED
    BY <1>7, <2>3, <2>4 DEF Homes
<1>10. QED
  BY <1>6, <1>8, <1>9

-----------------------------------------------------------------------------
(* Calls and callbacks.                                                    *)

LEMMA LeavingHomes ==
    ASSUME IInv, InPlace(vm), Callers, Homes, NEW t \in Threads, Leaving(t) PROVE Homes'
<1> USE ConstantsOK
<1>1. /\ TypeOK /\ Control /\ pc[t] = "running" /\ Goto(t, "outside")
      /\ vm \in VMStates /\ vm.activeProcess \in Processes
      /\ vmOwner = t /\ vm.disowningVMThread \in {NoThread, t}
      /\ vmOwner' \in {t, Unowned}
  <2>1. pc[t] = "running" /\ TypeOK /\ Control
    BY DEF Leaving, CallOut, ReturnFromCallBack, CallKeepingVM, IInv, Inv
  <2>2. vmOwner = t /\ vm.activeProcess \in Processes
    BY <2>1, OwnerFacts
  <2>3. Goto(t, "outside") /\ vmOwner' \in {t, Unowned}
    BY <2>2 DEF Leaving, CallOut, ReturnFromCallBack, CallKeepingVM, DisownVM, Release,
                Keep, ownership
  <2>4. QED
    BY <2>1, <2>2, <2>3 DEF Callers, NoneOtherDisowned, Running3, TypeOK
<1>2. /\ pc'[t] = "outside" /\ \A w \in Threads : w # t => pc'[w] = pc[w]
      /\ MayRun(vm, t)
  BY <1>1 DEF Goto, TypeOK, Homes, OwnerAffined
<1>3. \A w \in Threads : w # t => calls'[w] = calls[w]
  BY <1>1 DEF Leaving, CallOut, ReturnFromCallBack, CallKeepingVM, Push, Pop, TypeOK
<1>4. vm' = vm \/ vm' = [vm EXCEPT !.disowningVMThread = t]
  BY DEF Leaving, CallOut, ReturnFromCallBack, CallKeepingVM, DisownVM
<1>5. /\ vm'.activeProcess = vm.activeProcess /\ vm'.ownerIndex = vm.ownerIndex
      /\ vm'.awolProcesses = vm.awolProcesses
      /\ vm'.disowningVMThread \in {NoThread, t}
  BY <1>1, <1>4 DEF VMStates
<1>6. MayRun(vm, t)'
  BY <1>2, <1>5 DEF MayRun
<1>7. OwnerAffined'
  BY <1>1, <1>6 DEF OwnerAffined
<1>8. AtHome(t)'
  <2>1. CASE CallOut(t) \/ ReturnFromCallBack(t)
    <3>1. vm'.disowningVMThread = t
      BY <1>1, <2>1 DEF CallOut, ReturnFromCallBack, DisownVM, VMStates
    <3>2. QED
      BY <1>6, <3>1 DEF AtHome, Home
  <2>2. CASE CallKeepingVM(t)
    <3> DEFINE call == Call("unthreaded", vm.activeProcess, FALSE, FALSE)
    <3>1. call \in Calls /\ call.kind = "unthreaded" /\ Push(t, call)
      BY <1>1, <2>2 DEF Call, Calls, CallKeepingVM
    <3> HIDE DEF call
    <3>2. Top(t)' = call
      BY <1>1, <3>1, PushedTop DEF Top
    <3>3. QED
      BY <3>1, <3>2 DEF AtHome
  <2>3. QED
    BY <2>1, <2>2 DEF Leaving
<1>9. QED
  BY <1>1, <1>2, <1>3, <1>5, <1>7, <1>8, OwnerHomes

LEMMA CallBackHomes ==
    ASSUME IInv, InPlace(vm), Callers, Homes, NEW t \in Threads,
           CallBack(t) \/ ReturnKeepingVM(t)
    PROVE  Homes'
<1> USE ConstantsOK
<1>1. /\ TypeOK /\ Control /\ pc[t] = "outside" /\ vm \in VMStates
      /\ vmOwner' = vmOwner /\ Out(t) /\ Called(t)
      /\ candidate' = candidate
  BY DEF CallBack, ReturnKeepingVM, IInv, Inv, TypeOK, ownership, Out, Callers
<1>2. \A w \in Threads : w # t => calls'[w] = calls[w]
  BY <1>1 DEF CallBack, ReturnKeepingVM, Push, Pop, TypeOK
<1>3. CASE Goto(t, "running") /\ vmOwner = t
  <2>1. /\ vm'.disowningVMThread \in {NoThread, t}
        /\ vm'.activeProcess = vm.activeProcess /\ vm'.ownerIndex = vm.ownerIndex
        /\ vm'.awolProcesses = vm.awolProcesses
    <3>1. CASE CallBack(t)
      BY <1>1, <1>3, <3>1 DEF CallBack, VMStates
    <3>2. CASE ReturnKeepingVM(t)
      BY <1>1, <3>2 DEF ReturnKeepingVM, Called, HasTop
    <3>3. QED
      BY <3>1, <3>2
  <2>2. pc'[t] = "running" /\ \A w \in Threads : w # t => pc'[w] = pc[w]
    BY <1>1, <1>3 DEF Goto, TypeOK
  <2>3. OwnerAffined' /\ AtHome(t)'
    BY <1>1, <1>3, <2>1, <2>2
       DEF Homes, OwnerAffined, MayRun, AtHome, Out, Coming
  <2>4. QED
    BY <1>1, <1>2, <1>3, <2>1, <2>2, <2>3, OwnerHomes
<1>4. CASE CallBack(t) /\ vmOwner # t
  <2>1. vm' = vm /\ Goto(t, "enter")
    BY <1>4 DEF CallBack
  <2>2. pc'[t] = "enter" /\ \A w \in Threads : w # t => pc'[w] = pc[w]
    BY <1>1, <2>1 DEF Goto, TypeOK
  <2>3. ASSUME NEW w \in Threads PROVE AtHome(w)'
    <3> SUFFICES ASSUME Out(w)', Top(w)'.kind # "unthreaded" PROVE Home(vm, w)'
      BY DEF AtHome
    <3>1. CASE w = t
      <4>1. Top(t).kind # "unthreaded"
        BY <1>1, <1>4 DEF Called
      <4>2. QED
        BY <1>1, <2>1, <3>1, <4>1 DEF Homes, AtHome, Home, MayRun, LastAway
    <3>2. CASE w # t
      <4>1. Home(vm, w)
        BY <1>2, <2>2, <3>2 DEF Homes, AtHome, Out, Top
      <4>2. QED
        BY <2>1, <4>1 DEF Home, MayRun, LastAway
    <3>3. QED
      BY <3>1, <3>2
  <2>4. OwnerAffined'
    BY <1>1, <2>1, <2>2 DEF Homes, OwnerAffined, MayRun
  <2>5. CandidateIsIn'
    <3>1. candidate.thread \in Threads \cup {NoThread}
      BY <1>1 DEF TypeOK
    <3>2. QED
      BY <1>1, <2>2, <3>1 DEF Homes, CandidateIsIn
  <2>6. QED
    BY <2>3, <2>4, <2>5 DEF Homes
<1>5. CallBack(t) /\ vmOwner = t => Goto(t, "running")
  BY DEF CallBack
<1>6. ReturnKeepingVM(t) => Goto(t, "running") /\ vmOwner = t
  BY <1>1 DEF ReturnKeepingVM, Called, HasTop
<1>7. QED
  BY <1>3, <1>4, <1>5, <1>6

-----------------------------------------------------------------------------
(* The theorem.                                                            *)

LEMMA InitHomes == Init => Homes
<1> SUFFICES ASSUME Init PROVE Homes
  OBVIOUS
<1>1. \A t \in Threads : pc[t] \in {"loop", "unborn"}
  BY DEF Init, Actors
<1>2. QED
  BY <1>1 DEF Homes, OwnerAffined, AtHome, Out, Coming, CandidateIsIn

LEMMA NextHomes == IInv /\ InPlace(vm) /\ Callers /\ Homes /\ [Next]_vars => Homes'
<1> SUFFICES ASSUME IInv, InPlace(vm), Callers, Homes, [Next]_vars PROVE Homes'
  OBVIOUS
<1>1. CASE UNCHANGED vars
  BY <1>1, QuietHomes DEF vars, ownership, IInv, Inv
<1>2. ASSUME Beating PROVE Homes'
  BY <1>2, BeatingHomes, SignalHomes, ConstantsOK
<1>3. ASSUME NEW t \in Threads, SchedulingLoop(t) PROVE Homes'
  BY <1>3, LoopHomes, ToExecuteHomes
<1>4. ASSUME NEW t \in Threads, Signal(t) PROVE Homes'
  BY <1>4, SignalHomes, ConstantsOK
<1>5. ASSUME NEW t \in Threads, Running(t) PROVE Homes'
  BY <1>5, OwnerRunsHomes, LeavingHomes DEF Running
<1>6. ASSUME NEW t \in Threads, ComingBack(t) PROVE Homes'
  BY <1>6, AcquiringHomes, CallBackHomes, OwnVMHomes DEF ComingBack
<1>7. ASSUME NEW t \in Threads, Acquiring(t) PROVE Homes'
  BY <1>7, AcquiringHomes, OwnVMHomes
<1>8. QED
  BY <1>1, <1>2, <1>3, <1>4, <1>5, <1>6, <1>7 DEF Next

Housed == IInv /\ InPlace(vm) /\ Callers /\ Homes

\* No process runs on a thread other than the one it is affined to, however it
\* became active, for any image, threads and processes.
THEOREM RunsAtHome == Spec => []RunsWhereAffined
<1>1. Init => Housed
  BY InitOK, InitInPlace, InitCallers, InitHomes DEF Housed
<1>2. Housed /\ [Next]_vars => Housed'
  <2>1. ASSUME Housed, [Next]_vars PROVE InPlace(vm)'
    <3>1. CASE Next
      BY <2>1, <3>1, StayInPlace DEF Housed, Next
    <3>2. CASE UNCHANGED vars
      BY <2>1, <3>2, SameInPlaceNext DEF Housed, vars, SamePlaces
    <3>3. QED
      BY <2>1, <3>1, <3>2
  <2>2. QED
    BY <2>1, NextOK, NextCallers, NextHomes DEF Housed
<1>3. Housed => RunsWhereAffined
  <2> SUFFICES ASSUME Housed, NEW t \in Threads, pc[t] = "running"
               PROVE  vm.ownerIndex[vm.activeProcess] \in {NoThread, t}
    BY DEF RunsWhereAffined
  <2>1. vmOwner = t
    BY OwnerFacts DEF Housed, IInv, Inv
  <2>2. QED
    BY <2>1 DEF Housed, Homes, OwnerAffined, MayRun
<1>4. QED
  BY <1>1, <1>2, <1>3, PTL DEF Spec
=============================================================================
