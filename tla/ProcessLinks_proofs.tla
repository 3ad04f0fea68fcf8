------------------------- MODULE ProcessLinks_proofs -------------------------
(***************************************************************************)
(* The linked lists hold queues.  Linked(q) says what the links are when   *)
(* they describe the queues q; such queues always exist, Chain reads them  *)
(* back from the links, and each operation on the links is one operation   *)
(* on the queues: the linked lists implement ProcessQueues.                *)
(***************************************************************************)
EXTENDS ProcessLinks, Extremes, SequenceTheorems, FiniteSetTheorems, TLAPS

\* No process is in two places of the queues.
Apart(q) ==
    \A l, m \in Lists : \A i \in 1 .. Len(q[l]), j \in 1 .. Len(q[m]) :
       q[l][i] = q[m][j] => l = m /\ i = j

\* p is in none of the queues.
NotIn(p, q) == \A l \in Lists : \A i \in 1 .. Len(q[l]) : q[l][i] # p

\* The first, last and next links and the back pointers describe the queues q,
\* and a process in none of them has no next link.
Linked(q) ==
    /\ q \in [Lists -> Seq(Processes)]
    /\ Apart(q)
    /\ \A l \in Lists :
          /\ firstLink[l] = IF Len(q[l]) = 0 THEN Nil ELSE q[l][1]
          /\ lastLink[l] = IF Len(q[l]) = 0 THEN Nil ELSE q[l][Len(q[l])]
          /\ \A i \in 1 .. Len(q[l]) :
                /\ nextLink[q[l][i]] = IF i = Len(q[l]) THEN Nil ELSE q[l][i + 1]
                /\ myList[q[l][i]] = l
    /\ \A p \in Processes : NotIn(p, q) => nextLink[p] = Nil

Size == Cardinality(Processes)

\* A sequence without repetitions is no longer than the number of processes, so
\* a walk of that many links leaves every list.
LEMMA NoLonger ==
    ASSUME NEW s \in Seq(Processes),
           \A i, j \in 1 .. Len(s) : s[i] = s[j] => i = j
    PROVE  Len(s) <= Size /\ Size \in Nat
<1>1. s \in [1 .. Len(s) -> Processes] /\ Len(s) \in Nat
  OBVIOUS
<1>2. IsFiniteSet(1 .. Len(s)) /\ Cardinality(1 .. Len(s)) = Len(s)
  <2>1. /\ IsFiniteSet(1 .. Len(s))
        /\ Cardinality(1 .. Len(s)) = IF 1 > Len(s) THEN 0 ELSE Len(s) - 1 + 1
    BY SMTT(40), <1>1, FS_Interval
  <2>2. QED
    BY <1>1, <2>1
<1>3. Size \in Nat
  BY MemoryAssumption, FS_CardinalityType DEF Size
<1>4. SUFFICES ASSUME Size < Len(s) PROVE FALSE
  BY <1>1, <1>3
<1>5. \E x, y \in 1 .. Len(s) : x # y /\ s[x] = s[y]
  BY <1>1, <1>2, <1>4, MemoryAssumption, FS_PigeonHole DEF Size
<1>6. QED
  BY <1>5

\* One unfolding of the recursion that defines Walk.
WalkStep(at, l) ==
    [n \in 0 .. Size |->
       IF n = 0 THEN firstLink[l]
       ELSE IF at[n - 1] = Nil THEN Nil ELSE nextLink[at[n - 1]]]

\* Following the links of l gives its queue, then Nil.  Walk is recursive: the
\* function meant satisfies the recursion, so one that does exists, and two that
\* do cannot differ at a least number of links.
LEMMA WalkAlong ==
    ASSUME NEW q, Linked(q), NEW l \in Lists
    PROVE  Walk(l) = [n \in 0 .. Size |-> IF n < Len(q[l]) THEN q[l][n + 1] ELSE Nil]
<1> DEFINE s == q[l]
           W == [n \in 0 .. Size |-> IF n < Len(s) THEN s[n + 1] ELSE Nil]
           A == Walk(l)
<1>1. s \in Seq(Processes) /\ Len(s) \in Nat
  BY DEF Linked
<1>2. Len(s) <= Size /\ Size \in Nat
  <2>1. \A i, j \in 1 .. Len(s) : s[i] = s[j] => i = j
    BY DEF Linked, Apart
  <2>2. QED
    BY <1>1, <2>1, NoLonger
<1>3. \A n \in 1 .. Len(s) : s[n] \in Processes /\ s[n] # Nil
  BY <1>1, NilAssumption
<1>4. W = WalkStep(W, l)
  <2>1. SUFFICES ASSUME NEW n \in 0 .. Size
                 PROVE  W[n] = IF n = 0 THEN firstLink[l]
                               ELSE IF W[n - 1] = Nil THEN Nil ELSE nextLink[W[n - 1]]
    BY DEF WalkStep
  <2>2. CASE n = 0
    BY <1>1, <1>2, <2>2 DEF Linked
  <2>3. CASE n # 0
    <3>1. n - 1 \in 0 .. Size
      BY <1>2, <2>3
    <3>2. CASE n - 1 < Len(s)
      <4>1. n \in 1 .. Len(s) /\ (n - 1) + 1 = n
        BY <1>1, <1>2, <2>3, <3>2
      <4>2. W[n - 1] = s[n]
        BY <3>1, <3>2, <4>1
      <4>3. nextLink[s[n]] = IF n = Len(s) THEN Nil ELSE s[n + 1]
        BY <4>1 DEF Linked
      <4>4. QED
        BY <1>1, <1>3, <2>3, <4>1, <4>2, <4>3
    <3>3. CASE ~(n - 1 < Len(s))
      BY <1>1, <1>2, <2>3, <3>1, <3>3
    <3>4. QED
      BY <3>2, <3>3
  <2>4. QED
    BY <2>2, <2>3
<1>5. A = WalkStep(A, l)
  <2>1. A = CHOOSE at : at = WalkStep(at, l)
    BY DEF Walk, WalkStep, Size
  <2>2. \E at : at = WalkStep(at, l)
    BY <1>4
  <2> HIDE DEF A, W
  <2>3. QED
    BY <2>1, <2>2
<1>6. A = W
  <2> DEFINE D == {n \in 0 .. Size : A[n] # W[n]}
  <2>1. CASE D # {}
    <3>1. PICK n \in D : \A k \in D : n <= k
      <4>1. D \in SUBSET Nat
        BY <1>2
      <4> HIDE DEF D
      <4>2. QED
        BY <2>1, <4>1, SmallestExists
    <3>2. n \in 0 .. Size /\ A[n] # W[n]
      BY <3>1
    <3> HIDE DEF A, W
    <3>3. A[n] = (IF n = 0 THEN firstLink[l]
                  ELSE IF A[n - 1] = Nil THEN Nil ELSE nextLink[A[n - 1]])
      BY <1>5, <3>2 DEF WalkStep
    <3>4. W[n] = (IF n = 0 THEN firstLink[l]
                  ELSE IF W[n - 1] = Nil THEN Nil ELSE nextLink[W[n - 1]])
      BY <1>4, <3>2 DEF WalkStep
    <3>5. n # 0
      BY <3>2, <3>3, <3>4
    <3>6. n - 1 \in 0 .. Size /\ ~(n <= n - 1)
      BY <1>2, <3>2, <3>5
    <3>7. A[n - 1] = W[n - 1]
      BY <3>1, <3>6
    <3>8. QED
      BY <3>2, <3>3, <3>4, <3>7
  <2>2. CASE D = {}
    <3>1. \A n \in 0 .. Size : A[n] = W[n]
      BY <2>2
    <3>2. A = [n \in 0 .. Size |-> A[n]]
      <4> HIDE DEF A
      <4>1. QED
        BY <1>5 DEF WalkStep
    <3>3. W = [n \in 0 .. Size |-> W[n]]
      OBVIOUS
    <3> HIDE DEF A, W
    <3>4. QED
      BY <3>1, <3>2, <3>3
  <2>3. QED
    BY <2>1, <2>2
<1>7. QED
  BY <1>6

\* There are n numbers from 0 below n.
LEMMA CountFromZero ==
    ASSUME NEW n \in Nat PROVE Cardinality(0 .. n - 1) = n
<1>1. Cardinality(0 .. n - 1) = IF 0 > n - 1 THEN 0 ELSE (n - 1) - 0 + 1
  <2> DEFINE m == n - 1
  <2>1. 0 \in Int /\ m \in Int
    OBVIOUS
  <2> HIDE DEF m
  <2>2. Cardinality(0 .. m) = IF 0 > m THEN 0 ELSE m - 0 + 1
    BY <2>1, FS_Interval
  <2>3. QED
    BY <2>2 DEF m
<1>2. (IF 0 > n - 1 THEN 0 ELSE (n - 1) - 0 + 1) = n
  OBVIOUS
<1>3. QED
  BY <1>1, <1>2

\* The chain read from the links of a list is its queue.
LEMMA ChainIs ==
    ASSUME NEW q, Linked(q), NEW l \in Lists
    PROVE  Chain(l) = q[l]
<1> DEFINE s == q[l]
           W == [n \in 0 .. Size |-> IF n < Len(s) THEN s[n + 1] ELSE Nil]
           met == {n \in DOMAIN W : W[n] # Nil}
<1>1. s \in Seq(Processes) /\ Len(s) \in Nat
  BY DEF Linked
<1>2. Len(s) <= Size /\ Size \in Nat
  <2>1. \A i, j \in 1 .. Len(s) : s[i] = s[j] => i = j
    BY DEF Linked, Apart
  <2>2. QED
    BY <1>1, <2>1, NoLonger
<1>3. \A n \in 1 .. Len(s) : s[n] \in Processes /\ s[n] # Nil
  BY <1>1, NilAssumption
<1>4. met = 0 .. Len(s) - 1
  <2>1. ASSUME NEW n \in 0 .. Size PROVE W[n] # Nil <=> n < Len(s)
    BY <1>1, <1>3
  <2>2. QED
    BY <1>1, <1>2, <2>1
<1>5. Cardinality(met) = Len(s)
  <2> HIDE DEF met, s
  <2>1. QED
    BY <1>1, <1>4, CountFromZero
<1>6. Walk(l) = W
  BY WalkAlong
<1>7. Chain(l) = [k \in 1 .. Len(s) |-> W[k - 1]]
  <2> HIDE DEF W
  <2>1. QED
    BY <1>5, <1>6 DEF Chain
<1>8. \A k \in 1 .. Len(s) : W[k - 1] = s[k]
  BY <1>1, <1>2
<1>9. s = [k \in 1 .. Len(s) |-> s[k]]
  BY <1>1
<1>10. QED
  BY <1>7, <1>8, <1>9

\* A process is on a list when it is in its queue.
LEMMA OnListMeans ==
    ASSUME NEW q, Linked(q), NEW l \in Lists, NEW p
    PROVE  OnList(p, l) <=> \E i \in 1 .. Len(q[l]) : q[l][i] = p
<1>1. Chain(l) = q[l] /\ q[l] \in Seq(Processes)
  BY ChainIs DEF Linked
<1>2. QED
  BY <1>1 DEF OnList

\* A process is on no list when it is in no queue.
LEMMA FreeMeans ==
    ASSUME NEW q, Linked(q), NEW p
    PROVE  Free(p) <=> NotIn(p, q)
BY OnListMeans DEF Free, NotIn

-----------------------------------------------------------------------------

\* s may take the place of l's queue.
Fits(s, l, q) ==
    /\ s \in Seq(Processes)
    /\ \A i, j \in 1 .. Len(s) : s[i] = s[j] => i = j
    /\ \A i \in 1 .. Len(s) :
          NotIn(s[i], q) \/ \E j \in 1 .. Len(q[l]) : s[i] = q[l][j]

\* Putting in the place of a queue a sequence that fits there keeps the queues
\* apart.
LEMMA FittingApart ==
    ASSUME NEW q \in [Lists -> Seq(Processes)], Apart(q), NEW l \in Lists, NEW s,
           Fits(s, l, q)
    PROVE  /\ [q EXCEPT ![l] = s] \in [Lists -> Seq(Processes)]
           /\ Apart([q EXCEPT ![l] = s])
<1> DEFINE r == [q EXCEPT ![l] = s]
<1>1. r \in [Lists -> Seq(Processes)] /\ r[l] = s
         /\ \A m \in Lists \ {l} : r[m] = q[m]
  BY DEF Fits
<1>2. ASSUME NEW m \in Lists \ {l}, NEW i \in 1 .. Len(s), NEW j \in 1 .. Len(q[m])
      PROVE  s[i] # q[m][j]
  <2>1. CASE NotIn(s[i], q)
    BY <2>1 DEF NotIn
  <2>2. CASE \E k \in 1 .. Len(q[l]) : s[i] = q[l][k]
    BY <2>2 DEF Apart
  <2>3. QED
    BY <2>1, <2>2 DEF Fits
<1>3. Apart(r)
  <2> HIDE DEF r
  <2> SUFFICES ASSUME NEW m \in Lists, NEW n \in Lists,
                      NEW i \in 1 .. Len(r[m]), NEW j \in 1 .. Len(r[n]),
                      r[m][i] = r[n][j]
               PROVE  m = n /\ i = j
    BY DEF Apart
  <2>1. CASE m = l /\ n = l
    BY <1>1, <2>1 DEF Fits
  <2>2. CASE m # l /\ n # l
    BY <1>1, <2>2 DEF Apart
  <2>3. CASE m = l /\ n # l
    BY <1>1, <1>2, <2>3
  <2>4. CASE m # l /\ n = l
    BY <1>1, <1>2, <2>4
  <2>5. QED
    BY <2>1, <2>2, <2>3, <2>4
<1>4. QED
  BY <1>1, <1>3

\* s without its k-th element.
Without(s, k) == SubSeq(s, 1, k - 1) \o SubSeq(s, k + 1, Len(s))

\* The elements of a sequence that has lost one.
LEMMA WithoutElements ==
    ASSUME NEW S, NEW s \in Seq(S), NEW k \in 1 .. Len(s)
    PROVE  /\ Without(s, k) \in Seq(S)
           /\ Len(Without(s, k)) = Len(s) - 1
           /\ \A i \in 1 .. Len(s) - 1 :
                 Without(s, k)[i] = IF i < k THEN s[i] ELSE s[i + 1]
<1> DEFINE a == SubSeq(s, 1, k - 1)
           b == SubSeq(s, k + 1, Len(s))
<1>1. Len(s) \in Nat /\ k \in Nat /\ k - 1 \in Nat /\ k - 1 <= Len(s)
  OBVIOUS
<1>2. /\ a \in Seq(S) /\ Len(a) = k - 1
      /\ \A i \in 1 .. k - 1 : a[i] = s[i]
  <2>1. \A i \in 1 .. k - 1 : s[i] \in S
    OBVIOUS
  <2>2. a = [i \in 1 .. k - 1 |-> s[i]]
    BY <1>1
  <2> HIDE DEF a
  <2>3. QED
    BY <1>1, <2>1, <2>2
<1>3. /\ b \in Seq(S) /\ Len(b) = Len(s) - k
      /\ \A i \in 1 .. Len(s) - k : b[i] = s[k + i]
  <2>1. \A i \in 1 .. Len(s) - k : s[k + i] \in S
    BY <1>1
  <2>2. b = [i \in 1 .. Len(s) - k |-> s[k + i]]
    BY <1>1
  <2>3. Len(s) - k \in Nat
    BY <1>1
  <2> HIDE DEF b
  <2>4. QED
    BY <1>1, <2>1, <2>2, <2>3
<1> HIDE DEF a, b
<1>4. a \o b \in Seq(S) /\ Len(a \o b) = Len(s) - 1
  <2>1. a \o b \in Seq(S) /\ Len(a \o b) = Len(a) + Len(b)
    BY <1>2, <1>3, ConcatProperties
  <2>2. QED
    BY <1>1, <1>2, <1>3, <2>1
<1>5. ASSUME NEW i \in 1 .. Len(s) - 1
      PROVE  (a \o b)[i] = IF i < k THEN s[i] ELSE s[i + 1]
  <2>1. CASE i < k
    BY <1>1, <1>2, <1>3, <2>1
  <2>2. CASE ~(i < k)
    <3>1. i - (k - 1) \in 1 .. Len(s) - k /\ k + (i - (k - 1)) = i + 1
      BY <1>1, <2>2
    <3>2. (a \o b)[i] = b[i - (k - 1)]
      BY <1>1, <1>2, <1>3, <2>2
    <3>3. QED
      BY <1>3, <2>2, <3>1, <3>2
  <2>3. QED
    BY <2>1, <2>2
<1>6. QED
  BY <1>4, <1>5 DEF Without, a, b

-----------------------------------------------------------------------------

\* What Linked says of one list.
LinkedList(s, l) ==
    /\ firstLink[l] = IF Len(s) = 0 THEN Nil ELSE s[1]
    /\ lastLink[l] = IF Len(s) = 0 THEN Nil ELSE s[Len(s)]
    /\ \A i \in 1 .. Len(s) :
          /\ nextLink[s[i]] = IF i = Len(s) THEN Nil ELSE s[i + 1]
          /\ myList[s[i]] = l

\* What Linked says of the processes in no queue.
Unlinked(q) == \A p \in Processes : NotIn(p, q) => nextLink[p] = Nil

\* A queue whose ends and processes a step leaves alone stays linked.
LEMMA LeftAlone ==
    ASSUME NEW q, Linked(q), NEW m \in Lists,
           firstLink'[m] = firstLink[m], lastLink'[m] = lastLink[m],
           \A i \in 1 .. Len(q[m]) : /\ nextLink'[q[m][i]] = nextLink[q[m][i]]
                                     /\ myList'[q[m][i]] = myList[q[m][i]]
    PROVE  LinkedList(q[m], m)'
BY DEF Linked, LinkedList

\* A step that relinks one list and leaves the others alone links the queues
\* with that one replaced.
LEMMA Relinked ==
    ASSUME NEW q, Linked(q), NEW l \in Lists, NEW s, Fits(s, l, q),
           LinkedList(s, l)', \A m \in Lists \ {l} : LinkedList(q[m], m)',
           Unlinked([q EXCEPT ![l] = s])'
    PROVE  Linked([q EXCEPT ![l] = s])'
<1> DEFINE r == [q EXCEPT ![l] = s]
<1>1. q \in [Lists -> Seq(Processes)] /\ Apart(q)
  BY DEF Linked
<1>2. r \in [Lists -> Seq(Processes)] /\ Apart(r)
  BY <1>1, FittingApart
<1>3. r[l] = s /\ \A m \in Lists \ {l} : r[m] = q[m]
  BY <1>1
<1>4. \A m \in Lists : LinkedList(r[m], m)'
  BY <1>3
<1>5. Unlinked(r)'
  OBVIOUS
<1> HIDE DEF r
<1>6. Linked(r)'
  BY <1>2, <1>4, <1>5 DEF Linked, LinkedList, Unlinked
<1>7. QED
  BY <1>6 DEF r

\* A process of a queue is in no other queue.
LEMMA Elsewhere ==
    ASSUME NEW q, Linked(q), NEW l \in Lists, NEW i \in 1 .. Len(q[l]),
           NEW m \in Lists \ {l}, NEW j \in 1 .. Len(q[m])
    PROVE  q[m][j] # q[l][i]
BY DEF Linked, Apart

\* What is known of one queue.
LEMMA Queue ==
    ASSUME NEW q, Linked(q), NEW l \in Lists
    PROVE  /\ q[l] \in Seq(Processes) /\ Len(q[l]) \in Nat
           /\ \A i \in 1 .. Len(q[l]) : q[l][i] \in Processes /\ q[l][i] # Nil
           /\ \A i, j \in 1 .. Len(q[l]) : q[l][i] = q[l][j] => i = j
           /\ LinkedList(q[l], l)
<1>1. q[l] \in Seq(Processes)
  BY DEF Linked
<1>2. Len(q[l]) \in Nat
  BY <1>1
<1>3. \A i \in 1 .. Len(q[l]) : q[l][i] \in Processes
  BY <1>1
<1>4. QED
  BY <1>1, <1>2, <1>3, NilAssumption DEF Linked, Apart, LinkedList

\* addLastLink:toList: puts the process at the end of the queue.
LEMMA AddLastLinkStep ==
    ASSUME TypeOK, NEW q, Linked(q), NEW p \in Processes, NEW l \in Lists,
           AddLastLink(p, l)
    PROVE  /\ Linked([q EXCEPT ![l] = Append(q[l], p)])'
           /\ NotIn(p, q)
<1> DEFINE a == q[l]
           n == Len(a)
           s == Append(a, p)
<1>1. NotIn(p, q)
  BY FreeMeans DEF AddLastLink
<1>2. /\ a \in Seq(Processes) /\ n \in Nat /\ LinkedList(a, l)
      /\ \A i \in 1 .. n : a[i] \in Processes /\ a[i] # Nil /\ a[i] # p
      /\ \A i, j \in 1 .. n : a[i] = a[j] => i = j
  BY <1>1, Queue DEF NotIn
<1>3. /\ s \in Seq(Processes) /\ Len(s) = n + 1 /\ s[n + 1] = p
      /\ \A i \in 1 .. n : s[i] = a[i]
  BY <1>2
<1>4. nextLink[p] = Nil
  BY <1>1 DEF Linked
<1>5. /\ firstLink' = IF n = 0 THEN [firstLink EXCEPT ![l] = p] ELSE firstLink
      /\ nextLink' = IF n = 0 THEN nextLink ELSE [nextLink EXCEPT ![a[n]] = p]
      /\ lastLink' = [lastLink EXCEPT ![l] = p]
      /\ myList' = [myList EXCEPT ![p] = l]
  BY <1>2 DEF AddLastLink, LinkedList
<1> HIDE DEF s
<1>6. Fits(s, l, q)
  <2>1. ASSUME NEW i \in 1 .. n + 1, NEW j \in 1 .. n + 1, s[i] = s[j]
        PROVE  i = j
    <3>1. CASE i = n + 1 /\ j # n + 1
      BY <1>2, <1>3, <2>1, <3>1
    <3>2. CASE j = n + 1 /\ i # n + 1
      BY <1>2, <1>3, <2>1, <3>2
    <3>3. CASE i # n + 1 /\ j # n + 1
      <4>1. i \in 1 .. n /\ j \in 1 .. n
        BY <1>2, <3>3
      <4>2. QED
        BY <1>2, <1>3, <2>1, <4>1
    <3>4. QED
      BY <3>1, <3>2, <3>3
  <2>2. ASSUME NEW i \in 1 .. n + 1
        PROVE  NotIn(s[i], q) \/ \E j \in 1 .. n : s[i] = a[j]
    <3>1. CASE i = n + 1
      BY <1>1, <1>3, <3>1
    <3>2. CASE i # n + 1
      <4>1. i \in 1 .. n
        BY <1>2, <3>2
      <4>2. QED
        BY <1>3, <4>1
    <3>3. QED
      BY <3>1, <3>2
  <2>3. QED
    BY <1>3, <2>1, <2>2 DEF Fits
<1>7. LinkedList(s, l)'
  <2>1. firstLink'[l] = s[1] /\ lastLink'[l] = s[Len(s)]
    BY <1>2, <1>3, <1>5 DEF TypeOK, LinkedList
  <2>2. nextLink'[s[n + 1]] = Nil /\ myList'[s[n + 1]] = l
    BY <1>2, <1>3, <1>4, <1>5 DEF TypeOK
  <2>3. ASSUME NEW i \in 1 .. n
        PROVE  nextLink'[s[i]] = s[i + 1] /\ myList'[s[i]] = l
    <3>1. CASE i = n
      BY <1>2, <1>3, <1>5, <3>1 DEF TypeOK, LinkedList
    <3>2. CASE i # n
      <4>1. i + 1 \in 1 .. n /\ n \in 1 .. n /\ n # 0
        BY <1>2, <3>2
      <4>2. nextLink'[a[i]] = nextLink[a[i]] /\ myList'[a[i]] = myList[a[i]]
        BY <1>2, <1>5, <3>2, <4>1 DEF TypeOK
      <4>3. nextLink[a[i]] = a[i + 1] /\ myList[a[i]] = l
        BY <1>2, <3>2 DEF LinkedList
      <4>4. QED
        BY <1>3, <4>1, <4>2, <4>3
    <3>3. QED
      BY <3>1, <3>2
  <2>4. QED
    BY <1>2, <1>3, <2>1, <2>2, <2>3 DEF LinkedList
<1>8. ASSUME NEW m \in Lists \ {l} PROVE LinkedList(q[m], m)'
  <2>1. ASSUME NEW i \in 1 .. Len(q[m])
        PROVE  /\ nextLink'[q[m][i]] = nextLink[q[m][i]]
               /\ myList'[q[m][i]] = myList[q[m][i]]
    <3>1. q[m][i] \in Processes /\ q[m][i] # p
      BY <1>1, Queue DEF NotIn
    <3>2. n # 0 => q[m][i] # a[n]
      BY <1>2, Elsewhere
    <3>3. QED
      BY <1>2, <1>5, <3>1, <3>2 DEF TypeOK
  <2>2. firstLink'[m] = firstLink[m] /\ lastLink'[m] = lastLink[m]
    BY <1>5 DEF TypeOK
  <2>3. QED
    BY <2>1, <2>2, LeftAlone
<1>9. Unlinked([q EXCEPT ![l] = s])'
  <2>1. SUFFICES ASSUME NEW r \in Processes, NotIn(r, [q EXCEPT ![l] = s])
                 PROVE  nextLink'[r] = Nil
    BY DEF Unlinked
  <2>2. r # p /\ NotIn(r, q)
    BY SMTT(40), <1>2, <1>3, <2>1 DEF NotIn, Linked
  <2>3. QED
    BY <1>2, <1>5, <2>2 DEF NotIn, Linked, TypeOK
<1>10. Linked([q EXCEPT ![l] = s])'
  BY <1>6, <1>7, <1>8, <1>9, Relinked
<1>11. QED
  BY <1>1, <1>10 DEF s

\* addFirstLink:toList: puts the process in front of the queue.
LEMMA AddFirstLinkStep ==
    ASSUME TypeOK, NEW q, Linked(q), NEW p \in Processes, NEW l \in Lists,
           AddFirstLink(p, l)
    PROVE  /\ Linked([q EXCEPT ![l] = <<p>> \o q[l]])'
           /\ NotIn(p, q)
<1> DEFINE a == q[l]
           n == Len(a)
           s == <<p>> \o a
<1>1. NotIn(p, q)
  BY FreeMeans DEF AddFirstLink
<1>2. /\ a \in Seq(Processes) /\ n \in Nat /\ LinkedList(a, l)
      /\ \A i \in 1 .. n : a[i] \in Processes /\ a[i] # Nil /\ a[i] # p
      /\ \A i, j \in 1 .. n : a[i] = a[j] => i = j
  BY <1>1, Queue DEF NotIn
<1>3. /\ s \in Seq(Processes) /\ Len(s) = n + 1 /\ s[1] = p
      /\ \A i \in 2 .. n + 1 : i - 1 \in 1 .. n /\ s[i] = a[i - 1]
      /\ \A i \in 1 .. n : s[i + 1] = a[i]
  <2>1. /\ <<p>> \in Seq(Processes) /\ Len(<<p>>) = 1 /\ <<p>>[1] = p
    OBVIOUS
  <2>2. /\ s \in Seq(Processes) /\ Len(s) = 1 + n
        /\ \A i \in 1 .. 1 + n : s[i] = IF i <= 1 THEN <<p>>[i] ELSE a[i - 1]
    BY <1>2, <2>1, ConcatProperties
  <2> HIDE DEF s
  <2>3. QED
    BY SMTT(40), <1>2, <2>1, <2>2
<1>4. nextLink[p] = Nil
  BY <1>1 DEF Linked
<1>5. /\ firstLink' = [firstLink EXCEPT ![l] = p]
      /\ nextLink' = IF n = 0 THEN nextLink ELSE [nextLink EXCEPT ![p] = a[1]]
      /\ lastLink' = IF n = 0 THEN [lastLink EXCEPT ![l] = p] ELSE lastLink
      /\ myList' = [myList EXCEPT ![p] = l]
  BY <1>2 DEF AddFirstLink, LinkedList
<1> HIDE DEF s
<1>6. Fits(s, l, q)
  <2>1. ASSUME NEW i \in 1 .. n + 1, NEW j \in 1 .. n + 1, s[i] = s[j]
        PROVE  i = j
    <3>1. CASE i = 1 /\ j # 1
      BY <1>2, <1>3, <2>1, <3>1
    <3>2. CASE j = 1 /\ i # 1
      <4>1. i \in 2 .. n + 1
        BY <1>2, <3>2
      <4>2. QED
        BY <1>2, <1>3, <2>1, <3>2, <4>1
    <3>3. CASE i # 1 /\ j # 1
      <4>1. i \in 2 .. n + 1 /\ j \in 2 .. n + 1
        BY <1>2, <3>3
      <4>2. a[i - 1] = a[j - 1] /\ i - 1 \in 1 .. n /\ j - 1 \in 1 .. n
        BY <1>3, <2>1, <4>1
      <4>3. i - 1 = j - 1
        BY <1>2, <4>2
      <4>4. QED
        BY <4>3
    <3>4. QED
      BY <3>1, <3>2, <3>3
  <2>2. ASSUME NEW i \in 1 .. n + 1
        PROVE  NotIn(s[i], q) \/ \E j \in 1 .. n : s[i] = a[j]
    BY <1>1, <1>2, <1>3
  <2>3. QED
    BY <1>3, <2>1, <2>2 DEF Fits
<1>7. LinkedList(s, l)'
  <2>1. firstLink'[l] = s[1] /\ lastLink'[l] = s[Len(s)]
    <3>1. CASE n = 0
      BY <1>2, <1>3, <1>5, <3>1 DEF TypeOK
    <3>2. CASE n # 0
      BY <1>2, <1>3, <1>5, <3>2 DEF TypeOK, LinkedList
    <3>3. QED
      BY <3>1, <3>2
  <2>2. /\ nextLink'[p] = IF n = 0 THEN Nil ELSE s[2]
        /\ myList'[p] = l
    <3>1. CASE n = 0
      BY <1>4, <1>5, <3>1 DEF TypeOK
    <3>2. CASE n # 0
      <4>1. s[1 + 1] = a[1]
        BY <1>2, <1>3, <3>2
      <4>2. QED
        BY <1>5, <3>2, <4>1 DEF TypeOK
    <3>3. QED
      BY <3>1, <3>2
  <2>3. ASSUME NEW i \in 2 .. n + 1
        PROVE  /\ nextLink'[s[i]] = IF i = n + 1 THEN Nil ELSE s[i + 1]
               /\ myList'[s[i]] = l
    <3>1. i - 1 \in 1 .. n /\ s[i] = a[i - 1]
      BY <1>3
    <3>2. nextLink'[a[i - 1]] = nextLink[a[i - 1]]
          /\ myList'[a[i - 1]] = myList[a[i - 1]]
      BY <1>2, <1>5, <3>1 DEF TypeOK
    <3>3. /\ nextLink[a[i - 1]] = IF i - 1 = n THEN Nil ELSE a[(i - 1) + 1]
          /\ myList[a[i - 1]] = l
      BY <1>2, <3>1 DEF LinkedList
    <3>4. (i - 1) + 1 = i /\ (i - 1 = n <=> i = n + 1)
      BY <1>2
    <3>5. i # n + 1 => s[i + 1] = a[i]
      BY <1>2, <1>3
    <3>6. QED
      BY <3>1, <3>2, <3>3, <3>4, <3>5
  <2>4. ASSUME NEW i \in 1 .. n + 1
        PROVE  /\ nextLink'[s[i]] = IF i = n + 1 THEN Nil ELSE s[i + 1]
               /\ myList'[s[i]] = l
    BY <1>2, <1>3, <2>2, <2>3
  <2>5. QED
    BY <1>2, <1>3, <2>1, <2>4 DEF LinkedList
<1>8. ASSUME NEW m \in Lists \ {l} PROVE LinkedList(q[m], m)'
  <2>1. ASSUME NEW i \in 1 .. Len(q[m])
        PROVE  /\ nextLink'[q[m][i]] = nextLink[q[m][i]]
               /\ myList'[q[m][i]] = myList[q[m][i]]
    <3>1. q[m][i] \in Processes /\ q[m][i] # p
      BY <1>1, Queue DEF NotIn
    <3>2. QED
      BY <1>5, <3>1 DEF TypeOK
  <2>2. firstLink'[m] = firstLink[m] /\ lastLink'[m] = lastLink[m]
    BY <1>5 DEF TypeOK
  <2>3. QED
    BY <2>1, <2>2, LeftAlone
<1>9. Unlinked([q EXCEPT ![l] = s])'
  <2>1. SUFFICES ASSUME NEW r \in Processes, NotIn(r, [q EXCEPT ![l] = s])
                 PROVE  nextLink'[r] = Nil
    BY DEF Unlinked
  <2>2. r # p /\ NotIn(r, q)
    <3>1. \A i \in 1 .. n + 1 : s[i] # r
      BY <1>3, <2>1 DEF NotIn, Linked
    <3>2. ASSUME NEW m \in Lists, NEW i \in 1 .. Len(q[m]) PROVE q[m][i] # r
      <4>1. CASE m = l
        <5>1. i + 1 \in 1 .. n + 1 /\ s[i + 1] = a[i]
          BY <1>2, <1>3, <4>1
        <5>2. QED
          BY <3>1, <4>1, <5>1
      <4>2. CASE m # l
        BY <2>1, <4>2 DEF NotIn, Linked
      <4>3. QED
        BY <4>1, <4>2
    <3>3. 1 \in 1 .. n + 1
      BY <1>2
    <3>4. QED
      BY <1>3, <3>1, <3>2, <3>3 DEF NotIn
  <2>3. QED
    BY <1>5, <2>2 DEF Linked, TypeOK
<1>10. Linked([q EXCEPT ![l] = s])'
  BY <1>6, <1>7, <1>8, <1>9, Relinked
<1>11. QED
  BY <1>1, <1>10 DEF s

\* Arithmetic on the positions of a queue that loses its k-th process.
LEMMA Positions ==
    ASSUME NEW n \in Nat, NEW k \in 1 .. n, n # 1
    PROVE  /\ n - 1 # 0 /\ 1 \in 1 .. n - 1 /\ (k = 1 => ~(1 < k))
           /\ n - 1 \in 1 .. n - 1 /\ (n - 1) + 1 = n /\ (n - 1 < k <=> n = k)
OBVIOUS

\* Passing over the k-th process of a list, clearing its next link and moving
\* the first or last link when it was at that end, takes it out of the queue.
LEMMA CutLink ==
    ASSUME TypeOK, NEW q, Linked(q), NEW l \in Lists, NEW k \in 1 .. Len(q[l]),
           firstLink' = IF k = 1
                        THEN [firstLink EXCEPT ![l] = nextLink[q[l][1]]]
                        ELSE firstLink,
           lastLink' = [lastLink EXCEPT ![l] =
                           IF @ = q[l][k] THEN IF k = 1 THEN Nil ELSE q[l][k - 1]
                           ELSE @],
           nextLink' = [z \in Processes |->
                           IF z = q[l][k] THEN Nil
                           ELSE IF k # 1 /\ z = q[l][k - 1] THEN nextLink[q[l][k]]
                           ELSE nextLink[z]],
           \A z \in Processes \ {q[l][k]} : myList'[z] = myList[z]
    PROVE  Linked([q EXCEPT ![l] = Without(q[l], k)])'
<1> DEFINE a == q[l]
           n == Len(a)
           s == Without(a, k)
<1>1. /\ a \in Seq(Processes) /\ n \in Nat /\ LinkedList(a, l)
      /\ \A i \in 1 .. n : a[i] \in Processes /\ a[i] # Nil
      /\ \A i, j \in 1 .. n : a[i] = a[j] => i = j
  BY Queue
<1>2. k \in Nat /\ k >= 1 /\ k <= n /\ n \in Nat /\ n >= 1
  BY <1>1
<1>3. /\ s \in Seq(Processes) /\ Len(s) = n - 1
      /\ \A i \in 1 .. n - 1 : s[i] = IF i < k THEN a[i] ELSE a[i + 1]
  BY <1>1, WithoutElements
<1> HIDE DEF s
<1>4. \A i \in 1 .. n - 1 : /\ i < k => i \in 1 .. n /\ i # k
                            /\ ~(i < k) => i + 1 \in 1 .. n /\ i + 1 # k
  BY <1>1, <1>2
<1>5. Fits(s, l, q)
  <2>1. ASSUME NEW i \in 1 .. n - 1, NEW j \in 1 .. n - 1, s[i] = s[j]
        PROVE  i = j
    <3>1. CASE i < k /\ j < k
      BY <1>1, <1>3, <1>4, <2>1, <3>1
    <3>2. CASE i < k /\ ~(j < k)
      <4>1. i = j + 1
        BY <1>1, <1>3, <1>4, <2>1, <3>2
      <4>2. QED
        BY <1>2, <3>2, <4>1
    <3>3. CASE ~(i < k) /\ j < k
      <4>1. i + 1 = j
        BY <1>1, <1>3, <1>4, <2>1, <3>3
      <4>2. QED
        BY <1>2, <3>3, <4>1
    <3>4. CASE ~(i < k) /\ ~(j < k)
      <4>1. i + 1 = j + 1
        BY <1>1, <1>3, <1>4, <2>1, <3>4
      <4>2. QED
        BY <4>1
    <3>5. QED
      BY <3>1, <3>2, <3>3, <3>4
  <2>2. ASSUME NEW i \in 1 .. n - 1
        PROVE  \E j \in 1 .. n : s[i] = a[j]
    BY <1>3, <1>4
  <2>3. QED
    BY <1>3, <2>1, <2>2 DEF Fits
<1>6. firstLink'[l] = IF n - 1 = 0 THEN Nil ELSE s[1]
  <2>1. firstLink[l] = a[1]
    BY <1>1, <1>2 DEF LinkedList
  <2>2. CASE k = 1
    <3>1. firstLink'[l] = nextLink[a[1]]
      BY <2>2 DEF TypeOK
    <3>2. nextLink[a[1]] = IF 1 = n THEN Nil ELSE a[1 + 1]
      <4>1. 1 \in 1 .. n
        BY <1>2
      <4>2. QED
        BY <1>1, <4>1 DEF LinkedList
    <3>3. n # 1 => s[1] = a[1 + 1]
      <4>1. n # 1 => 1 \in 1 .. n - 1 /\ ~(1 < k)
        BY <1>2, <2>2, Positions
      <4>2. QED
        BY <1>3, <4>1
    <3>4. QED
      BY <1>2, <3>1, <3>2, <3>3
  <2>3. CASE k # 1
    BY <1>1, <1>2, <1>3, <2>1, <2>3
  <2>4. QED
    BY <2>2, <2>3
<1>7. lastLink'[l] = IF n - 1 = 0 THEN Nil ELSE s[n - 1]
  <2>1. lastLink[l] = a[n]
    BY <1>1, <1>2 DEF LinkedList
  <2>2. a[n] = a[k] <=> n = k
    BY <1>1, <1>2
  <2>3. lastLink'[l] = IF n = k THEN IF k = 1 THEN Nil ELSE a[k - 1] ELSE a[n]
    BY <2>1, <2>2 DEF TypeOK
  <2>4. n # 1 => s[n - 1] = IF n = k THEN a[k - 1] ELSE a[n]
    <3>1. SUFFICES ASSUME n # 1
                   PROVE  s[n - 1] = IF n = k THEN a[k - 1] ELSE a[n]
      OBVIOUS
    <3>2. n - 1 \in 1 .. n - 1 /\ (n - 1) + 1 = n /\ (n - 1 < k <=> n = k)
      BY <1>2, <3>1, Positions
    <3>3. QED
      BY <1>3, <3>2
  <2>5. CASE n = 1
    BY <1>2, <2>3, <2>5
  <2>6. CASE n # 1
    BY <1>2, <2>3, <2>4, <2>6, Positions
  <2>7. QED
    BY <2>5, <2>6
<1>8. ASSUME NEW i \in 1 .. n - 1
      PROVE  nextLink'[s[i]] = IF i = n - 1 THEN Nil ELSE s[i + 1]
  <2>1. \A j \in 1 .. n : nextLink[a[j]] = IF j = n THEN Nil ELSE a[j + 1]
    BY <1>1 DEF LinkedList
  <2>2. \A j \in 1 .. n :
           nextLink'[a[j]] = IF j = k THEN Nil
                             ELSE IF k # 1 /\ j = k - 1 THEN nextLink[a[k]]
                             ELSE nextLink[a[j]]
    <3>1. SUFFICES ASSUME NEW j \in 1 .. n
                   PROVE  nextLink'[a[j]] = IF j = k THEN Nil
                             ELSE IF k # 1 /\ j = k - 1 THEN nextLink[a[k]]
                             ELSE nextLink[a[j]]
      OBVIOUS
    <3>2. a[j] = a[k] <=> j = k
      BY <1>1
    <3>3. k # 1 => (a[j] = a[k - 1] <=> j = k - 1)
      <4>1. k # 1 => k - 1 \in 1 .. n
        BY <1>1, <1>2
      <4>2. QED
        BY <1>1, <4>1
    <3>4. a[j] \in Processes
      BY <1>1
    <3>5. QED
      BY <3>2, <3>3, <3>4
  <2>3. CASE i < k - 1
    <3>1. i \in 1 .. n /\ i # k /\ i # k - 1 /\ i # n /\ i # n - 1
      BY <1>1, <1>2, <2>3
    <3>2. s[i] = a[i] /\ s[i + 1] = a[i + 1]
      <4>1. i + 1 \in 1 .. n - 1 /\ i < k /\ i + 1 < k
        BY <1>1, <1>2, <2>3
      <4>2. QED
        BY <1>3, <4>1
    <3>3. QED
      BY <2>1, <2>2, <3>1, <3>2
  <2>4. CASE i = k - 1
    <3>1. i \in 1 .. n /\ i # k /\ k # 1 /\ (i = n - 1 <=> k = n) /\ i + 1 = k
      BY <1>1, <1>2, <2>4
    <3>2. s[i] = a[k - 1]
      BY <1>2, <1>3, <2>4
    <3>3. nextLink'[s[i]] = nextLink[a[k]]
      BY <2>2, <2>4, <3>1, <3>2
    <3>4. k # n => s[k] = a[k + 1]
      BY <1>1, <1>2, <1>3
    <3>5. nextLink[a[k]] = IF k = n THEN Nil ELSE a[k + 1]
      BY <2>1
    <3>6. QED
      BY <3>1, <3>3, <3>4, <3>5
  <2>5. CASE i > k - 1
    <3>1. /\ i + 1 \in 1 .. n /\ i + 1 # k /\ i + 1 # k - 1
          /\ (i = n - 1 <=> i + 1 = n) /\ ~(i < k)
      BY <1>2, <2>5
    <3>2. s[i] = a[i + 1]
      BY <1>3, <3>1
    <3>3. i # n - 1 => s[i + 1] = a[(i + 1) + 1]
      BY SMTT(40), <1>1, <1>2, <1>3, <3>1
    <3>4. nextLink'[a[i + 1]] = nextLink[a[i + 1]]
      BY <2>2, <3>1
    <3>5. nextLink[a[i + 1]] = IF i + 1 = n THEN Nil ELSE a[(i + 1) + 1]
      BY <2>1, <3>1
    <3>6. QED
      BY <3>1, <3>2, <3>3, <3>4, <3>5
  <2>6. QED
    BY <1>2, <2>3, <2>4, <2>5
<1>9. ASSUME NEW i \in 1 .. n - 1 PROVE myList'[s[i]] = l
  <2>1. PICK j \in 1 .. n : s[i] = a[j] /\ j # k
    BY <1>3, <1>4
  <2>2. a[j] \in Processes \ {a[k]} /\ myList[a[j]] = l
    BY <1>1, <2>1 DEF LinkedList
  <2>3. QED
    BY <2>1, <2>2
<1>10. LinkedList(s, l)'
  BY <1>3, <1>6, <1>7, <1>8, <1>9 DEF LinkedList
<1>11. ASSUME NEW m \in Lists \ {l} PROVE LinkedList(q[m], m)'
  <2>1. ASSUME NEW i \in 1 .. Len(q[m])
        PROVE  /\ nextLink'[q[m][i]] = nextLink[q[m][i]]
               /\ myList'[q[m][i]] = myList[q[m][i]]
    <3>1. q[m][i] \in Processes /\ q[m][i] # a[k]
      BY Queue, Elsewhere
    <3>2. k # 1 => q[m][i] # a[k - 1]
      <4>1. k # 1 => k - 1 \in 1 .. n
        BY <1>1, <1>2
      <4>2. QED
        BY <4>1, Elsewhere
    <3>3. QED
      BY <3>1, <3>2
  <2>2. firstLink'[m] = firstLink[m] /\ lastLink'[m] = lastLink[m]
    BY DEF TypeOK
  <2>3. QED
    BY <2>1, <2>2, LeftAlone
<1>12. Unlinked([q EXCEPT ![l] = s])'
  <2>1. SUFFICES ASSUME NEW r \in Processes, NotIn(r, [q EXCEPT ![l] = s])
                 PROVE  nextLink'[r] = Nil
    BY DEF Unlinked
  <2>2. CASE r = a[k]
    BY <2>2
  <2>3. CASE r # a[k]
    <3>1. \A i \in 1 .. n - 1 : s[i] # r
      BY <1>3, <2>1 DEF NotIn, Linked
    <3>2. ASSUME NEW i \in 1 .. n PROVE a[i] # r
      <4>1. CASE i < k
        <5>1. i \in 1 .. n - 1 /\ s[i] = a[i]
          BY <1>1, <1>2, <1>3, <4>1
        <5>2. QED
          BY <3>1, <5>1
      <4>2. CASE i = k
        BY <2>3, <4>2
      <4>3. CASE i > k
        <5>1. i - 1 \in 1 .. n - 1 /\ ~(i - 1 < k) /\ (i - 1) + 1 = i
          BY <1>1, <1>2, <4>3
        <5>2. s[i - 1] = a[i]
          BY <1>3, <5>1
        <5>3. QED
          BY <3>1, <5>1, <5>2
      <4>4. QED
        BY <1>2, <4>1, <4>2, <4>3
    <3>3. ASSUME NEW m \in Lists \ {l}, NEW i \in 1 .. Len(q[m])
          PROVE  q[m][i] # r
      BY <2>1 DEF NotIn, Linked
    <3>4. NotIn(r, q)
      BY <3>2, <3>3 DEF NotIn
    <3>5. nextLink[r] = Nil
      BY <3>4 DEF Linked
    <3>6. k # 1 => r # a[k - 1]
      <4>1. k # 1 => k - 1 \in 1 .. n
        BY <1>1, <1>2
      <4>2. QED
        BY <3>2, <4>1
    <3>7. QED
      BY <2>3, <3>5, <3>6
  <2>4. QED
    BY <2>2, <2>3
<1>13. Linked([q EXCEPT ![l] = s])'
  BY <1>5, <1>10, <1>11, <1>12, Relinked
<1>14. QED
  BY <1>13 DEF s

\* removeFirstLinkOfList: takes the first process out of the queue.
LEMMA RemoveFirstLinkStep ==
    ASSUME TypeOK, NEW q, Linked(q), NEW l \in Lists, RemoveFirstLink(l)
    PROVE  /\ Linked([q EXCEPT ![l] = Tail(q[l])])'
           /\ Len(q[l]) # 0
<1> DEFINE a == q[l]
           n == Len(a)
<1>1. /\ a \in Seq(Processes) /\ n \in Nat /\ LinkedList(a, l)
      /\ \A i \in 1 .. n : a[i] \in Processes /\ a[i] # Nil
      /\ \A i, j \in 1 .. n : a[i] = a[j] => i = j
  BY Queue
<1>2. n # 0 /\ firstLink[l] = a[1] /\ lastLink[l] = a[n]
  BY <1>1 DEF RemoveFirstLink, LinkedList
<1>3. 1 \in 1 .. n /\ n \in 1 .. n
  BY <1>1, <1>2
<1>4. nextLink[a[1]] = IF n = 1 THEN Nil ELSE a[2]
  <2>1. nextLink[a[1]] = IF 1 = n THEN Nil ELSE a[1 + 1]
    BY <1>1, <1>3 DEF LinkedList
  <2>2. QED
    BY <2>1
<1>5. firstLink' = [firstLink EXCEPT ![l] = nextLink[a[1]]]
  BY <1>1, <1>2, <1>3, <1>4 DEF RemoveFirstLink
<1>6. lastLink' = [lastLink EXCEPT ![l] = IF @ = a[1] THEN Nil ELSE @]
  <2>1. CASE a[1] = a[n]
    BY <1>2, <2>1 DEF RemoveFirstLink, TypeOK
  <2>2. CASE a[1] # a[n]
    BY <1>2, <2>2 DEF RemoveFirstLink, TypeOK
  <2>3. QED
    BY <2>1, <2>2
<1>7. nextLink' = [z \in Processes |-> IF z = a[1] THEN Nil ELSE nextLink[z]]
  BY <1>2 DEF RemoveFirstLink, TypeOK
<1>8. myList' = myList
  BY DEF RemoveFirstLink
<1>9. Linked([q EXCEPT ![l] = Without(a, 1)])'
  BY <1>3, <1>5, <1>6, <1>7, <1>8, CutLink
<1>10. Without(a, 1) = Tail(a)
  <2>1. /\ Without(a, 1) \in Seq(Processes) /\ Len(Without(a, 1)) = n - 1
        /\ \A i \in 1 .. n - 1 : Without(a, 1)[i] = IF i < 1 THEN a[i] ELSE a[i + 1]
    BY <1>1, <1>3, WithoutElements
  <2>2. /\ Tail(a) \in Seq(Processes) /\ Len(Tail(a)) = n - 1
        /\ \A i \in 1 .. n - 1 : Tail(a)[i] = a[i + 1]
    BY <1>1, <1>2
  <2>3. \A i \in 1 .. n - 1 : Without(a, 1)[i] = Tail(a)[i]
    BY <2>1, <2>2
  <2>4. QED
    BY <2>1, <2>2, <2>3, SeqEqual
<1>11. QED
  BY <1>2, <1>9, <1>10

\* removeProcess:fromList: takes the process out of the queue, wherever it is;
\* the walk finds the one process in front of it.
LEMMA PrimitiveSuspendStep ==
    ASSUME TypeOK, NEW q, Linked(q), NEW p \in Processes, PrimitiveSuspend(p),
           NEW l \in Lists, myList[p] = l
    PROVE  \E k \in 1 .. Len(q[l]) :
              q[l][k] = p /\ Linked([q EXCEPT ![l] = Without(q[l], k)])'
<1> DEFINE a == q[l]
           n == Len(a)
<1>1. RemoveProcess(p, l) /\ myList' = [myList EXCEPT ![p] = Nil]
  BY DEF PrimitiveSuspend
<1>2. /\ a \in Seq(Processes) /\ n \in Nat /\ LinkedList(a, l)
      /\ \A i \in 1 .. n : a[i] \in Processes /\ a[i] # Nil
      /\ \A i, j \in 1 .. n : a[i] = a[j] => i = j
  BY Queue
<1>3. \A z \in Processes \ {p} : myList'[z] = myList[z]
  BY <1>1 DEF TypeOK
<1>4. CASE firstLink[l] = p
  <2>1. n # 0 /\ a[1] = p /\ 1 \in 1 .. n
    BY <1>2, <1>4, NilAssumption DEF LinkedList
  <2>2. /\ firstLink' = [firstLink EXCEPT ![l] = nextLink[a[1]]]
        /\ lastLink' = [lastLink EXCEPT ![l] = IF @ = a[1] THEN Nil ELSE @]
        /\ nextLink' = [z \in Processes |-> IF z = a[1] THEN Nil ELSE nextLink[z]]
    BY <1>1, <1>4, <2>1 DEF RemoveProcess
  <2>3. Linked([q EXCEPT ![l] = Without(a, 1)])'
    <3>1. \A z \in Processes \ {a[1]} : myList'[z] = myList[z]
      BY <1>3, <2>1
    <3>2. QED
      BY <2>1, <2>2, <3>1, CutLink
  <2>4. QED
    BY <2>1, <2>3
<1>5. CASE firstLink[l] # p
  <2>1. PICK z \in Predecessor(p, l) :
           lastLink' = [lastLink EXCEPT ![l] = IF @ = p THEN z ELSE @]
    BY <1>1, <1>5 DEF RemoveProcess
  <2>2. PICK j \in 1 .. n : a[j] = z
    BY <2>1, OnListMeans DEF Predecessor
  <2>3. j # n /\ a[j + 1] = p
    BY <1>2, <2>1, <2>2, NilAssumption DEF Predecessor, LinkedList
  <2>4. j + 1 \in 1 .. n /\ (j + 1) - 1 = j /\ j + 1 # 1
    BY <1>2, <2>3
  <2>5. Predecessor(p, l) = {a[j]}
    <3>1. SUFFICES ASSUME NEW x \in Predecessor(p, l) PROVE x = a[j]
      BY <2>1, <2>2
    <3>2. PICK i \in 1 .. n : a[i] = x
      BY OnListMeans DEF Predecessor
    <3>3. i # n /\ a[i + 1] = p
      BY <1>2, <3>2, NilAssumption DEF Predecessor, LinkedList
    <3>4. i + 1 \in 1 .. n
      BY <1>2, <3>3
    <3>5. i + 1 = j + 1
      BY <1>2, <2>3, <2>4, <3>3, <3>4
    <3>6. QED
      BY <3>2, <3>5
  <2>6. firstLink' = firstLink
    BY <1>1, <1>5 DEF RemoveProcess
  <2>7. nextLink' = [x \in Processes |->
                       IF x = p THEN Nil
                       ELSE IF x = a[j] THEN nextLink[p] ELSE nextLink[x]]
    BY <1>1, <1>5, <2>5 DEF RemoveProcess
  <2> DEFINE k == j + 1
  <2>8. /\ k \in 1 .. n /\ k # 1 /\ a[k] = p /\ a[k - 1] = a[j]
    BY <2>3, <2>4
  <2> HIDE DEF k
  <2>9. /\ firstLink' = IF k = 1
                        THEN [firstLink EXCEPT ![l] = nextLink[a[1]]]
                        ELSE firstLink
        /\ lastLink' = [lastLink EXCEPT ![l] =
                           IF @ = a[k] THEN IF k = 1 THEN Nil ELSE a[k - 1]
                           ELSE @]
        /\ nextLink' = [x \in Processes |->
                           IF x = a[k] THEN Nil
                           ELSE IF k # 1 /\ x = a[k - 1] THEN nextLink[a[k]]
                           ELSE nextLink[x]]
    BY <2>1, <2>2, <2>6, <2>7, <2>8
  <2>10. \A x \in Processes \ {a[k]} : myList'[x] = myList[x]
    BY <1>3, <2>8
  <2>11. Linked([q EXCEPT ![l] = Without(a, k)])'
    BY <2>8, <2>9, <2>10, CutLink
  <2>12. QED
    BY <2>8, <2>11
<1>6. QED
  BY <1>4, <1>5

\* transferTo: changes no queue: it clears the back pointer of a process that is
\* in none.
LEMMA TransferToStep ==
    ASSUME TypeOK, NEW q, Linked(q), NEW p \in Processes, TransferTo(p)
    PROVE  Linked(q)'
<1>1. NotIn(p, q)
  BY FreeMeans DEF TransferTo
<1>2. ASSUME NEW l \in Lists, NEW i \in 1 .. Len(q[l])
      PROVE  myList'[q[l][i]] = myList[q[l][i]]
  <2>1. q[l][i] \in Processes /\ q[l][i] # p
    BY <1>1, Queue DEF NotIn
  <2>2. QED
    BY <2>1 DEF TransferTo, TypeOK
<1>3. QED
  BY <1>2 DEF TransferTo, Linked

-----------------------------------------------------------------------------
\* The inductive invariant: the links describe some queues.
IInv == TypeOK /\ \E q : Linked(q)

\* At the start the links describe empty queues.
LEMMA LinkedInit == Init => Linked([l \in Lists |-> <<>>])
<1> SUFFICES ASSUME Init PROVE Linked([l \in Lists |-> <<>>])
  OBVIOUS
<1> DEFINE e == [l \in Lists |-> <<>>]
<1>1. e \in [Lists -> Seq(Processes)] /\ \A l \in Lists : Len(e[l]) = 0
  OBVIOUS
<1>2. \A l \in Lists : 1 .. Len(e[l]) = {}
  BY <1>1
<1>3. \A l \in Lists : firstLink[l] = Nil /\ lastLink[l] = Nil
  BY DEF Init
<1>4. \A p \in Processes : nextLink[p] = Nil
  BY DEF Init
<1> HIDE DEF e
<1>5. Linked(e)
  BY <1>1, <1>2, <1>3, <1>4 DEF Linked, Apart
<1>6. QED
  BY <1>5 DEF e

\* Every step keeps the types.
LEMMA TypeNext == TypeOK /\ [Next]_vars => TypeOK'
<1> SUFFICES ASSUME TypeOK, [Next]_vars PROVE TypeOK'
  OBVIOUS
<1>1. ASSUME NEW l \in Lists, RemoveFirstLink(l) PROVE TypeOK'
  <2>1. firstLink[l] \in Processes
    BY <1>1 DEF RemoveFirstLink, TypeOK
  <2>2. QED
    BY <1>1, <2>1 DEF RemoveFirstLink, TypeOK
<1>2. ASSUME NEW l \in Lists, NEW p \in Processes, AddLastLink(p, l) PROVE TypeOK'
  BY <1>2 DEF AddLastLink, TypeOK
<1>3. ASSUME NEW l \in Lists, NEW p \in Processes, AddFirstLink(p, l) PROVE TypeOK'
  BY <1>3 DEF AddFirstLink, TypeOK
<1>4. ASSUME NEW p \in Processes, PrimitiveSuspend(p) PROVE TypeOK'
  <2>1. myList' \in [Processes -> Lists \cup {Nil}]
    BY <1>4 DEF PrimitiveSuspend, TypeOK
  <2>2. nextLink' \in [Processes -> Processes \cup {Nil}]
    BY <1>4 DEF PrimitiveSuspend, RemoveProcess, TypeOK
  <2>3. firstLink' \in [Lists -> Processes \cup {Nil}]
    BY <1>4 DEF PrimitiveSuspend, RemoveProcess, TypeOK
  <2>4. lastLink' \in [Lists -> Processes \cup {Nil}]
    <3>1. Predecessor(p, myList[p]) \subseteq Processes
      BY DEF Predecessor
    <3>2. QED
      BY <1>4, <3>1 DEF PrimitiveSuspend, RemoveProcess, TypeOK
  <2>5. QED
    BY <2>1, <2>2, <2>3, <2>4 DEF TypeOK
<1>5. ASSUME NEW p \in Processes, TransferTo(p) PROVE TypeOK'
  BY <1>5 DEF TransferTo, TypeOK
<1>6. CASE UNCHANGED vars
  BY <1>6 DEF vars, TypeOK
<1>7. QED
  BY <1>1, <1>2, <1>3, <1>4, <1>5, <1>6 DEF Next

\* A step that changes nothing keeps the links.
LEMMA StutterLinked ==
    ASSUME NEW q, Linked(q), UNCHANGED vars PROVE Linked(q)'
BY DEF vars, Linked

\* The queues r are reached from q by a step of ProcessQueues, or are q.
QueuesStep(q, r) ==
    \/ r = q
    \/ \E l \in Lists :
          \/ Len(q[l]) # 0 /\ r = [q EXCEPT ![l] = Tail(q[l])]
          \/ \E p \in Processes :
                \/ NotIn(p, q) /\ r = [q EXCEPT ![l] = Append(q[l], p)]
                \/ NotIn(p, q) /\ r = [q EXCEPT ![l] = <<p>> \o q[l]]
                \/ \E k \in 1 .. Len(q[l]) :
                      q[l][k] = p /\ r = [q EXCEPT ![l] = Without(q[l], k)]

\* Every step takes links that describe queues to links that describe the queues
\* a step of ProcessQueues reaches.
LEMMA LinkedNext ==
    ASSUME TypeOK, NEW q, Linked(q), [Next]_vars
    PROVE  \E r : QueuesStep(q, r) /\ Linked(r)'
<1>1. ASSUME NEW l \in Lists, RemoveFirstLink(l)
      PROVE  \E r : QueuesStep(q, r) /\ Linked(r)'
  <2> DEFINE r == [q EXCEPT ![l] = Tail(q[l])]
  <2>1. Linked(r)' /\ Len(q[l]) # 0
    BY <1>1, RemoveFirstLinkStep
  <2>2. QueuesStep(q, r)
    BY <2>1 DEF QueuesStep
  <2>3. QED
    BY <2>1, <2>2
<1>2. ASSUME NEW l \in Lists, NEW p \in Processes, AddLastLink(p, l)
      PROVE  \E r : QueuesStep(q, r) /\ Linked(r)'
  <2> DEFINE r == [q EXCEPT ![l] = Append(q[l], p)]
  <2>1. Linked(r)' /\ NotIn(p, q)
    BY <1>2, AddLastLinkStep
  <2>2. QueuesStep(q, r)
    BY <2>1 DEF QueuesStep
  <2>3. QED
    BY <2>1, <2>2
<1>3. ASSUME NEW l \in Lists, NEW p \in Processes, AddFirstLink(p, l)
      PROVE  \E r : QueuesStep(q, r) /\ Linked(r)'
  <2> DEFINE r == [q EXCEPT ![l] = <<p>> \o q[l]]
  <2>1. Linked(r)' /\ NotIn(p, q)
    BY <1>3, AddFirstLinkStep
  <2>2. QueuesStep(q, r)
    BY <2>1 DEF QueuesStep
  <2>3. QED
    BY <2>1, <2>2
<1>4. ASSUME NEW p \in Processes, PrimitiveSuspend(p)
      PROVE  \E r : QueuesStep(q, r) /\ Linked(r)'
  <2>1. PICK l \in Lists : myList[p] = l
    BY <1>4 DEF PrimitiveSuspend, TypeOK
  <2>2. PICK k \in 1 .. Len(q[l]) :
           q[l][k] = p /\ Linked([q EXCEPT ![l] = Without(q[l], k)])'
    BY <1>4, <2>1, PrimitiveSuspendStep
  <2> DEFINE r == [q EXCEPT ![l] = Without(q[l], k)]
  <2>3. QueuesStep(q, r)
    BY <2>2 DEF QueuesStep
  <2>4. QED
    BY <2>2, <2>3
<1>5. ASSUME NEW p \in Processes, TransferTo(p)
      PROVE  \E r : QueuesStep(q, r) /\ Linked(r)'
  <2>1. Linked(q)'
    BY <1>5, TransferToStep
  <2>2. QueuesStep(q, q)
    BY DEF QueuesStep
  <2>3. QED
    BY <2>1, <2>2
<1>6. CASE UNCHANGED vars
  <2>1. Linked(q)'
    BY <1>6, StutterLinked
  <2>2. QueuesStep(q, q)
    BY DEF QueuesStep
  <2>3. QED
    BY <2>1, <2>2
<1>7. QED
  BY <1>1, <1>2, <1>3, <1>4, <1>5, <1>6 DEF Next

\* The invariant of the proofs holds in every reachable state: after any mix of
\* additions at either end, removals from either routine, removals that fail and
\* clearings of back pointers, the links still describe queues.
THEOREM Inductive == Spec => []IInv
<1>1. Init => IInv
  <2>1. Init => TypeOK
    BY DEF Init, TypeOK
  <2>2. QED
    BY <2>1, LinkedInit DEF IInv
<1>2. IInv /\ [Next]_vars => IInv'
  <2> SUFFICES ASSUME IInv, [Next]_vars PROVE IInv'
    OBVIOUS
  <2>1. TypeOK'
    BY TypeNext DEF IInv
  <2>2. PICK q : Linked(q)
    BY DEF IInv
  <2>3. PICK r : QueuesStep(q, r) /\ Linked(r)'
    BY <2>2, LinkedNext DEF IInv
  <2>4. QED
    BY <2>1, <2>3 DEF IInv
<1>3. QED
  BY <1>1, <1>2, PTL DEF Spec

\* The links stay links: Nil, a process or, for a back pointer, a list.
THEOREM TypeCorrect == Spec => []TypeOK
<1>1. IInv => TypeOK
  BY DEF IInv
<1>2. QED
  BY <1>1, Inductive, PTL

\* addLastLink:, addFirstLink:, removeFirstLinkOfList: and removeProcess:fromList:
\* keep the last link at the end of the chain from the first, and the back pointer
\* of every process of the chain at its list.
THEOREM WellFormed == Spec => []ListsWellFormed
<1>1. IInv => ListsWellFormed
  <2> SUFFICES ASSUME IInv, NEW l \in Lists
               PROVE  /\ lastLink[l] = IF Chain(l) = <<>> THEN Nil
                                       ELSE Chain(l)[Len(Chain(l))]
                      /\ \A k \in DOMAIN Chain(l) : myList[Chain(l)[k]] = l
    BY DEF ListsWellFormed
  <2>1. PICK q : Linked(q)
    BY DEF IInv
  <2>2. Chain(l) = q[l] /\ q[l] \in Seq(Processes) /\ LinkedList(q[l], l)
    BY <2>1, ChainIs, Queue
  <2>3. q[l] = <<>> <=> Len(q[l]) = 0
    BY <2>2
  <2>4. DOMAIN q[l] = 1 .. Len(q[l])
    BY <2>2
  <2>5. QED
    BY <2>2, <2>3, <2>4 DEF LinkedList
<1>2. QED
  BY <1>1, Inductive, PTL

\* The assertion of addLastLink:toList: and addFirstLink:toList: holds: a process
\* on no list has no next link.
THEOREM FreeUnlinked == Spec => []FreeIsUnlinked
<1>1. IInv => FreeIsUnlinked
  <2> SUFFICES ASSUME IInv, NEW p \in Processes, Free(p) PROVE nextLink[p] = Nil
    BY DEF FreeIsUnlinked
  <2>1. PICK q : Linked(q)
    BY DEF IInv
  <2>2. NotIn(p, q)
    BY <2>1, FreeMeans
  <2>3. QED
    BY <2>1, <2>2 DEF Linked
<1>2. QED
  BY <1>1, Inductive, PTL

\* The value ProcessQueues' variable has in this module.
Chains == [l \in Lists |-> Chain(l)]

\* The value of ProcessQueues' variable is the queues the links describe.
LEMMA ChainsAre == \A q : Linked(q) => Chains = q
<1> SUFFICES ASSUME NEW q, Linked(q) PROVE Chains = q
  OBVIOUS
<1>1. q \in [Lists -> Seq(Processes)]
  BY DEF Linked
<1>2. \A l \in Lists : Chain(l) = q[l]
  BY ChainIs
<1>3. QED
  BY <1>1, <1>2 DEF Chains

\* What a step of the queues is, in the words of ProcessQueues.
LEMMA QueuesNext ==
    ASSUME NEW q \in [Lists -> Seq(Processes)], NEW r, QueuesStep(q, r),
           Chains = q, Chains' = r
    PROVE  [Queues!Next]_Chains
<1>1. CASE r = q
  BY <1>1
<1>2. ASSUME NEW l \in Lists, Len(q[l]) # 0, r = [q EXCEPT ![l] = Tail(q[l])]
      PROVE  Queues!Next
  <2>1. q[l] # <<>>
    BY <1>2
  <2>2. Queues!RemoveFirst(l)
    BY <1>2, <2>1 DEF Queues!RemoveFirst, Chains
  <2>3. QED
    BY <2>2 DEF Queues!Next
<1>3. ASSUME NEW p, NotIn(p, q) PROVE ~Queues!Queued(p)
  BY <1>3 DEF Queues!Queued, Queues!In, NotIn, Chains
<1>4. ASSUME NEW l \in Lists, NEW p \in Processes, NotIn(p, q),
             r = [q EXCEPT ![l] = Append(q[l], p)]
      PROVE  Queues!Next
  <2>1. Queues!AddLast(p, l)
    BY <1>3, <1>4 DEF Queues!AddLast, Chains
  <2>2. QED
    BY <2>1 DEF Queues!Next
<1>5. ASSUME NEW l \in Lists, NEW p \in Processes, NotIn(p, q),
             r = [q EXCEPT ![l] = <<p>> \o q[l]]
      PROVE  Queues!Next
  <2>1. Queues!AddFirst(p, l)
    BY <1>3, <1>5 DEF Queues!AddFirst, Chains
  <2>2. QED
    BY <2>1 DEF Queues!Next
<1>6. ASSUME NEW l \in Lists, NEW p \in Processes, NEW k \in 1 .. Len(q[l]),
             q[l][k] = p, r = [q EXCEPT ![l] = Without(q[l], k)]
      PROVE  Queues!Next
  <2>1. k \in DOMAIN q[l] /\ Chains[l] = q[l]
    BY <1>6
  <2>2. Chains' = [Chains EXCEPT ![l] = Without(Chains[l], k)]
    BY <1>6, <2>1
  <2>3. Queues!Remove(p, l)
    BY <1>6, <2>1, <2>2 DEF Queues!Remove, Chains, Without
  <2>4. QED
    BY <2>3 DEF Queues!Next
<1>7. QED
  BY <1>1, <1>2, <1>4, <1>5, <1>6 DEF QueuesStep

\* The linked lists implement the queues: adding and removing links is adding to
\* and removing from FIFO queues, for any number of processes and lists.
THEOREM Implementation == Spec => LinksImplementQueues
<1>1. Init => Queues!Init
  <2> SUFFICES ASSUME Init PROVE Chains = [l \in Lists |-> <<>>]
    BY DEF Queues!Init, Chains
  <2>1. QED
    BY LinkedInit, ChainsAre
<1>2. (\A q : Linked(q) => Chains = q)'
  <2>1. \A q : Linked(q) => Chains = q
    BY ChainsAre
  <2>2. QED
    BY <2>1, PTL
<1>3. IInv /\ [Next]_vars => [Queues!Next]_Chains
  <2> SUFFICES ASSUME IInv, [Next]_vars PROVE [Queues!Next]_Chains
    OBVIOUS
  <2>1. PICK q : Linked(q)
    BY DEF IInv
  <2>2. PICK r : QueuesStep(q, r) /\ Linked(r)'
    BY <2>1, LinkedNext DEF IInv
  <2>3. Chains = q /\ q \in [Lists -> Seq(Processes)]
    BY <2>1, ChainsAre DEF Linked
  <2>4. Chains' = r
    BY <1>2, <2>2
  <2>5. QED
    BY <2>2, <2>3, <2>4, QueuesNext
<1>4. QED
  BY <1>1, <1>3, Inductive, PTL DEF Spec, LinksImplementQueues, Queues!Spec, Chains

=============================================================================
