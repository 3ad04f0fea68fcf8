-------------------- MODULE ProcessSchedulerPlaces_proofs --------------------
(***************************************************************************)
(* Theorems about where the processes of ProcessScheduler are, for any     *)
(* number of processes, semaphores, sections and priorities: each is in    *)
(* one place, the active one is of the highest priority, there is always   *)
(* one to run, a critical section with waiters has an owner, the only      *)
(* process inside it, and a preempted process keeps its turn.              *)
(*                                                                         *)
(* They are one inductive invariant, Settled, beside Good.  While the      *)
(* active process makes way it is on a list and still active: Leaving is   *)
(* what holds then, and SwitchToHighest makes Settled of it.               *)
(***************************************************************************)
EXTENDS ProcessScheduler_proofs

-----------------------------------------------------------------------------
(* The inductive invariant.                                                *)

\* A sequence in which nothing is twice.
Distinct(seq) == \A j, k \in DOMAIN seq : seq[j] = seq[k] => j = k

\* Waiters are on these lists.
WaitLists == Semaphores \cup CriticalSections

Placed(s) ==
    /\ \A l \in Lists : Distinct(s.queue[l])
    /\ \A l \in Lists : \A p \in Elements(s.queue[l]) :
          /\ s.myList[p] = l
          /\ l \in Priorities => priority[p] = l

OnNoList(s, p) == \A l \in Lists : p \notin Elements(s.queue[l])

\* A process that has a context, or stops running, is on the list it waits on.
Waits(s, p) ==
    \A l \in WaitLists : (s.context[p] \/ s.active = p) /\ s.myList[p] = l =>
       p \in Elements(s.queue[l])

\* Waiters, and the processes of Idle's priority, can be run.
Alive(s) ==
    \A l \in WaitLists \cup {priority[Idle]} : \A p \in Elements(s.queue[l]) :
       s.context[p] \/ p = s.active

IsRunning(s) ==
    /\ s.active \in Processes /\ ~s.context[s.active]
    /\ s.answering[s.active] = {}

IdleRuns(s) == \/ s.active = Idle
               \/ s.context[Idle] /\ Idle \in Elements(s.queue[priority[Idle]])

Highest(s) ==
    \A l \in Priorities : l > priority[s.active] => s.queue[l] = <<>>

Owned(s) ==
    \A cs \in CriticalSections : s.queue[cs] # <<>> =>
       s.owner[cs] # Nobody /\ s.owner[cs] \notin Elements(s.queue[cs])

\* "False, it is yours now" waits only on the stacks of processes that are in
\* the queue or have been given the section.
Answered(s) ==
    ~SuspendsEnterers =>
    \A cs \in CriticalSections :
       /\ s.inside[cs] \subseteq {s.owner[cs]}
       /\ \A p \in Processes : cs \in s.answering[p] =>
             p \in Elements(s.queue[cs]) \/ s.owner[cs] = p

Settled(s) ==
    /\ Placed(s)
    /\ \A p \in Processes : Waits(s, p)
    /\ Alive(s)
    /\ IsRunning(s)
    /\ s.myList[s.active] = NoList
    /\ IdleRuns(s)
    /\ Highest(s)
    /\ Owned(s)
    /\ Answered(s)


-----------------------------------------------------------------------------
(* Sequences in which nothing is twice.                                    *)

LEMMA ElementsType ==
    ASSUME NEW S, NEW seq \in Seq(S)
    PROVE  /\ DOMAIN seq = 1 .. Len(seq) /\ Len(seq) \in Nat
           /\ \A k \in 1 .. Len(seq) : seq[k] \in S /\ seq[k] \in Elements(seq)
           /\ \A p \in Elements(seq) : p \in S /\ \E k \in 1 .. Len(seq) : seq[k] = p
           /\ seq = <<>> <=> Len(seq) = 0
           /\ seq = <<>> => Elements(seq) = {}
BY DEF Elements

LEMMA AppendDistinct ==
    ASSUME NEW S, NEW seq \in Seq(S), NEW p \in S, Distinct(seq), p \notin Elements(seq)
    PROVE  /\ Append(seq, p) \in Seq(S) /\ Distinct(Append(seq, p))
           /\ Elements(Append(seq, p)) = Elements(seq) \cup {p}
           /\ seq # <<>> => Append(seq, p)[1] = seq[1]
<1> DEFINE n == Len(seq)
           new == Append(seq, p)
<1>1. n \in Nat /\ \A k \in 1 .. n : seq[k] # p
  BY ElementsType
<1>2. /\ new \in Seq(S) /\ Len(new) = n + 1 /\ new[n + 1] = p
      /\ \A k \in 1 .. n : new[k] = seq[k]
  OBVIOUS
<1> HIDE DEF n, new
<1>3. DOMAIN new = 1 .. n + 1 /\ DOMAIN seq = 1 .. n
  BY <1>2, ElementsType DEF n
<1>4. Distinct(new) /\ Elements(new) = Elements(seq) \cup {p}
  <2>1. \A k \in 1 .. n + 1 : k = n + 1 \/ k \in 1 .. n
    BY <1>1
  <2>2. Distinct(new)
    BY <1>1, <1>2, <1>3, <2>1 DEF Distinct
  <2>3. Elements(new) = Elements(seq) \cup {p}
    BY <1>1, <1>2, <1>3 DEF Elements
  <2>4. QED
    BY <2>2, <2>3
<1>5. seq # <<>> => new[1] = seq[1]
  BY <1>1, <1>2, ElementsType DEF n
<1>6. QED
  BY <1>2, <1>4, <1>5 DEF new

LEMMA PrependDistinct ==
    ASSUME NEW S, NEW seq \in Seq(S), NEW p \in S, Distinct(seq), p \notin Elements(seq)
    PROVE  /\ <<p>> \o seq \in Seq(S) /\ Distinct(<<p>> \o seq)
           /\ Elements(<<p>> \o seq) = Elements(seq) \cup {p}
<1> DEFINE n == Len(seq)
           new == <<p>> \o seq
<1>1. n \in Nat /\ \A k \in 1 .. n : seq[k] # p
  BY ElementsType
<1>2. /\ new \in Seq(S) /\ Len(new) = n + 1 /\ new[1] = p
      /\ \A k \in 2 .. n + 1 : new[k] = seq[k - 1]
  OBVIOUS
<1> HIDE DEF n, new
<1>3. DOMAIN new = 1 .. n + 1 /\ DOMAIN seq = 1 .. n
  BY <1>2, ElementsType DEF n
<1>4. Distinct(new)
  <2> SUFFICES ASSUME NEW j \in 1 .. n + 1, NEW k \in 1 .. n + 1, new[j] = new[k]
               PROVE  j = k
    BY <1>3 DEF Distinct
  <2>1. CASE j = 1 \/ k = 1
    <3>1. \A i \in 2 .. n + 1 : i - 1 \in 1 .. n /\ new[i] # p
      BY <1>1, <1>2
    <3>2. QED
      BY <1>1, <1>2, <2>1, <3>1
  <2>2. CASE j # 1 /\ k # 1
    <3>1. j - 1 \in 1 .. n /\ k - 1 \in 1 .. n /\ seq[j - 1] = seq[k - 1]
      BY <1>1, <1>2, <2>2
    <3>2. j - 1 = k - 1
      BY <1>3, <3>1 DEF Distinct
    <3>3. QED
      BY <1>1, <3>2
  <2>3. QED
    BY <2>1, <2>2
<1>5. Elements(new) = Elements(seq) \cup {p}
  <2>1. \A k \in 1 .. n : k + 1 \in 2 .. n + 1 /\ new[k + 1] = seq[k]
    BY <1>1, <1>2
  <2>2. \A k \in 1 .. n + 1 : k = 1 \/ (k \in 2 .. n + 1 /\ k - 1 \in 1 .. n)
    BY <1>1
  <2>3. 1 \in 1 .. n + 1 /\ \A k \in 1 .. n : k + 1 \in 1 .. n + 1
    BY <1>1
  <2>4. Elements(new) \subseteq Elements(seq) \cup {p}
    BY <1>2, <1>3, <2>2 DEF Elements
  <2>5. Elements(seq) \cup {p} \subseteq Elements(new)
    BY <1>2, <1>3, <2>1, <2>3 DEF Elements
  <2>6. QED
    BY <2>4, <2>5
<1>6. QED
  BY <1>2, <1>4, <1>5 DEF new

\* What is left after an element.
LEMMA SuffixDistinct ==
    ASSUME NEW S, NEW seq \in Seq(S), Distinct(seq), NEW first \in 1 .. Len(seq)
    PROVE  LET rest == SubSeq(seq, first + 1, Len(seq))
           IN /\ rest \in Seq(S) /\ Distinct(rest)
              /\ Elements(rest) \subseteq Elements(seq) \ {seq[first]}
              /\ \A j \in 1 .. Len(seq) : j > first => seq[j] \in Elements(rest)
<1> DEFINE n == Len(seq)
           rest == SubSeq(seq, first + 1, n)
<1>1. n \in Nat /\ first \in Nat /\ DOMAIN seq = 1 .. n
  BY ElementsType
<1>2. /\ rest \in Seq(S) /\ Len(rest) = n - first
      /\ \A k \in 1 .. n - first : rest[k] = seq[k + first]
  OBVIOUS
<1> HIDE DEF n, rest
<1>3. DOMAIN rest = 1 .. n - first
  BY <1>2, ElementsType
<1>4. \A k \in 1 .. n - first : k + first \in 1 .. n /\ k + first # first
  BY <1>1
<1>5. first \in 1 .. n
  BY DEF n
<1>6. Distinct(rest)
  <2> SUFFICES ASSUME NEW j \in 1 .. n - first, NEW k \in 1 .. n - first,
                      rest[j] = rest[k]
               PROVE  j = k
    BY <1>3 DEF Distinct
  <2>1. j + first = k + first
    BY <1>1, <1>2, <1>4 DEF Distinct
  <2>2. QED
    BY <1>1, <2>1
<1>7. Elements(rest) \subseteq Elements(seq) \ {seq[first]}
  <2>1. ASSUME NEW k \in 1 .. n - first
        PROVE  rest[k] \in Elements(seq) /\ rest[k] # seq[first]
    BY <1>1, <1>2, <1>4, <1>5 DEF Distinct, Elements
  <2>2. QED
    BY <1>3, <2>1 DEF Elements
<1>8. ASSUME NEW j \in 1 .. n, j > first PROVE seq[j] \in Elements(rest)
  <2>1. j - first \in 1 .. n - first /\ (j - first) + first = j
    BY <1>1, <1>8
  <2>2. rest[j - first] = seq[j]
    BY <1>2, <2>1
  <2>3. QED
    BY <1>3, <2>1, <2>2 DEF Elements
<1>9. QED
  BY <1>2, <1>6, <1>7, <1>8 DEF rest, n

LEMMA TailDistinct ==
    ASSUME NEW S, NEW seq \in Seq(S), seq # <<>>, Distinct(seq)
    PROVE  /\ Tail(seq) \in Seq(S) /\ Distinct(Tail(seq))
           /\ Elements(Tail(seq)) = Elements(seq) \ {Head(seq)}
           /\ Head(seq) \in Elements(seq)
<1>1. 1 \in 1 .. Len(seq) /\ Tail(seq) = SubSeq(seq, 1 + 1, Len(seq)) /\ Head(seq) = seq[1]
  BY ElementsType
<1>2. /\ Tail(seq) \in Seq(S) /\ Distinct(Tail(seq))
      /\ Elements(Tail(seq)) \subseteq Elements(seq) \ {Head(seq)}
      /\ \A j \in 1 .. Len(seq) : j > 1 => seq[j] \in Elements(Tail(seq))
  <2> DEFINE rest == SubSeq(seq, 1 + 1, Len(seq))
  <2>1. /\ rest \in Seq(S) /\ Distinct(rest)
        /\ Elements(rest) \subseteq Elements(seq) \ {seq[1]}
        /\ \A j \in 1 .. Len(seq) : j > 1 => seq[j] \in Elements(rest)
    BY <1>1, SuffixDistinct, Zenon
  <2> HIDE DEF rest
  <2>2. Tail(seq) = rest
    BY <1>1 DEF rest
  <2>3. QED
    BY <1>1, <2>1, <2>2
<1>3. Elements(seq) \ {Head(seq)} \subseteq Elements(Tail(seq))
  <2> SUFFICES ASSUME NEW j \in 1 .. Len(seq), seq[j] # Head(seq)
               PROVE  seq[j] \in Elements(Tail(seq))
    BY ElementsType
  <2>1. j > 1
    BY <1>1
  <2>2. QED
    BY <1>2, <2>1
<1>4. QED
  BY <1>1, <1>2, <1>3, ElementsType

LEMMA PartElements ==
    ASSUME NEW S, NEW seq \in Seq(S), NEW i \in Nat, NEW j \in Nat,
           1 <= i, i <= j + 1, j <= Len(seq)
    PROVE  /\ SubSeq(seq, i, j) \in Seq(S) /\ Len(SubSeq(seq, i, j)) = j - i + 1
           /\ \A k \in 1 .. j - i + 1 : SubSeq(seq, i, j)[k] = seq[i + k - 1]
OBVIOUS

LEMMA ConcatElements ==
    ASSUME NEW S, NEW a \in Seq(S), NEW b \in Seq(S)
    PROVE  /\ a \o b \in Seq(S) /\ Len(a \o b) = Len(a) + Len(b)
           /\ \A k \in 1 .. Len(a) : (a \o b)[k] = a[k]
           /\ \A k \in Len(a) + 1 .. Len(a) + Len(b) : (a \o b)[k] = b[k - Len(a)]
OBVIOUS

\* removeProcess:fromList:
LEMMA RemoveDistinct ==
    ASSUME NEW S, NEW seq \in Seq(S), Distinct(seq), NEW at \in 1 .. Len(seq)
    PROVE  LET new == SubSeq(seq, 1, at - 1) \o SubSeq(seq, at + 1, Len(seq))
           IN /\ new \in Seq(S) /\ Distinct(new)
              /\ Elements(new) = Elements(seq) \ {seq[at]}
<1> DEFINE n == Len(seq)
           new == SubSeq(seq, 1, at - 1) \o SubSeq(seq, at + 1, n)
<1>1. n \in Nat /\ at \in Nat /\ DOMAIN seq = 1 .. n /\ at \in 1 .. n
  BY ElementsType
<1>2. /\ new \in Seq(S) /\ Len(new) = n - 1
      /\ \A k \in 1 .. n - 1 : new[k] = IF k < at THEN seq[k] ELSE seq[k + 1]
  <2> DEFINE before == SubSeq(seq, 1, at - 1)
             after  == SubSeq(seq, at + 1, n)
  <2>1. /\ before \in Seq(S) /\ Len(before) = at - 1
        /\ \A k \in 1 .. at - 1 : before[k] = seq[k]
    <3>1. at - 1 \in Nat /\ at - 1 <= Len(seq) /\ 1 <= (at - 1) + 1 /\ (at - 1) - 1 + 1 = at - 1
      BY <1>1
    <3>2. /\ before \in Seq(S) /\ Len(before) = (at - 1) - 1 + 1
          /\ \A k \in 1 .. (at - 1) - 1 + 1 : before[k] = seq[1 + k - 1]
      BY <3>1, PartElements
    <3> HIDE DEF before
    <3>3. QED
      BY <1>1, <3>1, <3>2
  <2>2. /\ after \in Seq(S) /\ Len(after) = n - at
        /\ \A k \in 1 .. n - at : after[k] = seq[k + at]
    <3>1. /\ at + 1 \in Nat /\ n \in Nat /\ 1 <= at + 1 /\ at + 1 <= n + 1 /\ n <= Len(seq)
          /\ n - (at + 1) + 1 = n - at
      BY SMTT(40), <1>1
    <3>2. /\ after \in Seq(S) /\ Len(after) = n - (at + 1) + 1
          /\ \A k \in 1 .. n - (at + 1) + 1 : after[k] = seq[(at + 1) + k - 1]
      BY <3>1, PartElements
    <3> HIDE DEF after, n
    <3>3. \A k \in 1 .. n - at : (at + 1) + k - 1 = k + at
      BY <1>1
    <3>4. QED
      BY <3>1, <3>2, <3>3
  <2>3. new = before \o after
    OBVIOUS
  <2> HIDE DEF before, after, new, n
  <2>4. /\ new \in Seq(S) /\ Len(new) = n - 1
        /\ \A k \in 1 .. at - 1 : new[k] = seq[k]
        /\ \A k \in at .. n - 1 : new[k] = after[k - (at - 1)]
    <3>1. /\ new \in Seq(S) /\ Len(new) = Len(before) + Len(after)
          /\ \A k \in 1 .. Len(before) : new[k] = before[k]
          /\ \A k \in Len(before) + 1 .. Len(before) + Len(after) :
                new[k] = after[k - Len(before)]
      BY ZenonT(60), <2>1, <2>2, <2>3, ConcatElements
    <3>2. Len(before) + 1 = at /\ Len(before) + Len(after) = n - 1
      BY <1>1, <2>1, <2>2
    <3>3. QED
      BY <2>1, <3>1, <3>2
  <2>5. ASSUME NEW k \in 1 .. n - 1
        PROVE  new[k] = IF k < at THEN seq[k] ELSE seq[k + 1]
    <3>1. CASE k < at
      BY <1>1, <2>4, <3>1
    <3>2. CASE ~(k < at)
      <4>1. /\ k \in at .. n - 1 /\ k - (at - 1) \in 1 .. n - at
            /\ (k - (at - 1)) + at = k + 1
        BY <1>1, <3>2
      <4>2. new[k] = seq[(k - (at - 1)) + at]
        BY <2>2, <2>4, <4>1
      <4>3. QED
        BY <3>2, <4>1, <4>2
    <3>3. QED
      BY <3>1, <3>2
  <2>6. QED
    BY <2>4, <2>5
<1> HIDE DEF n, new
<1>3. DOMAIN new = 1 .. n - 1
  BY <1>2, ElementsType
<1> DEFINE from(k) == IF k < at THEN k ELSE k + 1
<1>4. \A k \in 1 .. n - 1 : /\ from(k) \in 1 .. n /\ from(k) # at
                            /\ new[k] = seq[from(k)]
  BY <1>1, <1>2
<1>5. \A j, k \in 1 .. n - 1 : from(j) = from(k) => j = k
  BY <1>1
<1>6. \A j \in 1 .. n : j # at => \E k \in 1 .. n - 1 : from(k) = j
  <2> TAKE j \in 1 .. n
  <2>1. CASE j < at
    <3>1. j \in 1 .. n - 1 /\ from(j) = j
      BY <1>1, <2>1
    <3>2. QED
      BY <3>1
  <2>2. CASE j > at
    <3>1. j - 1 \in 1 .. n - 1 /\ from(j - 1) = j
      BY <1>1, <2>2
    <3>2. QED
      BY <3>1
  <2>3. QED
    BY <1>1, <2>1, <2>2
<1> HIDE DEF from
<1>7. Distinct(new)
  BY <1>1, <1>3, <1>4, <1>5 DEF Distinct
<1>8. Elements(new) = Elements(seq) \ {seq[at]}
  <2>1. ASSUME NEW k \in 1 .. n - 1
        PROVE  new[k] \in Elements(seq) /\ new[k] # seq[at]
    BY <1>1, <1>4 DEF Distinct, Elements
  <2>2. ASSUME NEW j \in 1 .. n, seq[j] # seq[at]
        PROVE  seq[j] \in Elements(new)
    BY <1>1, <1>3, <1>4, <1>6, <2>2 DEF Elements
  <2>3. QED
    BY <1>1, <1>3, <2>1, <2>2 DEF Elements
<1>9. QED
  BY <1>2, <1>7, <1>8 DEF new, n

-----------------------------------------------------------------------------
(* What the routines do to the queues.                                     *)

\* t is s with p put on the list l; the search bound may differ.
Added(s, t, p, l) ==
    /\ t.active = s.active /\ t.context = s.context /\ t.owner = s.owner
    /\ t.answering = s.answering /\ t.inside = s.inside
    /\ t.myList = [s.myList EXCEPT ![p] = l]
    /\ \A k \in Lists : k # l => t.queue[k] = s.queue[k]
    /\ Elements(t.queue[l]) = Elements(s.queue[l]) \cup {p}
    /\ Distinct(t.queue[l])

LEMMA QueueType ==
    ASSUME NEW s \in States, NEW l \in Lists
    PROVE  /\ s.queue[l] \in Seq(Processes)
           /\ \A p \in Elements(s.queue[l]) : p \in Processes
           /\ s.queue[l] # <<>> <=> Elements(s.queue[l]) # {}
<1>1. s.queue[l] \in Seq(Processes)
  BY DEF States
<1>2. s.queue[l] # <<>> => Elements(s.queue[l]) # {}
  <2> SUFFICES ASSUME s.queue[l] # <<>> PROVE s.queue[l][1] \in Elements(s.queue[l])
    OBVIOUS
  <2>1. 1 \in 1 .. Len(s.queue[l])
    BY <1>1
  <2>2. QED
    BY <1>1, <2>1, ElementsType
<1>3. QED
  BY <1>1, <1>2, ElementsType

\* The classes of lists are apart.
LEMMA ListKinds ==
    /\ Lists = Priorities \cup WaitLists /\ Priorities \cap WaitLists = {}
    /\ CriticalSections \subseteq WaitLists /\ Semaphores \subseteq WaitLists
    /\ NoList \notin Lists
    /\ \A p \in Processes : priority[p] \in Priorities /\ priority[p] \in Lists
    /\ \A l \in Priorities : l \in Int
BY ListAssumption, PriorityAssumption DEF Lists, WaitLists, Priorities

LEMMA AddLastLinkAdds ==
    ASSUME NEW s \in States, NEW p \in Processes, NEW l \in Lists,
           Distinct(s.queue[l]), p \notin Elements(s.queue[l])
    PROVE  /\ Added(s, AddLastLink(s, p, l), p, l)
           /\ s.queue[l] # <<>> =>
                 AddLastLink(s, p, l).queue[l][1] = s.queue[l][1]
<1> DEFINE q == [s.queue EXCEPT ![l] = Append(@, p)]
           m == [s.myList EXCEPT ![p] = l]
           t == [s EXCEPT !.queue = q, !.myList = m]
<1>1. AddLastLink(s, p, l) = t
  BY DEF AddLastLink, States
<1>2. /\ q[l] = Append(s.queue[l], p)
      /\ \A k \in Lists : k # l => q[k] = s.queue[k]
  BY DEF States
<1>3. s.queue[l] \in Seq(Processes)
  BY QueueType
<1>4. /\ Distinct(q[l]) /\ Elements(q[l]) = Elements(s.queue[l]) \cup {p}
      /\ s.queue[l] # <<>> => q[l][1] = s.queue[l][1]
  <2> HIDE DEF q
  <2>1. QED
    BY <1>2, <1>3, AppendDistinct
<1> HIDE DEF q, m
<1>5. /\ t.active = s.active /\ t.context = s.context /\ t.owner = s.owner
      /\ t.answering = s.answering /\ t.inside = s.inside
      /\ t.queue = q /\ t.myList = m
  BY DEF States
<1> HIDE DEF t
<1>6. QED
  BY <1>1, <1>2, <1>4, <1>5 DEF Added, m

LEMMA AddFirstLinkAdds ==
    ASSUME NEW s \in States, NEW p \in Processes, NEW l \in Lists,
           Distinct(s.queue[l]), p \notin Elements(s.queue[l])
    PROVE  Added(s, AddFirstLink(s, p, l), p, l)
<1> DEFINE q == [s.queue EXCEPT ![l] = <<p>> \o @]
           m == [s.myList EXCEPT ![p] = l]
           t == [s EXCEPT !.queue = q, !.myList = m]
<1>1. AddFirstLink(s, p, l) = t
  BY DEF AddFirstLink, States
<1>2. /\ q[l] = <<p>> \o s.queue[l]
      /\ \A k \in Lists : k # l => q[k] = s.queue[k]
  BY DEF States
<1>3. s.queue[l] \in Seq(Processes)
  BY QueueType
<1>4. Distinct(q[l]) /\ Elements(q[l]) = Elements(s.queue[l]) \cup {p}
  <2> HIDE DEF q
  <2>1. QED
    BY <1>2, <1>3, PrependDistinct
<1> HIDE DEF q, m
<1>5. /\ t.active = s.active /\ t.context = s.context /\ t.owner = s.owner
      /\ t.answering = s.answering /\ t.inside = s.inside
      /\ t.queue = q /\ t.myList = m
  BY DEF States
<1> HIDE DEF t
<1>6. QED
  BY <1>1, <1>2, <1>4, <1>5 DEF Added, m

LEMMA PutToSleepAdds ==
    ASSUME NEW s \in States, NEW p \in Processes, NEW yielding,
           Distinct(s.queue[priority[p]]), p \notin Elements(s.queue[priority[p]])
    PROVE  Added(s, PutToSleep(s, p, yielding), p, priority[p])
<1> DEFINE h == IF s.highest # 0 /\ priority[p] > s.highest
                THEN priority[p] ELSE s.highest
           t == [s EXCEPT !.highest = h]
<1>1. priority[p] \in Lists /\ h \in 0 .. NumPriorities
  BY ListKinds, PriorityAssumption DEF States, Priorities
<1>2. PutToSleep(s, p, yielding) =
         IF yielding THEN AddLastLink(t, p, priority[p])
                     ELSE AddFirstLink(t, p, priority[p])
  BY DEF PutToSleep
<1> HIDE DEF h
<1>3. /\ t \in States /\ t.queue = s.queue /\ t.active = s.active
      /\ t.context = s.context /\ t.owner = s.owner /\ t.inside = s.inside
      /\ t.answering = s.answering /\ t.myList = s.myList
  BY <1>1 DEF States
<1> HIDE DEF t
<1>4. /\ Added(t, AddLastLink(t, p, priority[p]), p, priority[p])
      /\ Added(t, AddFirstLink(t, p, priority[p]), p, priority[p])
  BY <1>1, <1>3, AddLastLinkAdds, AddFirstLinkAdds
<1>5. ASSUME NEW r, Added(t, r, p, priority[p])
      PROVE  Added(s, r, p, priority[p])
  BY <1>3, <1>5 DEF Added
<1>6. QED
  BY <1>2, <1>4, <1>5

\* A process on no list can be put on one.
LEMMA AddedPlaced ==
    ASSUME NEW s \in States, Placed(s), NEW p \in Processes, OnNoList(s, p),
           NEW l \in Lists, l \in Priorities => priority[p] = l,
           NEW t \in States, Added(s, t, p, l)
    PROVE  Placed(t)
<1>1. ASSUME NEW k \in Lists
      PROVE  Distinct(t.queue[k])
  BY DEF Placed, Added
<1>2. ASSUME NEW k \in Lists, NEW q \in Elements(t.queue[k])
      PROVE  t.myList[q] = k /\ (k \in Priorities => priority[q] = k)
  <2>0. q \in Processes
    BY <1>2, QueueType
  <2>1. CASE q = p
    <3>1. k = l
      BY <1>2, <2>1 DEF OnNoList, Added
    <3>2. QED
      BY <2>1, <3>1 DEF Added, States
  <2>2. CASE q # p
    <3>1. q \in Elements(s.queue[k])
      BY <1>2, <2>2 DEF Added
    <3>2. s.myList[q] = k /\ (k \in Priorities => priority[q] = k)
      BY <3>1 DEF Placed
    <3>3. QED
      BY <2>0, <2>2, <3>2 DEF Added, States
  <2>3. QED
    BY <2>1, <2>2
<1>3. QED
  BY <1>1, <1>2 DEF Placed

\* Whoever waits still does when another process is put on a list.
LEMMA AddedWaits ==
    ASSUME NEW s \in States, NEW t, NEW p, NEW l \in Lists, Added(s, t, p, l),
           NEW q \in Processes, q # p, Waits(s, q)
    PROVE  Waits(t, q)
<1> SUFFICES ASSUME NEW k \in WaitLists, t.context[q] \/ t.active = q,
                    t.myList[q] = k
             PROVE  q \in Elements(t.queue[k])
  BY DEF Waits
<1>1. k \in Lists /\ s.myList[q] = k
  BY ListKinds DEF Added, States
<1>2. q \in Elements(s.queue[k])
  BY <1>1 DEF Waits, Added
<1>3. QED
  BY <1>1, <1>2 DEF Added

\* A process whose back pointer is nil is on no list.
LEMMA FreeOnNoList ==
    ASSUME NEW s \in States, Placed(s), NEW p \in Processes,
           s.myList[p] \notin Lists
    PROVE  OnNoList(s, p)
BY DEF Placed, OnNoList

-----------------------------------------------------------------------------
(* A process starts to run.                                                *)

\* The process u.active has been put on a list, or is to be forgotten, and
\* nobody but p is to run.
Leaving(u) ==
    /\ u.active \in Processes /\ ~u.context[u.active]
    /\ Placed(u)
    /\ \A q \in Processes : Waits(u, q)
    /\ Alive(u)
    /\ Owned(u)
    /\ Answered(u)

\* Idle is queued and can run, or is being put behind a process that can.
IdleQueued(u) ==
    /\ Idle \in Elements(u.queue[priority[Idle]])
    /\ u.context[Idle] \/ u.active = Idle

\* transferTo:
LEMMA TransferSettled ==
    ASSUME NEW u \in States, NEW p \in Processes,
           u.active \in Processes, p # u.active,
           Placed(u), OnNoList(u, p),
           \A q \in Processes : q # p => Waits(u, q),
           Alive(u), Owned(u), Answered(u),
           Idle = p \/ IdleQueued(u),
           \A l \in Priorities : l > priority[p] => u.queue[l] = <<>>
    PROVE  Settled(TransferTo(u, p))
<1> DEFINE c == [u.context EXCEPT ![u.active] = TRUE, ![p] = FALSE]
           m == [u.myList EXCEPT ![p] = NoList]
           a == [u.answering EXCEPT ![p] = {}]
           i == [cs \in CriticalSections |->
                   IF cs \in u.answering[p] THEN u.inside[cs] \cup {p}
                                            ELSE u.inside[cs]]
           t == [u EXCEPT !.context = c, !.active = p, !.myList = m,
                          !.answering = a, !.inside = i]
<1>1. TransferTo(u, p) = t
  BY DEF TransferTo, States
<1>2. /\ c[p] = FALSE /\ c[u.active] = TRUE
      /\ \A q \in Processes : q # p /\ q # u.active => c[q] = u.context[q]
      /\ m[p] = NoList /\ \A q \in Processes : q # p => m[q] = u.myList[q]
      /\ a[p] = {} /\ \A q \in Processes : q # p => a[q] = u.answering[q]
  BY DEF States
<1>3. \A cs \in CriticalSections :
         i[cs] = IF cs \in u.answering[p] THEN u.inside[cs] \cup {p}
                                          ELSE u.inside[cs]
  OBVIOUS
<1> HIDE DEF c, m, a, i
<1>4. /\ t.active = p /\ t.context = c /\ t.myList = m /\ t.answering = a
      /\ t.inside = i /\ t.queue = u.queue /\ t.owner = u.owner
  BY DEF States
<1> HIDE DEF t
<1>5. Placed(t)
  <2> SUFFICES ASSUME NEW l \in Lists, NEW q \in Elements(u.queue[l])
               PROVE  m[q] = l
    BY <1>4 DEF Placed
  <2>1. q # p /\ q \in Processes
    BY QueueType DEF OnNoList
  <2>2. QED
    BY <1>2, <2>1 DEF Placed
<1>6. ASSUME NEW q \in Processes PROVE Waits(t, q)
  <2>1. CASE q = p
    BY <1>2, <1>4, <2>1, ListKinds DEF Waits
  <2>2. CASE q # p
    BY <1>2, <1>4, <2>2 DEF Waits
  <2>3. QED
    BY <2>1, <2>2
<1>7. Alive(t)
  <2> SUFFICES ASSUME NEW l \in WaitLists \cup {priority[Idle]},
                      NEW q \in Elements(u.queue[l])
               PROVE  c[q] \/ q = p
    BY <1>4 DEF Alive
  <2>1. l \in Lists
    BY ListKinds, ProcessAssumption
  <2>2. q # p /\ q \in Processes
    BY <2>1, QueueType DEF OnNoList
  <2>3. QED
    BY <1>2, <2>2 DEF Alive
<1>8. IsRunning(t) /\ t.myList[t.active] = NoList
  BY <1>2, <1>4 DEF IsRunning
<1>9. IdleRuns(t)
  BY <1>2, <1>4, ProcessAssumption DEF IdleRuns, IdleQueued
<1>10. Highest(t)
  BY <1>4 DEF Highest
<1>11. Owned(t)
  BY <1>4 DEF Owned
<1>12. Answered(t)
  <2> SUFFICES ASSUME ~SuspendsEnterers, NEW cs \in CriticalSections
               PROVE  /\ i[cs] \subseteq {u.owner[cs]}
                      /\ \A q \in Processes : cs \in a[q] =>
                            q \in Elements(u.queue[cs]) \/ u.owner[cs] = q
    BY <1>4 DEF Answered
  <2>1. /\ u.inside[cs] \subseteq {u.owner[cs]}
        /\ \A q \in Processes : cs \in u.answering[q] =>
              q \in Elements(u.queue[cs]) \/ u.owner[cs] = q
    BY DEF Answered
  <2>2. cs \in u.answering[p] => u.owner[cs] = p
    BY <2>1 DEF OnNoList, Lists
  <2>3. QED
    BY <1>2, <1>3, <2>1, <2>2
<1>13. QED
  BY <1>1, <1>5, <1>6, <1>7, <1>8, <1>9, <1>10, <1>11, <1>12 DEF Settled

\* resume:preemptedYieldingIf: for a process on no list that has a context.
LEMMA ResumeSettled ==
    ASSUME NEW s, NEW p \in Processes, NEW yielding,
           Good(s), Placed(s), \A q \in Processes : q # p => Waits(s, q),
           Alive(s), IsRunning(s), s.myList[s.active] = NoList,
           IdleRuns(s), Highest(s), Owned(s), Answered(s),
           p # s.active, OnNoList(s, p), s.context[p]
    PROVE  Settled(Resume(s, p, yielding))
<1> DEFINE l == priority[p]
           k == priority[s.active]
<1>1. /\ s \in States /\ l \in Lists /\ k \in Lists
      /\ l \in Priorities /\ k \in Priorities /\ s.active \in Processes
      /\ l \in Int /\ k \in Int
  BY ListKinds DEF Good, IsRunning
<1>2. OnNoList(s, s.active)
  BY <1>1, ListKinds, FreeOnNoList
<1>3. CASE priority[p] <= priority[s.active]
  <2> DEFINE t == PutToSleep(s, p, TRUE)
  <2>1. Resume(s, p, yielding) = t
    BY <1>3 DEF Resume
  <2>2. t \in States
    BY PutToSleepGood DEF Good
  <2>3. Added(s, t, p, l)
    BY <1>1, PutToSleepAdds DEF Placed, OnNoList
  <2> HIDE DEF t
  <2>4. Placed(t)
    BY <1>1, <2>2, <2>3, AddedPlaced
  <2>5. ASSUME NEW q \in Processes PROVE Waits(t, q)
    <3>1. CASE q = p
      BY <1>1, <2>3, <3>1, ListKinds DEF Added, Waits, States
    <3>2. CASE q # p
      BY <1>1, <2>3, <3>2, AddedWaits
    <3>3. QED
      BY <3>1, <3>2
  <2>6. Alive(t)
    <3> SUFFICES ASSUME NEW j \in WaitLists \cup {priority[Idle]},
                        NEW q \in Elements(t.queue[j])
                 PROVE  t.context[q] \/ q = t.active
      BY DEF Alive
    <3>1. j \in Lists
      BY ListKinds, ProcessAssumption
    <3>2. QED
      BY <2>3, <3>1 DEF Alive, Added
  <2>7. IsRunning(t) /\ t.myList[t.active] = NoList
    BY <1>1, <2>3 DEF IsRunning, Added, States
  <2>8. IdleRuns(t)
    <3>1. priority[Idle] \in Lists
      BY ListKinds, ProcessAssumption
    <3>2. QED
      BY <2>3, <3>1 DEF IdleRuns, Added
  <2>9. Highest(t)
    <3> SUFFICES ASSUME NEW j \in Priorities, j > k PROVE t.queue[j] = <<>>
      BY <2>3 DEF Highest, Added
    <3>1. j \in Lists /\ j # l
      BY <1>1, <1>3, ListKinds DEF Lists
    <3>2. QED
      BY <2>3, <3>1 DEF Highest, Added
  <2>10. Owned(t)
    BY <1>1, <2>3, ListAssumption DEF Owned, Added, Lists
  <2>11. Answered(t)
    BY <1>1, <2>3, ListAssumption DEF Answered, Added, Lists
  <2>12. QED
    BY <2>1, <2>4, <2>5, <2>6, <2>7, <2>8, <2>9, <2>10, <2>11 DEF Settled
<1>4. CASE ~(priority[p] <= priority[s.active])
  <2> DEFINE u == PutToSleep(s, s.active, yielding)
  <2>1. Resume(s, p, yielding) = TransferTo(u, p)
    BY <1>4 DEF Resume
  <2>2. u \in States
    BY <1>1, PutToSleepGood DEF Good
  <2>3. Added(s, u, s.active, k)
    BY <1>1, <1>2, PutToSleepAdds DEF Placed, OnNoList
  <2> HIDE DEF u
  <2>4. Placed(u)
    BY <1>1, <1>2, <2>2, <2>3, AddedPlaced
  <2>5. OnNoList(u, p)
    BY <1>1, <2>3 DEF OnNoList, Added
  <2>6. ASSUME NEW q \in Processes, q # p PROVE Waits(u, q)
    <3>1. CASE q = s.active
      BY <1>1, <2>3, <3>1, ListKinds DEF Added, Waits, States
    <3>2. CASE q # s.active
      <4>1. Waits(s, q)
        BY <2>6
      <4>2. QED
        BY <1>1, <2>3, <3>2, <4>1, AddedWaits
    <3>3. QED
      BY <3>1, <3>2
  <2>7. Alive(u)
    <3> SUFFICES ASSUME NEW j \in WaitLists \cup {priority[Idle]},
                        NEW q \in Elements(u.queue[j])
                 PROVE  u.context[q] \/ q = u.active
      BY DEF Alive
    <3>1. j \in Lists
      BY ListKinds, ProcessAssumption
    <3>2. QED
      BY <2>3, <3>1 DEF Alive, Added
  <2>8. IdleQueued(u)
    <3>1. priority[Idle] \in Lists
      BY ListKinds, ProcessAssumption
    <3>2. QED
      BY <2>3, <3>1 DEF IdleRuns, IdleQueued, Added
  <2>9. ASSUME NEW j \in Priorities, j > l PROVE u.queue[j] = <<>>
    <3>1. j \in Lists /\ j # k /\ j > k
      BY <1>1, <1>4, <2>9, ListKinds DEF Lists
    <3>2. QED
      BY <2>3, <3>1 DEF Highest, Added
  <2>10. Owned(u)
    BY <1>1, <2>3, ListAssumption DEF Owned, Added, Lists
  <2>11. Answered(u)
    BY <1>1, <2>3, ListAssumption DEF Answered, Added, Lists
  <2>12. u.active \in Processes /\ p # u.active
    BY <1>1, <2>3 DEF Added
  <2>13. QED
    BY <2>1, <2>2, <2>4, <2>5, <2>6, <2>7, <2>8, <2>9, <2>10, <2>11, <2>12,
       TransferSettled
<1>5. QED
  BY <1>3, <1>4

\* What wakeHighestPriority does, when it finds a process: the first that has a
\* context on the highest run queue that has such a process.  That queue keeps
\* what is behind it, the run queues above are empty, nothing else changes.
Woken(s, top, first, u) ==
    /\ s.context[s.queue[top][first]]
    /\ \A k \in DOMAIN s.queue[top] : k < first => ~s.context[s.queue[top][k]]
    /\ \A l \in Runnable(s) : l <= top
    /\ u.queue[top] = SubSeq(s.queue[top], first + 1, Len(s.queue[top]))
    /\ \A l \in Lists : l # top => \/ u.queue[l] = s.queue[l]
                                   \/ l \in Priorities /\ u.queue[l] = <<>>
    /\ \A l \in Priorities : l < top => u.queue[l] = s.queue[l]
    /\ \A l \in Priorities : l > top => u.queue[l] = <<>>
    /\ u.active = s.active /\ u.context = s.context /\ u.owner = s.owner
    /\ u.answering = s.answering /\ u.inside = s.inside /\ u.myList = s.myList

LEMMA SwitchWakes ==
    ASSUME NEW s, Good(s), Runnable(s) # {}
    PROVE  \E top \in Priorities : \E first \in DOMAIN s.queue[top] :
           \E u \in States :
              /\ Woken(s, top, first, u)
              /\ SwitchToHighest(s) = TransferTo(u, s.queue[top][first])
<1> DEFINE top   == CHOOSE l \in Priorities : IsTop(s, l)
           seq   == s.queue[top]
           first == CHOOSE k \in DOMAIN seq : IsFirst(k, LivePositions(s, top))
           q     == [l \in Lists |->
                       IF l = top
                       THEN SubSeq(s.queue[l], first + 1, Len(s.queue[l]))
                       ELSE IF l \in top + 1 .. SearchFrom(s)
                            THEN <<>> ELSE s.queue[l]]
           u     == [s EXCEPT !.highest = top, !.queue = q]
<1>1. s.queue \in [Lists -> Seq(Processes)]
  BY DEF Good, States
<1>2. /\ SearchFrom(s) \in 1 .. NumPriorities
      /\ s.highest # 0 => SearchFrom(s) = s.highest
      /\ s.highest = 0 => SearchFrom(s) = NumPriorities
  BY PriorityAssumption DEF SearchFrom, Good, States
<1>3. top \in Priorities /\ IsTop(s, top)
  <2>1. Runnable(s) \in SUBSET (0 .. NumPriorities)
    BY <1>2, PriorityAssumption DEF Runnable
  <2>2. PICK m \in Runnable(s) : \A l \in Runnable(s) : l <= m
    BY <2>1, LargestExists, PriorityAssumption
  <2>3. m \in Priorities /\ IsTop(s, m)
    BY <1>2, <2>2, PriorityAssumption DEF Runnable, Priorities, IsTop
  <2>4. QED
    BY <2>3
<1>4. top \in Lists /\ top \in 1 .. NumPriorities /\ top \in 0 .. NumPriorities
  BY <1>3, PriorityAssumption DEF Lists, Priorities
<1> HIDE DEF top
<1>5. seq \in Seq(Processes) /\ DOMAIN seq = 1 .. Len(seq)
  BY <1>1, <1>4
<1>6. first \in DOMAIN seq /\ IsFirst(first, LivePositions(s, top))
  <2>1. /\ LivePositions(s, top) # {}
        /\ \A k \in LivePositions(s, top) : k \in DOMAIN seq
    BY <1>3 DEF Runnable, LivePositions, IsTop
  <2>2. LivePositions(s, top) \in SUBSET Nat
    BY <2>1, <1>5
  <2>3. PICK m \in LivePositions(s, top) :
           \A k \in LivePositions(s, top) : m <= k
    BY <2>1, <2>2, SmallestExists
  <2>4. m \in DOMAIN seq /\ IsFirst(m, LivePositions(s, top))
    BY <2>1, <2>3 DEF IsFirst
  <2>5. QED
    BY <2>4
<1> HIDE DEF first
<1>7. SwitchToHighest(s) = TransferTo(u, seq[first])
  BY DEF SwitchToHighest, Good, States, top, first
<1>8. /\ q[top] = SubSeq(seq, first + 1, Len(seq))
      /\ \A l \in Lists : l # top =>
            IF l \in top + 1 .. SearchFrom(s) THEN q[l] = <<>>
                                              ELSE q[l] = s.queue[l]
  BY <1>4
<1>9. q \in [Lists -> Seq(Processes)]
  <2>1. SubSeq(seq, first + 1, Len(seq)) \in Seq(Processes)
    BY <1>5, <1>6
  <2>2. \A l \in Lists : s.queue[l] \in Seq(Processes) /\ <<>> \in Seq(Processes)
    BY <1>1
  <2>3. QED
    BY <2>1, <2>2
<1> HIDE DEF q
<1>10. /\ u \in States /\ u.queue = q
       /\ u.active = s.active /\ u.context = s.context /\ u.owner = s.owner
       /\ u.answering = s.answering /\ u.inside = s.inside /\ u.myList = s.myList
  <2> HIDE DEF seq
  <2>1. QED
    BY <1>4, <1>9 DEF Good, States
<1> HIDE DEF u
<1>11. /\ s.context[seq[first]]
       /\ \A k \in DOMAIN seq : k < first => ~s.context[seq[k]]
  <2>1. \A k \in LivePositions(s, top) : ~(k < first)
    BY <1>5, <1>6 DEF LivePositions, IsFirst
  <2>2. QED
    BY <1>6, <2>1 DEF LivePositions, IsFirst
<1>12. ASSUME NEW l \in Priorities
       PROVE  /\ l < top => q[l] = s.queue[l]
              /\ l > top => q[l] = <<>>
  <2>1. l \in Lists /\ l \in Int
    BY ListKinds
  <2>2. CASE l < top
    BY <1>4, <1>8, <2>1, <2>2
  <2>3. CASE l > top /\ l <= SearchFrom(s)
    BY <1>2, <1>4, <1>8, <2>1, <2>3
  <2>4. CASE l > top /\ ~(l <= SearchFrom(s))
    <3>1. s.highest # 0 /\ l > s.highest
      BY <1>2, <2>1, <2>4, PriorityAssumption DEF Priorities
    <3>2. s.queue[l] = <<>>
      BY <3>1 DEF Good, Bounded
    <3>3. QED
      BY <1>2, <1>4, <1>8, <2>1, <2>4, <3>2
  <2>5. QED
    BY <1>4, <2>1, <2>2, <2>3, <2>4
<1>13. \A l \in Lists : l # top => \/ q[l] = s.queue[l]
                                   \/ l \in Priorities /\ q[l] = <<>>
  <2>1. top + 1 .. SearchFrom(s) \subseteq Priorities
    BY <1>2, <1>4, PriorityAssumption DEF Priorities
  <2>2. QED
    BY <1>8, <2>1
<1>14. Woken(s, top, first, u)
  BY <1>3, <1>8, <1>10, <1>11, <1>12, <1>13 DEF Woken, IsTop
<1>15. QED
  BY <1>3, <1>6, <1>7, <1>10, <1>14

\* There is something to wake: Idle itself, or the process it yields to.
LEMMA IdleIsRunnable ==
    ASSUME NEW s, Good(s), Placed(s), Alive(s), IdleQueued(s),
           s.active = Idle => s.queue[priority[Idle]][1] # Idle
    PROVE  priority[Idle] \in Runnable(s)
<1> DEFINE l == priority[Idle]
<1>1. /\ l \in Priorities /\ l \in Lists /\ s \in States /\ l \in 1 .. NumPriorities
      /\ NumPriorities \in Nat
  BY ListKinds, ProcessAssumption, PriorityAssumption DEF Good, Priorities
<1>2. s.queue[l] # <<>> /\ l \notin WaitLists
  BY <1>1, QueueType, ListKinds DEF IdleQueued
<1>3. l <= SearchFrom(s)
  BY <1>1, <1>2 DEF SearchFrom, Good, Bounded, States
<1>4. \E k \in DOMAIN s.queue[l] : s.context[s.queue[l][k]]
  <2>1. CASE s.context[Idle]
    BY <2>1 DEF IdleQueued, Elements
  <2>2. CASE s.active = Idle
    <3>1. 1 \in DOMAIN s.queue[l] /\ s.queue[l][1] \in Elements(s.queue[l])
      <4>1. s.queue[l] \in Seq(Processes) /\ Len(s.queue[l]) # 0
        BY <1>1, <1>2, QueueType, ElementsType
      <4>2. 1 \in DOMAIN s.queue[l]
        BY <4>1
      <4>3. QED
        BY <4>2 DEF Elements
    <3>2. s.context[s.queue[l][1]]
      BY <2>2, <3>1 DEF Alive
    <3>3. QED
      BY <3>1, <3>2
  <2>3. QED
    BY <2>1, <2>2 DEF IdleQueued
<1>5. LivePositions(s, l) # {}
  BY <1>4 DEF LivePositions
<1>6. l \in 1 .. SearchFrom(s)
  BY <1>1, <1>3
<1>7. QED
  BY <1>5, <1>6 DEF Runnable

\* transferTo: wakeHighestPriority, called when the active process has made way.
LEMMA SwitchSettled ==
    ASSUME NEW s, Good(s), Leaving(s), IdleQueued(s),
           s.active = Idle => s.queue[priority[Idle]][1] # Idle
    PROVE  Settled(SwitchToHighest(s))
<1> DEFINE i == priority[Idle]
<1>1. i \in Runnable(s) /\ s \in States /\ i \in Priorities /\ i \in Lists
  BY IdleIsRunnable, ListKinds, ProcessAssumption DEF Leaving, Good
<1>a. PICK top \in Priorities : \E first \in DOMAIN s.queue[top] : \E u \in States :
         /\ Woken(s, top, first, u)
         /\ SwitchToHighest(s) = TransferTo(u, s.queue[top][first])
  BY <1>1, SwitchWakes
<1>b. PICK first \in DOMAIN s.queue[top] : \E u \in States :
         /\ Woken(s, top, first, u)
         /\ SwitchToHighest(s) = TransferTo(u, s.queue[top][first])
  BY <1>a
<1>2. PICK u \in States :
         /\ Woken(s, top, first, u)
         /\ SwitchToHighest(s) = TransferTo(u, s.queue[top][first])
  BY <1>b
<1> DEFINE seq == s.queue[top]
           p   == seq[first]
           rest == SubSeq(seq, first + 1, Len(seq))
<1>3. /\ top \in Lists /\ top \in Int /\ seq \in Seq(Processes)
      /\ first \in 1 .. Len(seq) /\ DOMAIN seq = 1 .. Len(seq)
      /\ Distinct(seq)
  BY <1>1, <1>2, ListKinds, QueueType, ElementsType DEF Lists, Leaving, Placed
<1>4. /\ u.active = s.active /\ u.context = s.context /\ u.owner = s.owner
      /\ u.answering = s.answering /\ u.inside = s.inside /\ u.myList = s.myList
      /\ u.queue[top] = rest /\ i <= top
      /\ \A l \in WaitLists : u.queue[l] = s.queue[l]
  <2>1. \A l \in WaitLists : l \in Lists /\ l \notin Priorities /\ l # top
    BY ListKinds
  <2>2. QED
    BY <1>1, <1>2, <2>1 DEF Woken
<1>5. /\ rest \in Seq(Processes) /\ Distinct(rest)
      /\ Elements(rest) \subseteq Elements(seq) \ {p}
      /\ \A j \in 1 .. Len(seq) : j > first => seq[j] \in Elements(rest)
  BY <1>3, SuffixDistinct, Zenon
<1>6. p \in Elements(seq) /\ p \in Processes /\ s.context[p] /\ priority[p] = top
  BY <1>2, <1>3 DEF Woken, Elements, Leaving, Placed
<1>7. p # s.active
  BY <1>6 DEF Leaving
<1> HIDE DEF rest
\* Every queue keeps some of what it had.
<1>8. ASSUME NEW l \in Lists
      PROVE  /\ Distinct(u.queue[l])
             /\ Elements(u.queue[l]) \subseteq Elements(s.queue[l])
  <2>1. Distinct(<<>>) /\ Elements(<<>>) = {}
    BY DEF Distinct, Elements
  <2>2. Distinct(s.queue[l])
    BY DEF Leaving, Placed
  <2>3. CASE l = top
    BY <1>4, <1>5, <2>3
  <2>4. CASE l # top
    BY <1>2, <2>1, <2>2, <2>4 DEF Woken
  <2>5. QED
    BY <2>3, <2>4
<1>9. Placed(u)
  BY <1>4, <1>8 DEF Leaving, Placed
<1>10. OnNoList(u, p)
  <2> SUFFICES ASSUME NEW l \in Lists, p \in Elements(u.queue[l])
               PROVE  FALSE
    BY DEF OnNoList
  <2>1. l = top
    BY <1>3, <1>6, <1>8 DEF Leaving, Placed
  <2>2. QED
    BY <1>4, <1>5, <2>1
<1>11. \A q \in Processes : Waits(u, q)
  BY <1>4 DEF Leaving, Waits
<1>12. Alive(u)
  <2>1. \A l \in WaitLists \cup {i} : l \in Lists
    BY <1>1, ListKinds
  <2>2. QED
    BY <1>4, <1>8, <2>1 DEF Leaving, Alive
<1>13. Owned(u) /\ Answered(u)
  BY <1>4, ListKinds DEF Leaving, Owned, Answered
<1>14. Idle = p \/ IdleQueued(u)
  <2>1. CASE i # top
    <3>0. i \in Int
      BY <1>1, ListKinds
    <3>1. i < top
      <4> HIDE DEF i
      <4>1. QED
        BY <1>3, <1>4, <2>1, <3>0
    <3>2. u.queue[i] = s.queue[i]
      BY <1>1, <1>2, <3>1 DEF Woken
    <3>3. QED
      BY <1>4, <3>2 DEF IdleQueued
  <2>2. CASE i = top
    <3>1. PICK j \in 1 .. Len(seq) : seq[j] = Idle
      BY <1>3, <2>2 DEF IdleQueued, Elements
    <3>2. CASE j > first
      BY <1>4, <1>5, <2>2, <3>1, <3>2 DEF IdleQueued
    <3>3. CASE j = first
      BY <3>1, <3>3
    <3>4. CASE j < first
      <4>1. ~s.context[Idle] /\ s.active = Idle
        BY <1>2, <1>3, <3>1, <3>4 DEF Woken, IdleQueued
      <4>2. 1 \in 1 .. Len(seq) /\ 1 < first
        BY <1>3, <3>4
      <4>3. ~s.context[seq[1]] /\ seq[1] \in Elements(seq)
        BY <1>2, <1>3, <4>2 DEF Woken, Elements
      <4>4. seq[1] = s.active
        BY <2>2, <4>3 DEF Leaving, Alive
      <4>5. QED
        BY <2>2, <4>1, <4>4
    <3>5. QED
      BY <1>3, <3>2, <3>3, <3>4
  <2>3. QED
    BY <2>1, <2>2
<1>15. \A l \in Priorities : l > priority[p] => u.queue[l] = <<>>
  BY <1>2, <1>6 DEF Woken
<1>16. u.active \in Processes
  BY <1>4 DEF Leaving
<1>17. Settled(TransferTo(u, p))
  BY <1>4, <1>6, <1>7, <1>9, <1>10, <1>11, <1>12, <1>13, <1>14, <1>15, <1>16,
     TransferSettled
<1>18. QED
  BY <1>2, <1>17

\* The parts of Settled that a change of the other parts does not touch.
LEMMA SettledParts ==
    ASSUME NEW s, Settled(s), Good(s)
    PROVE  /\ s \in States /\ Placed(s) /\ Alive(s) /\ Owned(s) /\ Answered(s)
           /\ \A q \in Processes : Waits(s, q)
           /\ s.active \in Processes /\ ~s.context[s.active]
           /\ s.answering[s.active] = {} /\ OnNoList(s, s.active)
BY ListKinds, FreeOnNoList DEF Settled, Good, IsRunning

\* The active process is put on a list, behind whoever is there.
LEMMA LeaveSettled ==
    ASSUME NEW s, Settled(s), Good(s), NEW l \in Lists, NEW t, Good(t),
           Added([s EXCEPT !.answering = t.answering], t, s.active, l),
           \/ l \in WaitLists /\ s.active # Idle
           \/ /\ l = priority[s.active] /\ s.queue[l] # <<>>
              /\ t.queue[l][1] = s.queue[l][1],
           l \in CriticalSections => s.owner[l] \notin {Nobody, s.active},
           Answered(t)
    PROVE  Settled(SwitchToHighest(t))
<1> DEFINE p == s.active
           i == priority[Idle]
<1>1. /\ s \in States /\ Placed(s) /\ Alive(s) /\ Owned(s)
      /\ \A q \in Processes : Waits(s, q)
      /\ p \in Processes /\ ~s.context[p] /\ OnNoList(s, p) /\ IdleRuns(s)
  BY SettledParts DEF Settled
<1>2. /\ i \in Lists /\ i \in Priorities /\ Idle \in Processes /\ t \in States
      /\ priority[p] \in Priorities
  BY <1>1, ListKinds, ProcessAssumption DEF Good
<1> DEFINE r == [s EXCEPT !.answering = t.answering]
<1>3. /\ r \in States /\ r.active = p /\ r.context = s.context /\ r.owner = s.owner
      /\ r.queue = s.queue /\ r.myList = s.myList
  <2>1. t.answering \in [Processes -> SUBSET CriticalSections]
    BY <1>2 DEF States
  <2>2. QED
    BY <1>1, <2>1 DEF States
<1>4. Added(r, t, p, l)
  OBVIOUS
<1> HIDE DEF r
<1>5. Placed(r) /\ OnNoList(r, p) /\ \A q \in Processes : Waits(r, q)
  BY <1>1, <1>3 DEF Placed, OnNoList, Waits
<1>6. l \in Priorities => priority[p] = l
  BY ListKinds
<1>7. Placed(t)
  BY <1>1, <1>2, <1>3, <1>4, <1>5, <1>6, AddedPlaced
<1>8. ASSUME NEW q \in Processes PROVE Waits(t, q)
  <2>1. CASE q = p
    BY <1>1, <1>3, <1>4, <2>1 DEF Added, Waits, States
  <2>2. CASE q # p
    BY <1>3, <1>4, <1>5, <2>2, AddedWaits
  <2>3. QED
    BY <2>1, <2>2
<1>9. /\ t.active = p /\ t.context = s.context /\ t.owner = s.owner
      /\ \A k \in Lists : k # l => t.queue[k] = s.queue[k]
      /\ Elements(t.queue[l]) = Elements(s.queue[l]) \cup {p}
  BY <1>3, <1>4 DEF Added
<1>10. Alive(t)
  <2> SUFFICES ASSUME NEW k \in WaitLists \cup {i}, NEW q \in Elements(t.queue[k])
               PROVE  t.context[q] \/ q = t.active
    BY DEF Alive
  <2>1. k \in Lists
    BY <1>2, ListKinds
  <2>2. QED
    BY <1>1, <1>9, <2>1 DEF Alive
<1>11. Owned(t)
  <2> SUFFICES ASSUME NEW cs \in CriticalSections, t.queue[cs] # <<>>
               PROVE  t.owner[cs] # Nobody /\ t.owner[cs] \notin Elements(t.queue[cs])
    BY DEF Owned
  <2>1. CASE cs # l
    BY <1>1, <1>9, <2>1 DEF Owned, Lists
  <2>2. CASE cs = l
    <3>1. s.owner[cs] \notin Elements(s.queue[cs])
      BY <1>1, <2>2, QueueType DEF Owned
    <3>2. QED
      BY <1>9, <2>2, <3>1
  <2>3. QED
    BY <2>1, <2>2
<1>12. Leaving(t)
  BY <1>1, <1>7, <1>8, <1>9, <1>10, <1>11 DEF Leaving
<1>13. IdleQueued(t) /\ (t.active = Idle => t.queue[i][1] # Idle)
  <2>1. CASE p = Idle
    <3>1. l = i /\ s.queue[l] # <<>> /\ t.queue[l][1] = s.queue[l][1]
      BY <2>1
    <3>2. s.queue[l][1] \in Elements(s.queue[l])
      <4>1. s.queue[l] \in Seq(Processes) /\ Len(s.queue[l]) # 0
        BY <1>1, <3>1, QueueType, ElementsType
      <4>2. 1 \in DOMAIN s.queue[l]
        BY <4>1
      <4>3. QED
        BY <4>2 DEF Elements
    <3>3. QED
      BY <1>1, <1>9, <2>1, <3>1, <3>2 DEF OnNoList, IdleQueued
  <2>2. CASE p # Idle
    <3>1. s.context[Idle] /\ Idle \in Elements(s.queue[i])
      BY <1>1, <2>2 DEF IdleRuns
    <3>2. QED
      BY <1>2, <1>9, <2>2, <3>1 DEF IdleQueued
  <2>3. QED
    BY <2>1, <2>2
<1>14. QED
  BY <1>12, <1>13, SwitchSettled

\* removeFirstLinkOfList: takes the first process of a list of waiters.
LEMMA FirstTaken ==
    ASSUME NEW s, Settled(s), Good(s), NEW l \in WaitLists, s.queue[l] # <<>>
    PROVE  LET r == RemoveFirstLink(s, l)
               p == Head(s.queue[l])
           IN /\ r \in States /\ Placed(r) /\ Alive(r) /\ Owned(r) /\ IsRunning(r)
              /\ \A q \in Processes : q # p => Waits(r, q)
              /\ r.myList[r.active] = NoList /\ IdleRuns(r) /\ Highest(r)
              /\ p \in Processes /\ p # r.active /\ OnNoList(r, p) /\ r.context[p]
              /\ \A k \in Lists : k # l => r.queue[k] = s.queue[k]
              /\ Elements(r.queue[l]) = Elements(s.queue[l]) \ {p}
              /\ r.active = s.active /\ r.owner = s.owner /\ r.inside = s.inside
              /\ r.answering = s.answering /\ r.context = s.context
              /\ r.myList = s.myList /\ p \in Elements(s.queue[l])
<1> DEFINE p == Head(s.queue[l])
           w == [s.queue EXCEPT ![l] = Tail(@)]
           r == [s EXCEPT !.queue = w]
<1>1. /\ s \in States /\ Placed(s) /\ Alive(s) /\ Owned(s)
      /\ \A q \in Processes : Waits(s, q)
      /\ OnNoList(s, s.active) /\ s.active \in Processes
      /\ IsRunning(s) /\ s.myList[s.active] = NoList /\ IdleRuns(s) /\ Highest(s)
  BY SettledParts DEF Settled
<1>2. /\ l \in Lists /\ l \notin Priorities /\ s.queue[l] \in Seq(Processes)
      /\ Distinct(s.queue[l])
  BY <1>1, ListKinds, QueueType DEF Placed
<1>3. RemoveFirstLink(s, l) = r
  BY <1>1 DEF RemoveFirstLink, States
<1>4. /\ Tail(s.queue[l]) \in Seq(Processes) /\ Distinct(Tail(s.queue[l]))
      /\ Elements(Tail(s.queue[l])) = Elements(s.queue[l]) \ {p}
      /\ p \in Elements(s.queue[l])
  BY <1>2, TailDistinct
<1> HIDE DEF p
<1>5. /\ w \in [Lists -> Seq(Processes)]
      /\ w[l] = Tail(s.queue[l]) /\ \A k \in Lists : k # l => w[k] = s.queue[k]
  BY <1>1, <1>2, <1>4 DEF States
<1> HIDE DEF w
<1>6. /\ r \in States /\ r.queue = w /\ r.active = s.active /\ r.owner = s.owner
      /\ r.inside = s.inside /\ r.answering = s.answering
      /\ r.context = s.context /\ r.myList = s.myList
  BY <1>1, <1>5 DEF States
<1> HIDE DEF r
<1>7. Placed(r)
  <2>1. ASSUME NEW k \in Lists
        PROVE  Distinct(w[k]) /\ Elements(w[k]) \subseteq Elements(s.queue[k])
    <3>1. CASE k = l
      BY <1>4, <1>5, <3>1
    <3>2. CASE k # l
      BY <1>1, <1>5, <3>2 DEF Placed
    <3>3. QED
      BY <3>1, <3>2
  <2>2. QED
    BY <1>1, <1>6, <2>1 DEF Placed
<1>8. /\ p \in Processes /\ p # r.active /\ r.context[p] /\ s.myList[p] = l
  <2>1. p \in Processes /\ p # s.active
    BY <1>1, <1>2, <1>4, QueueType DEF OnNoList
  <2>2. QED
    BY <1>1, <1>2, <1>4, <1>6, <2>1 DEF Alive, Placed
<1>9. OnNoList(r, p)
  BY <1>1, <1>4, <1>5, <1>6, <1>8 DEF OnNoList, Placed
<1>10. ASSUME NEW q \in Processes, q # p PROVE Waits(r, q)
  <2> SUFFICES ASSUME NEW k \in WaitLists, q \in Elements(s.queue[k])
               PROVE  q \in Elements(w[k])
    BY <1>1, <1>6 DEF Waits
  <2>1. k \in Lists
    BY ListKinds
  <2>2. QED
    BY <1>4, <1>5, <1>10, <2>1
<1>11. Alive(r)
  <2> SUFFICES ASSUME NEW k \in WaitLists \cup {priority[Idle]},
                      NEW q \in Elements(w[k])
               PROVE  s.context[q] \/ q = s.active
    BY <1>6 DEF Alive
  <2>1. k \in Lists
    BY ListKinds, ProcessAssumption
  <2>2. QED
    BY <1>1, <1>4, <1>5, <2>1 DEF Alive
<1>12. Owned(r)
  <2> SUFFICES ASSUME NEW cs \in CriticalSections, w[cs] # <<>>
               PROVE  s.owner[cs] # Nobody /\ s.owner[cs] \notin Elements(w[cs])
    BY <1>6 DEF Owned
  <2>1. cs \in Lists
    BY DEF Lists
  <2>2. QED
    BY <1>1, <1>2, <1>4, <1>5, <2>1 DEF Owned
<1>13. /\ IsRunning(r) /\ r.myList[r.active] = NoList
  BY <1>1, <1>6 DEF IsRunning
<1>14. IdleRuns(r) /\ Highest(r)
  <2>1. \A k \in Priorities : k \in Lists /\ k # l
    BY <1>2, ListKinds DEF Lists
  <2>2. priority[Idle] \in Priorities
    BY ListKinds, ProcessAssumption
  <2>3. QED
    BY <1>1, <1>5, <1>6, <2>1, <2>2 DEF IdleRuns, Highest
<1>15. QED
  BY <1>3, <1>4, <1>5, <1>6, <1>7, <1>8, <1>9, <1>10, <1>11, <1>12, <1>13, <1>14
     DEF p

\* What changes nothing but the excess signals, the bound or the contexts of
\* the dead keeps Settled.
LEMMA SameSettled ==
    ASSUME NEW s, Settled(s), NEW t,
           t.queue = s.queue, t.myList = s.myList, t.context = s.context,
           t.active = s.active, t.owner = s.owner, t.answering = s.answering,
           t.inside = s.inside
    PROVE  Settled(t)
<1>1. Placed(t) /\ Alive(t) /\ \A q \in Processes : Waits(t, q)
  BY DEF Settled, Placed, Alive, Waits
<1>2. IsRunning(t) /\ t.myList[t.active] = NoList /\ IdleRuns(t) /\ Highest(t)
  BY DEF Settled, IsRunning, IdleRuns, Highest
<1>3. Owned(t) /\ Answered(t)
  BY DEF Settled, Owned, Answered
<1>4. QED
  BY <1>1, <1>2, <1>3 DEF Settled

\* synchronousSignal:
LEMMA SynchronousSignalSettled ==
    ASSUME NEW s, Settled(s), Good(s), NEW x \in Semaphores, NEW yielding
    PROVE  Settled(SynchronousSignal(s, x, yielding))
<1>1. CASE IsEmptyList(s, x)
  <2> DEFINE t == [s EXCEPT !.excess[x] = @ + 1]
  <2>1. SynchronousSignal(s, x, yielding) = t
    BY <1>1 DEF SynchronousSignal
  <2>2. /\ t.queue = s.queue /\ t.myList = s.myList /\ t.context = s.context
        /\ t.active = s.active /\ t.owner = s.owner /\ t.answering = s.answering
        /\ t.inside = s.inside
    BY DEF Good, States
  <2> HIDE DEF t
  <2>3. QED
    BY <2>1, <2>2, SameSettled
<1>2. CASE ~IsEmptyList(s, x)
  <2> DEFINE r == RemoveFirstLink(s, x)
             p == Head(s.queue[x])
  <2>1. SynchronousSignal(s, x, yielding) = Resume(r, p, yielding)
    BY <1>2 DEF SynchronousSignal
  <2>2. x \in WaitLists /\ x \in Lists /\ s.queue[x] # <<>> /\ x \notin CriticalSections
    BY <1>2, ListAssumption DEF WaitLists, Lists, IsEmptyList
  <2>3. Good(r)
    BY <2>2, RemoveFirstLinkGood
  <2>4. /\ Placed(r) /\ Alive(r) /\ Owned(r) /\ IsRunning(r)
        /\ \A q \in Processes : q # p => Waits(r, q)
        /\ r.myList[r.active] = NoList /\ IdleRuns(r) /\ Highest(r)
        /\ p \in Processes /\ p # r.active /\ OnNoList(r, p) /\ r.context[p]
        /\ \A k \in Lists : k # x => r.queue[k] = s.queue[k]
        /\ r.owner = s.owner /\ r.inside = s.inside /\ r.answering = s.answering
    BY ZenonT(60), <2>2, FirstTaken
  <2> HIDE DEF r, p
  <2>5. Answered(r)
    BY <2>2, <2>4 DEF Settled, Answered, Lists
  <2>6. QED
    BY <2>1, <2>3, <2>4, <2>5, ResumeSettled
<1>3. QED
  BY <1>1, <1>2

-----------------------------------------------------------------------------
(* The primitives.                                                         *)

\* LeaveSettled for a process that leaves no answer behind.
LEMMA LeaveSame ==
    ASSUME NEW s, Settled(s), Good(s), NEW l \in Lists \ CriticalSections,
           NEW t, Good(t), Added(s, t, s.active, l),
           \/ l \in WaitLists /\ s.active # Idle
           \/ /\ l = priority[s.active] /\ s.queue[l] # <<>>
              /\ t.queue[l][1] = s.queue[l][1]
    PROVE  Settled(SwitchToHighest(t))
<1>1. [s EXCEPT !.answering = t.answering] = s
  BY DEF Added, Good, States
<1>2. Answered(t)
  <2>1. \A cs \in CriticalSections : t.queue[cs] = s.queue[cs]
    BY DEF Added, Lists
  <2>2. QED
    BY <2>1 DEF Settled, Answered, Added
<1>3. QED
  BY <1>1, <1>2, LeaveSettled

LEMMA WaitSettled ==
    ASSUME Settled(sched), Good(sched), NEW x \in Semaphores, Wait(x)
    PROVE  Settled(sched')
<1>1. CASE sched.excess[x] > 0 /\ Commit([sched EXCEPT !.excess[x] = @ - 1])
  <2> DEFINE t == [sched EXCEPT !.excess[x] = @ - 1]
  <2>1. /\ t.queue = sched.queue /\ t.myList = sched.myList
        /\ t.context = sched.context /\ t.active = sched.active
        /\ t.owner = sched.owner /\ t.answering = sched.answering
        /\ t.inside = sched.inside
    BY DEF Good, States
  <2>2. sched' = t
    BY <1>1 DEF Commit, Becomes
  <2> HIDE DEF t
  <2>3. QED
    BY <2>1, <2>2, SameSettled
<1>2. CASE /\ sched.excess[x] = 0 /\ sched.active # Idle
           /\ Commit(SwitchToHighest(AddLastLink(sched, sched.active, x)))
  <2> DEFINE t == AddLastLink(sched, sched.active, x)
  <2>1. /\ x \in Lists \ CriticalSections /\ x \in WaitLists /\ x \notin Priorities
        /\ sched.active \in Processes /\ OnNoList(sched, sched.active)
        /\ Placed(sched) /\ sched \in States
    BY SettledParts, ListAssumption DEF Lists, WaitLists
  <2>2. MayQueue(sched, x)
    BY <1>2, <2>1 DEF MayQueue
  <2>3. Good(t)
    BY <2>1, <2>2, AddLastLinkGood
  <2>4. Added(sched, t, sched.active, x)
    BY <2>1, AddLastLinkAdds DEF Placed, OnNoList
  <2>5. sched' = SwitchToHighest(t)
    BY <1>2 DEF Commit, Becomes
  <2> HIDE DEF t
  <2>6. QED
    BY <1>2, <2>1, <2>3, <2>4, <2>5, LeaveSame
<1>3. QED
  BY <1>1, <1>2 DEF Wait

LEMMA YieldSettled ==
    ASSUME Settled(sched), Good(sched), Yield
    PROVE  Settled(sched')
<1> DEFINE l == priority[sched.active]
           t == AddLastLink(sched, sched.active, l)
<1>1. /\ sched.active \in Processes /\ OnNoList(sched, sched.active)
      /\ Placed(sched) /\ sched \in States
  BY SettledParts
<1>2. sched.queue[l] # <<>> /\ sched' = SwitchToHighest(t)
  BY DEF Yield, IsEmptyList, Commit, Becomes
<1>3. /\ l \in Priorities /\ l \in Lists \ CriticalSections /\ l \notin Semaphores
      /\ l \in Int
  BY <1>1, ListKinds, ListAssumption
<1>4. MayQueue(sched, l)
  <2>1. sched.highest = 0 \/ ~(l > sched.highest)
    BY <1>2, <1>3 DEF Good, Bounded
  <2>2. QED
    BY <1>1, <1>3, <2>1, HighestType DEF MayQueue
<1>5. Good(t)
  BY <1>1, <1>3, <1>4, AddLastLinkGood
<1>6. Added(sched, t, sched.active, l) /\ t.queue[l][1] = sched.queue[l][1]
  BY <1>1, <1>2, <1>3, AddLastLinkAdds DEF Placed, OnNoList
<1> HIDE DEF t
<1>7. QED
  BY <1>2, <1>3, <1>5, <1>6, LeaveSame

LEMMA PrimitiveResumeSettled ==
    ASSUME Settled(sched), Good(sched), NEW p \in Processes, PrimitiveResume(p)
    PROVE  Settled(sched')
<1>1. /\ sched.context[p] /\ OnNoList(sched, p)
      /\ sched' = Resume(sched, p, preemptionYields)
  BY DEF PrimitiveResume, OnNoList, Commit, Becomes
<1>2. p # sched.active
  BY <1>1, SettledParts
<1>3. QED
  BY <1>1, <1>2, ResumeSettled DEF Settled

LEMMA PrimitiveSuspendSettled ==
    ASSUME Settled(sched), Good(sched), NEW p \in Processes, PrimitiveSuspend(p)
    PROVE  Settled(sched')
<1>1. /\ sched \in States /\ Placed(sched) /\ Alive(sched) /\ Owned(sched)
      /\ Answered(sched) /\ \A q \in Processes : Waits(sched, q)
      /\ sched.active \in Processes /\ ~sched.context[sched.active]
      /\ OnNoList(sched, sched.active) /\ p # Idle
      /\ IsRunning(sched) /\ sched.myList[sched.active] = NoList
      /\ IdleRuns(sched) /\ Highest(sched)
  BY SettledParts DEF PrimitiveSuspend, Settled
<1>2. CASE p = sched.active /\ Commit(SwitchToHighest(sched))
  <2>1. Leaving(sched)
    BY <1>1 DEF Leaving
  <2>2. IdleQueued(sched) /\ sched.active # Idle
    BY <1>1, <1>2 DEF IdleRuns, IdleQueued
  <2>3. sched' = SwitchToHighest(sched)
    BY <1>2 DEF Commit, Becomes
  <2>4. QED
    BY <2>1, <2>2, <2>3, SwitchSettled
<1>3. CASE LET l == sched.myList[p]
           IN /\ p # sched.active
              /\ l # NoList
              /\ p \in Elements(sched.queue[l])
              /\ SuspendsEnterers \/ sched.answering[p] = {}
              /\ Commit([RemoveProcess(sched, p, l) EXCEPT !.myList[p] = NoList])
  <2> DEFINE l   == sched.myList[p]
             seq == sched.queue[l]
             at  == CHOOSE k \in DOMAIN seq : seq[k] = p
             new == SubSeq(seq, 1, at - 1) \o SubSeq(seq, at + 1, Len(seq))
             w   == [sched.queue EXCEPT ![l] = new]
             m   == [sched.myList EXCEPT ![p] = NoList]
             t   == [sched EXCEPT !.queue = w, !.myList = m]
  <2>1. /\ l \in Lists /\ p \in Elements(seq) /\ p # sched.active
        /\ SuspendsEnterers \/ sched.answering[p] = {}
    BY <1>1, <1>3 DEF States
  <2>2. sched' = t
    BY <1>1, <1>3 DEF Commit, Becomes, RemoveProcess, States
  <2> HIDE DEF l
  <2>3. seq \in Seq(Processes) /\ DOMAIN seq = 1 .. Len(seq) /\ Distinct(seq)
    BY <1>1, <2>1, QueueType, ElementsType DEF Placed
  <2>4. at \in DOMAIN seq /\ seq[at] = p
    BY <2>1 DEF Elements
  <2> HIDE DEF at
  <2>5. Distinct(new) /\ Elements(new) = Elements(seq) \ {p}
    BY <2>3, <2>4, RemoveDistinct, Zenon
  <2>6. w[l] = new /\ \A k \in Lists : k # l => w[k] = sched.queue[k]
    BY <1>1, <2>1 DEF States
  <2>7. m[p] = NoList /\ \A q \in Processes : q # p => m[q] = sched.myList[q]
    BY <1>1 DEF States
  <2> HIDE DEF w, m, new
  <2>8. /\ t.queue = w /\ t.myList = m /\ t.context = sched.context
        /\ t.active = sched.active /\ t.owner = sched.owner
        /\ t.answering = sched.answering /\ t.inside = sched.inside
    BY <1>1 DEF States
  <2> HIDE DEF t
\* Every list loses at most p.
  <2>9. ASSUME NEW k \in Lists
        PROVE  /\ Distinct(w[k])
               /\ Elements(w[k]) = Elements(sched.queue[k]) \ {p}
               /\ w[k] # <<>> => sched.queue[k] # <<>>
    <3>1. CASE k = l
      BY <2>1, <2>5, <2>6, <3>1 DEF Elements
    <3>2. CASE k # l
      <4>1. p \notin Elements(sched.queue[k])
        BY <1>1, <3>2 DEF Placed, l
      <4>2. QED
        BY <1>1, <2>6, <3>2, <4>1 DEF Placed
    <3>3. QED
      BY <3>1, <3>2
  <2>10. Placed(t)
    <3> SUFFICES ASSUME NEW k \in Lists, NEW q \in Elements(w[k])
                 PROVE  m[q] = k /\ (k \in Priorities => priority[q] = k)
      BY <2>8, <2>9 DEF Placed
    <3>1. q \in Elements(sched.queue[k]) /\ q # p /\ q \in Processes
      BY <1>1, <2>9, QueueType
    <3>2. QED
      BY <1>1, <2>7, <3>1 DEF Placed
  <2>11. ASSUME NEW q \in Processes PROVE Waits(t, q)
    <3> SUFFICES ASSUME NEW k \in WaitLists, m[q] = k,
                        sched.context[q] \/ sched.active = q
                 PROVE  q \in Elements(w[k])
      BY <2>8 DEF Waits
    <3>1. k \in Lists /\ q # p
      BY <2>7, ListKinds
    <3>2. QED
      BY <1>1, <2>7, <2>9, <3>1 DEF Waits
  <2>12. Alive(t)
    <3>1. \A k \in WaitLists \cup {priority[Idle]} : k \in Lists
      BY ListKinds, ProcessAssumption
    <3>2. QED
      BY <1>1, <2>8, <2>9, <3>1 DEF Alive
  <2>13. IsRunning(t) /\ t.myList[t.active] = NoList
    BY <1>1, <2>1, <2>7, <2>8 DEF IsRunning
  <2>14. IdleRuns(t) /\ Highest(t)
    <3>1. priority[Idle] \in Lists /\ \A k \in Priorities : k \in Lists
      BY ListKinds, ProcessAssumption DEF Lists
    <3>2. QED
      BY <1>1, <2>8, <2>9, <3>1 DEF IdleRuns, Highest
  <2>15. Owned(t) /\ Answered(t)
    <3>1. \A cs \in CriticalSections : cs \in Lists
      BY DEF Lists
    <3>2. Owned(t)
      BY <1>1, <2>8, <2>9, <3>1 DEF Owned
    <3>3. Answered(t)
      BY <1>1, <2>1, <2>8, <2>9, <3>1 DEF Answered
    <3>4. QED
      BY <3>2, <3>3
  <2>16. QED
    BY <2>2, <2>10, <2>11, <2>12, <2>13, <2>14, <2>15 DEF Settled
<1>4. QED
  BY <1>2, <1>3 DEF PrimitiveSuspend

LEMMA TerminateSettled ==
    ASSUME Settled(sched), Good(sched), NEW p \in Processes, Terminate(p)
    PROVE  Settled(sched')
<1> DEFINE c == [sched.context EXCEPT ![p] = FALSE]
           t == [sched EXCEPT !.context = c]
<1>1. /\ sched' = t /\ p # Idle /\ p # sched.active
      /\ sched.myList[p] \in Priorities \ {priority[Idle]}
  BY DEF Terminate
<1>2. /\ sched \in States /\ Placed(sched) /\ Alive(sched) /\ Owned(sched)
      /\ Answered(sched) /\ \A q \in Processes : Waits(sched, q)
      /\ IsRunning(sched) /\ sched.myList[sched.active] = NoList
      /\ IdleRuns(sched) /\ Highest(sched)
  BY SettledParts DEF Settled
<1>3. ~c[p] /\ \A q \in Processes : q # p => c[q] = sched.context[q]
  BY <1>2 DEF States
<1> HIDE DEF c
<1>4. /\ t.queue = sched.queue /\ t.myList = sched.myList /\ t.context = c
      /\ t.active = sched.active /\ t.owner = sched.owner
      /\ t.answering = sched.answering /\ t.inside = sched.inside
  BY <1>2 DEF States
<1> HIDE DEF t
<1>5. Alive(t)
  <2> SUFFICES ASSUME NEW l \in WaitLists \cup {priority[Idle]},
                      NEW q \in Elements(sched.queue[l])
               PROVE  c[q] \/ q = sched.active
    BY <1>4 DEF Alive
  <2>1. l \in Lists /\ (l \in WaitLists => l \notin Priorities)
    BY ListKinds, ProcessAssumption
  <2>2. q # p /\ q \in Processes
    BY <1>1, <1>2, <2>1, QueueType DEF Placed
  <2>3. QED
    BY <1>2, <1>3, <2>2 DEF Alive
<1>6. Placed(t) /\ \A q \in Processes : Waits(t, q)
  BY <1>1, <1>2, <1>3, <1>4 DEF Placed, Waits
<1>7. /\ IsRunning(t) /\ t.myList[t.active] = NoList /\ IdleRuns(t) /\ Highest(t)
  BY <1>1, <1>2, <1>3, <1>4, ProcessAssumption DEF IsRunning, IdleRuns, Highest
<1>8. Owned(t) /\ Answered(t)
  BY <1>2, <1>4 DEF Owned, Answered
<1>9. QED
  BY <1>1, <1>2, <1>5, <1>6, <1>7, <1>8 DEF Settled

\* A critical section nobody owns has no waiters and nobody inside.
LEMMA TakeSettled ==
    ASSUME NEW s, Settled(s), Good(s), NEW cs \in CriticalSections,
           s.owner[cs] = Nobody
    PROVE  Settled(Take(s, cs))
<1> DEFINE p == s.active
           o == [s.owner EXCEPT ![cs] = p]
           i == [s.inside EXCEPT ![cs] = @ \cup {p}]
           t == [s EXCEPT !.owner = o, !.inside = i]
<1>1. /\ s \in States /\ Placed(s) /\ Alive(s) /\ Owned(s) /\ Answered(s)
      /\ \A q \in Processes : Waits(s, q)
      /\ p \in Processes /\ IsRunning(s) /\ s.myList[s.active] = NoList
      /\ IdleRuns(s) /\ Highest(s)
  BY SettledParts DEF Settled
<1>2. Take(s, cs) = t
  BY DEF Take
<1>3. /\ o[cs] = p /\ i[cs] = s.inside[cs] \cup {p}
      /\ \A k \in CriticalSections : k # cs =>
            o[k] = s.owner[k] /\ i[k] = s.inside[k]
      /\ s.inside[cs] \subseteq Processes
  BY <1>1 DEF States
<1> HIDE DEF o, i
<1>4. /\ t.queue = s.queue /\ t.myList = s.myList /\ t.context = s.context
      /\ t.active = s.active /\ t.owner = o /\ t.answering = s.answering
      /\ t.inside = i
  BY <1>1 DEF States
<1> HIDE DEF t
<1>5. s.queue[cs] = <<>> /\ Elements(s.queue[cs]) = {}
  BY <1>1 DEF Owned, Elements
<1>6. Owned(t)
  BY <1>1, <1>3, <1>4, <1>5 DEF Owned
<1>7. Answered(t)
  <2> SUFFICES ASSUME ~SuspendsEnterers, NEW k \in CriticalSections
               PROVE  /\ i[k] \subseteq {o[k]}
                      /\ \A q \in Processes : k \in s.answering[q] =>
                            q \in Elements(s.queue[k]) \/ o[k] = q
    BY <1>4 DEF Answered
  <2>1. /\ s.inside[k] \subseteq {s.owner[k]}
        /\ \A q \in Processes : k \in s.answering[q] =>
              q \in Elements(s.queue[k]) \/ s.owner[k] = q
    BY <1>1 DEF Answered
  <2>2. CASE k = cs
    <3>1. s.inside[cs] = {}
      BY <1>3, <2>1, <2>2, ProcessAssumption
    <3>2. \A q \in Processes : k \notin s.answering[q]
      BY <1>5, <2>1, <2>2, ProcessAssumption
    <3>3. QED
      BY <1>3, <2>2, <3>1, <3>2
  <2>3. CASE k # cs
    BY <1>3, <2>1, <2>3
  <2>4. QED
    BY <2>2, <2>3
<1>8. Placed(t) /\ Alive(t) /\ \A q \in Processes : Waits(t, q)
  BY <1>1, <1>4 DEF Placed, Alive, Waits
<1>9. IsRunning(t) /\ t.myList[t.active] = NoList /\ IdleRuns(t) /\ Highest(t)
  BY <1>1, <1>4 DEF IsRunning, IdleRuns, Highest
<1>10. QED
  BY <1>2, <1>6, <1>7, <1>8, <1>9 DEF Settled

LEMMA EnterSettled ==
    ASSUME Settled(sched), Good(sched), NEW cs \in CriticalSections,
           EnterCriticalSection(cs)
    PROVE  Settled(sched')
<1> DEFINE p == sched.active
           a == [sched.answering EXCEPT ![p] = @ \cup {cs}]
           r == [sched EXCEPT !.answering = a]
<1>1. /\ sched \in States /\ Placed(sched) /\ Answered(sched)
      /\ p \in Processes /\ OnNoList(sched, p) /\ sched.answering[p] = {}
  BY SettledParts
<1>2. CASE sched.owner[cs] = Nobody /\ Commit(Take(sched, cs))
  BY <1>2, TakeSettled DEF Commit, Becomes
<1>3. CASE Commit(sched)
  BY <1>3 DEF Commit, Becomes
<1>4. CASE /\ sched.owner[cs] \notin {Nobody, p} /\ p # Idle
           /\ Commit(SwitchToHighest(AddLastLink(r, p, cs)))
  <2> DEFINE t == AddLastLink(r, p, cs)
  <2>1. /\ a \in [Processes -> SUBSET CriticalSections]
        /\ a[p] = {cs} /\ \A q \in Processes : q # p => a[q] = sched.answering[q]
    BY <1>1 DEF States
  <2> HIDE DEF a
  <2>2. /\ r \in States /\ r.queue = sched.queue /\ r.highest = sched.highest
        /\ r.excess = sched.excess /\ r.active = p /\ r.answering = a
        /\ r.owner = sched.owner /\ r.inside = sched.inside
    BY <1>1, <2>1 DEF States
  <2>3. r = [sched EXCEPT !.answering = r.answering]
    BY <2>2
  <2> HIDE DEF r
  <2>4. Good(r)
    BY <2>2, SameQueuesGood
  <2>5. /\ cs \in Lists /\ cs \in WaitLists /\ MayQueue(r, cs)
    BY ListAssumption DEF Lists, WaitLists, MayQueue
  <2>6. Good(t)
    BY <1>1, <2>4, <2>5, AddLastLinkGood
  <2>7. Added(r, t, p, cs)
    BY <1>1, <2>2, <2>5, AddLastLinkAdds DEF Placed, OnNoList
  <2>8. sched' = SwitchToHighest(t)
    BY <1>4 DEF Commit, Becomes
  <2> HIDE DEF t
  <2>9. Answered(t)
    <3> SUFFICES ASSUME ~SuspendsEnterers, NEW k \in CriticalSections
                 PROVE  /\ t.inside[k] \subseteq {t.owner[k]}
                        /\ \A q \in Processes : k \in t.answering[q] =>
                              q \in Elements(t.queue[k]) \/ t.owner[k] = q
      BY DEF Answered
    <3>1. /\ t.inside = sched.inside /\ t.owner = sched.owner /\ t.answering = a
          /\ Elements(sched.queue[k]) \subseteq Elements(t.queue[k])
          /\ p \in Elements(t.queue[cs])
      BY <2>2, <2>7 DEF Added, Lists
    <3>2. QED
      BY <1>1, <2>1, <3>1 DEF Answered
  <2>10. Added([sched EXCEPT !.answering = t.answering], t, p, cs)
    <3>1. t.answering = r.answering
      BY <2>7 DEF Added
    <3>2. QED
      BY <2>3, <2>7, <3>1
  <2>11. QED
    BY <1>4, <2>5, <2>6, <2>8, <2>9, <2>10, LeaveSettled
<1>5. QED
  BY <1>2, <1>3, <1>4 DEF EnterCriticalSection

LEMMA ExitSettled ==
    ASSUME Settled(sched), Good(sched), NEW cs \in CriticalSections,
           ExitCriticalSection(cs)
    PROVE  Settled(sched')
<1> DEFINE p   == sched.active
           i   == [sched.inside EXCEPT ![cs] = @ \ {p}]
           out == [sched EXCEPT !.inside = i]
<1>1. /\ sched \in States /\ Placed(sched) /\ Alive(sched) /\ Owned(sched)
      /\ Answered(sched) /\ \A q \in Processes : Waits(sched, q)
      /\ p \in Processes /\ sched.answering[p] = {}
      /\ IsRunning(sched) /\ sched.myList[p] = NoList
      /\ IdleRuns(sched) /\ Highest(sched)
  BY SettledParts DEF Settled
<1>2. /\ p \in sched.inside[cs]
      /\ IF IsEmptyList(out, cs)
         THEN sched' = [out EXCEPT !.owner[cs] = Nobody]
         ELSE sched' = Resume([RemoveFirstLink(out, cs)
                                 EXCEPT !.owner[cs] = Head(out.queue[cs])],
                              Head(out.queue[cs]), preemptionYields)
  BY DEF ExitCriticalSection, Commit, Becomes
<1>3. /\ i \in [CriticalSections -> SUBSET Processes]
      /\ i[cs] = sched.inside[cs] \ {p}
      /\ \A k \in CriticalSections : k # cs => i[k] = sched.inside[k]
  BY <1>1 DEF States
<1> HIDE DEF i
<1>4. /\ out \in States /\ out.queue = sched.queue /\ out.myList = sched.myList
      /\ out.context = sched.context /\ out.active = p
      /\ out.owner = sched.owner /\ out.answering = sched.answering
      /\ out.inside = i /\ out.highest = sched.highest /\ out.excess = sched.excess
  BY <1>1, <1>3 DEF States
<1>5. Good(out)
  BY <1>4, SameQueuesGood
\* Once the active process is out, nobody is in or about to be told so except
\* the waiters.
<1>6. ASSUME ~SuspendsEnterers
      PROVE  /\ i[cs] = {}
             /\ \A q \in Processes : cs \in sched.answering[q] =>
                   q \in Elements(sched.queue[cs])
  <2>1. /\ sched.inside[cs] \subseteq {sched.owner[cs]}
        /\ \A q \in Processes : cs \in sched.answering[q] =>
              q \in Elements(sched.queue[cs]) \/ sched.owner[cs] = q
    BY <1>1, <1>6 DEF Answered
  <2>2. sched.owner[cs] = p
    BY <1>2, <2>1
  <2>3. QED
    BY <1>1, <1>3, <2>1, <2>2
<1>7. CASE IsEmptyList(out, cs)
  <2> DEFINE o == [out.owner EXCEPT ![cs] = Nobody]
             t == [out EXCEPT !.owner = o]
  <2>1. sched' = t /\ sched.queue[cs] = <<>>
    BY <1>2, <1>4, <1>7 DEF IsEmptyList
  <2>2. /\ o[cs] = Nobody
        /\ \A k \in CriticalSections : k # cs => o[k] = sched.owner[k]
    BY <1>1, <1>4 DEF States
  <2> HIDE DEF o
  <2>3. /\ t.queue = sched.queue /\ t.myList = sched.myList
        /\ t.context = sched.context /\ t.active = p /\ t.owner = o
        /\ t.answering = sched.answering /\ t.inside = i
    BY <1>4 DEF States
  <2> HIDE DEF t, out
  <2>4. Owned(t)
    BY <1>1, <2>1, <2>2, <2>3 DEF Owned
  <2>5. Answered(t)
    <3> SUFFICES ASSUME ~SuspendsEnterers, NEW k \in CriticalSections
                 PROVE  /\ i[k] \subseteq {o[k]}
                        /\ \A q \in Processes : k \in sched.answering[q] =>
                              q \in Elements(sched.queue[k]) \/ o[k] = q
      BY <2>3 DEF Answered
    <3>1. CASE k = cs
      BY <1>6, <3>1
    <3>2. CASE k # cs
      BY <1>1, <1>3, <2>2, <3>2 DEF Answered
    <3>3. QED
      BY <3>1, <3>2
  <2>6. Placed(t) /\ Alive(t) /\ \A q \in Processes : Waits(t, q)
    BY <1>1, <2>3 DEF Placed, Alive, Waits
  <2>7. IsRunning(t) /\ t.myList[t.active] = NoList /\ IdleRuns(t) /\ Highest(t)
    BY <1>1, <2>3 DEF IsRunning, IdleRuns, Highest
  <2>8. QED
    BY <2>1, <2>4, <2>5, <2>6, <2>7 DEF Settled
<1>8. CASE ~IsEmptyList(out, cs)
  <2> DEFINE next == Head(sched.queue[cs])
             r    == RemoveFirstLink(sched, cs)
             w    == [sched.queue EXCEPT ![cs] = Tail(@)]
             o    == [sched.owner EXCEPT ![cs] = next]
             t    == [out EXCEPT !.queue = w, !.owner = o]
  <2>1. sched.queue[cs] # <<>> /\ cs \in WaitLists /\ cs \in Lists
    BY <1>4, <1>8 DEF IsEmptyList, WaitLists, Lists
  <2>2. sched' = Resume(t, next, preemptionYields)
    BY <1>2, <1>4, <1>8 DEF RemoveFirstLink, States
  <2>3. /\ r \in States /\ Placed(r) /\ Alive(r) /\ Owned(r) /\ IsRunning(r)
        /\ \A q \in Processes : q # next => Waits(r, q)
        /\ r.myList[r.active] = NoList /\ IdleRuns(r) /\ Highest(r)
        /\ next \in Processes /\ next # r.active /\ OnNoList(r, next)
        /\ r.context[next]
        /\ \A k \in Lists : k # cs => r.queue[k] = sched.queue[k]
        /\ Elements(r.queue[cs]) = Elements(sched.queue[cs]) \ {next}
        /\ r.active = sched.active /\ r.owner = sched.owner
        /\ r.inside = sched.inside /\ r.answering = sched.answering
        /\ r.context = sched.context /\ r.myList = sched.myList
        /\ next \in Elements(sched.queue[cs])
    BY ZenonT(60), <2>1, FirstTaken
  <2>4. r.queue = w
    BY <1>1 DEF RemoveFirstLink, States
  <2>5. Good(r)
    BY <2>1, RemoveFirstLinkGood
  <2>6. r.highest = sched.highest /\ r.excess = sched.excess
    BY <1>1 DEF RemoveFirstLink, States
  <2> HIDE DEF r, next
  <2>7. /\ o \in [CriticalSections -> Processes \cup {Nobody}] /\ o[cs] = next
        /\ \A k \in CriticalSections : k # cs => o[k] = sched.owner[k]
    BY <1>1, <2>3 DEF States
  <2>8. w \in [Lists -> Seq(Processes)]
    BY <2>3, <2>4 DEF States
  <2> HIDE DEF w, o
  <2>9. /\ t \in States /\ t.queue = r.queue /\ t.myList = r.myList
        /\ t.context = r.context /\ t.active = r.active /\ t.owner = o
        /\ t.answering = r.answering /\ t.inside = i
        /\ t.highest = r.highest /\ t.excess = r.excess
    BY <1>4, <2>3, <2>4, <2>6, <2>7, <2>8 DEF States
  <2> HIDE DEF t, out
  <2>10. Good(t)
    BY <2>5, <2>9, SameQueuesGood
  <2>11. /\ Placed(t) /\ Alive(t) /\ \A q \in Processes : q # next => Waits(t, q)
         /\ OnNoList(t, next) /\ t.context[next] /\ next # t.active
    BY <2>3, <2>9 DEF Placed, Alive, Waits, OnNoList
  <2>12. IsRunning(t) /\ t.myList[t.active] = NoList /\ IdleRuns(t) /\ Highest(t)
    BY <2>3, <2>9 DEF IsRunning, IdleRuns, Highest
  <2>13. Owned(t)
    <3> SUFFICES ASSUME NEW k \in CriticalSections, r.queue[k] # <<>>
                 PROVE  o[k] # Nobody /\ o[k] \notin Elements(r.queue[k])
      BY <2>9 DEF Owned
    <3>1. CASE k = cs
      BY <2>3, <2>7, <3>1, ProcessAssumption
    <3>2. CASE k # cs
      BY <2>3, <2>7, <3>2 DEF Owned
    <3>3. QED
      BY <3>1, <3>2
  <2>14. Answered(t)
    <3> SUFFICES ASSUME ~SuspendsEnterers, NEW k \in CriticalSections
                 PROVE  /\ i[k] \subseteq {o[k]}
                        /\ \A q \in Processes : k \in sched.answering[q] =>
                              q \in Elements(r.queue[k]) \/ o[k] = q
      BY <2>3, <2>9 DEF Answered
    <3>1. CASE k = cs
      BY <1>6, <2>3, <2>7, <3>1
    <3>2. CASE k # cs
      <4>1. r.queue[k] = sched.queue[k]
        BY <2>3, <3>2 DEF Lists
      <4>2. QED
        BY <1>1, <1>3, <2>7, <3>2, <4>1 DEF Answered
    <3>3. QED
      BY <3>1, <3>2
  <2>15. QED
    BY <2>2, <2>3, <2>10, <2>11, <2>12, <2>13, <2>14, ResumeSettled
<1>9. QED
  BY <1>7, <1>8

LEMMA CheckEventSettled ==
    ASSUME Settled(sched), Good(sched), CheckEvent
    PROVE  Settled(sched')
<1> DEFINE x == EventSemaphore[EventOrder[check]]
<1>1. x # NoSemaphore => x \in Semaphores
  BY EventOrderType, EventAssumption DEF CheckEvent
<1>2. \/ sched' = sched
      \/ x # NoSemaphore /\ sched' = SynchronousSignal(sched, x, preemptionYields)
  BY DEF CheckEvent, Becomes
<1> HIDE DEF x
<1>3. QED
  BY <1>1, <1>2, SynchronousSignalSettled

-----------------------------------------------------------------------------
(* The inductive invariant and the theorems.                               *)

PlacesInv == SchedulerInv /\ Settled(sched)

LEMMA InitSettled == Init => Settled(sched)
<1> SUFFICES ASSUME Init PROVE Settled(sched)
  OBVIOUS
<1>1. Distinct(<<>>) /\ Elements(<<>>) = {}
  BY DEF Distinct, Elements
<1>2. /\ sched.active = Idle /\ \A l \in Lists : sched.queue[l] = <<>>
      /\ \A p \in Processes : /\ sched.myList[p] = NoList
                              /\ sched.context[p] = (p # Idle)
                              /\ sched.answering[p] = {}
      /\ \A cs \in CriticalSections : sched.inside[cs] = {}
  BY DEF Init
<1>3. /\ \A l \in WaitLists \cup {priority[Idle]} : l \in Lists
      /\ \A l \in Priorities : l \in Lists
      /\ \A cs \in CriticalSections : cs \in Lists
      /\ \A l \in WaitLists : l # NoList
  BY ListKinds, ProcessAssumption DEF Lists
<1>4. Placed(sched) /\ Alive(sched) /\ \A p \in Processes : Waits(sched, p)
  BY <1>1, <1>2, <1>3 DEF Placed, Alive, Waits
<1>5. /\ IsRunning(sched) /\ sched.myList[sched.active] = NoList
      /\ IdleRuns(sched) /\ Highest(sched)
  BY <1>2, <1>3, ProcessAssumption DEF IsRunning, IdleRuns, Highest
<1>6. Owned(sched) /\ Answered(sched)
  BY <1>2, <1>3 DEF Owned, Answered
<1>7. QED
  BY <1>4, <1>5, <1>6 DEF Settled

\* Every action leaves the processes where they belong.
LEMMA NextSettled == PlacesInv /\ [Next]_vars => Settled(sched)'
<1> SUFFICES ASSUME Settled(sched), Good(sched), [Next]_vars
             PROVE  Settled(sched')
  BY DEF PlacesInv, SchedulerInv
<1>1. ASSUME NEW x \in Semaphores, Signal(x) \/ SignalExternal(x)
      PROVE  Settled(sched')
  BY <1>1, SynchronousSignalSettled DEF Signal, SignalExternal, Commit, Becomes
<1>2. ASSUME NEW x \in Semaphores, Wait(x)
      PROVE  Settled(sched')
  BY <1>2, WaitSettled
<1>3. CASE Yield
  BY <1>3, YieldSettled
<1>4. ASSUME NEW p \in Processes,
             PrimitiveResume(p) \/ PrimitiveSuspend(p) \/ Terminate(p)
      PROVE  Settled(sched')
  BY <1>4, PrimitiveResumeSettled, PrimitiveSuspendSettled, TerminateSettled
<1>5. ASSUME NEW cs \in CriticalSections,
             EnterCriticalSection(cs) \/ ExitCriticalSection(cs)
      PROVE  Settled(sched')
  BY <1>5, EnterSettled, ExitSettled
<1>6. ASSUME NEW cs \in CriticalSections, TestAndSetOwnership(cs)
      PROVE  Settled(sched')
  BY <1>6, TakeSettled DEF TestAndSetOwnership, Commit, Becomes
<1>7. CASE CheckEvent
  BY <1>7, CheckEventSettled
<1>8. ASSUME \/ \E e \in RaisedEvents : Raise(e)
             \/ EnterEventCheck \/ LeaveEventCheck \/ SetCogVMFlags
             \/ UNCHANGED vars
      PROVE  Settled(sched')
  <2>1. sched' = sched
    BY <1>8 DEF Raise, EnterEventCheck, LeaveEventCheck, SetCogVMFlags, vars
  <2>2. QED
    BY <2>1
<1>9. QED
  BY <1>1, <1>2, <1>3, <1>4, <1>5, <1>6, <1>7, <1>8 DEF Next

LEMMA PlacesInvariant == Spec => []PlacesInv
<1>1. Init => PlacesInv
  BY InitGood, InitSettled DEF PlacesInv
<1>2. PlacesInv /\ [Next]_vars => PlacesInv'
  BY NextGood, NextFlags, NextSettled DEF PlacesInv, SchedulerInv
<1>3. QED
  BY <1>1, <1>2, PTL DEF Spec

\* The active process is never of a lower priority than one on a run queue,
\* whatever the event check, a signal or a hand-over woke before.
THEOREM HighestRuns == Spec => []ActiveIsHighest
<1>1. PlacesInv => ActiveIsHighest
  BY DEF PlacesInv, Settled, Highest, ActiveIsHighest
<1>2. QED
  BY PlacesInvariant, <1>1, PTL

\* A process is once on the list its back pointer names, or runs and is on
\* none; one with a context whose back pointer names a semaphore or a critical
\* section waits there.
THEOREM EachInItsPlace == Spec => []ProcessInOnePlace
<1>1. PlacesInv => ProcessInOnePlace
  <2> SUFFICES ASSUME Settled(sched) PROVE ProcessInOnePlace
    BY DEF PlacesInv
  <2>1. ASSUME NEW l \in Lists, NEW k \in DOMAIN sched.queue[l]
        PROVE  /\ sched.myList[sched.queue[l][k]] = l
               /\ \A j \in DOMAIN sched.queue[l] :
                     sched.queue[l][j] = sched.queue[l][k] => j = k
    BY DEF Settled, Placed, Distinct, Elements
  <2>2. \A p \in Processes : \A l \in WaitLists :
           sched.context[p] /\ sched.myList[p] = l => p \in Elements(sched.queue[l])
    BY DEF Settled, Waits
  <2>3. sched.myList[sched.active] = NoList
    BY DEF Settled
  <2>4. QED
    BY <2>1, <2>2, <2>3 DEF ProcessInOnePlace, WaitLists
<1>2. QED
  BY PlacesInvariant, <1>1, PTL

\* A critical section that processes wait for has an owner, not one of them.
THEOREM ContendedHasOwner == Spec => []ContendedIsOwned
<1>1. PlacesInv => ContendedIsOwned
  BY DEF PlacesInv, Settled, Owned, ContendedIsOwned, IsEmptyList
<1>2. QED
  BY PlacesInvariant, <1>1, PTL

\* There is always a process to run: Idle is on its queue when another runs.
THEOREM NeverStops == Spec => []SomethingToRun
<1>1. PlacesInv => SomethingToRun
  BY DEF PlacesInv, Settled, IsRunning, SomethingToRun, Running
<1>2. QED
  BY PlacesInvariant, <1>1, PTL

\* While no process that waits for a critical section is ever suspended, a
\* process told that it entered one owns it until it exits.
THEOREM EnteredIsOwner == Spec => [](~SuspendsEnterers => InsideIsOwner)
<1>1. PlacesInv => (~SuspendsEnterers => InsideIsOwner)
  BY DEF PlacesInv, Settled, Answered, InsideIsOwner
<1>2. QED
  BY PlacesInvariant, <1>1, PTL

-----------------------------------------------------------------------------
(* A preempted process keeps its turn.                                     *)

\* A step from s to t preempts the active process, which is left as yielding
\* says before or behind those that were queued at its priority.
KeepsTurn(s, t, yielding) ==
    LET p == s.active
    IN /\ t.myList[p] = priority[p]
       /\ t.active \in Processes
       /\ priority[t.active] > priority[p]
       => \A q \in Elements(s.queue[priority[p]]) :
             IF yielding THEN Ahead(t.queue[priority[p]], q, p)
                         ELSE Ahead(t.queue[priority[p]], p, q)

\* The last element is behind all others, the first ahead of them.
LEMMA EndsAhead ==
    ASSUME NEW S, NEW seq \in Seq(S), NEW p \in S, p \notin Elements(seq),
           NEW q \in Elements(seq)
    PROVE  Ahead(Append(seq, p), q, p) /\ Ahead(<<p>> \o seq, p, q)
<1> DEFINE n == Len(seq)
           a == Append(seq, p)
           b == <<p>> \o seq
<1>1. n \in Nat /\ q # p /\ \A k \in 1 .. n : seq[k] # p
  BY ElementsType
<1>2. /\ DOMAIN a = 1 .. n + 1 /\ a[n + 1] = p
      /\ \A k \in 1 .. n : a[k] = seq[k]
  OBVIOUS
<1>3. /\ DOMAIN b = 1 .. n + 1 /\ b[1] = p
      /\ \A k \in 2 .. n + 1 : b[k] = seq[k - 1]
  OBVIOUS
<1> HIDE DEF n, a, b
<1>4. ASSUME NEW j \in DOMAIN a, NEW k \in DOMAIN a, a[j] = q, a[k] = p
      PROVE  j < k
  <2>1. k = n + 1 /\ j # n + 1
    BY <1>1, <1>2, <1>4
  <2>2. QED
    BY <1>1, <1>2, <1>4, <2>1
<1>5. ASSUME NEW j \in DOMAIN b, NEW k \in DOMAIN b, b[j] = p, b[k] = q
      PROVE  j < k
  <2>1. j = 1
    <3>1. \A i \in 2 .. n + 1 : i - 1 \in 1 .. n
      BY <1>1
    <3>2. QED
      BY <1>1, <1>3, <1>5, <3>1
  <2>2. k # 1
    BY <1>1, <1>3, <1>5
  <2>3. QED
    BY <1>1, <1>3, <1>5, <2>1, <2>2
<1>6. QED
  BY <1>4, <1>5 DEF Ahead, a, b

\* putToSleep:yieldingIf: and transferTo: as far as the queues.
LEMMA PreemptedQueue ==
    ASSUME NEW r \in States, NEW p \in Processes, NEW q \in Processes, NEW yielding
    PROVE  LET t == TransferTo(PutToSleep(r, p, yielding), q)
           IN t.queue[priority[p]] = IF yielding
                                     THEN Append(r.queue[priority[p]], p)
                                     ELSE <<p>> \o r.queue[priority[p]]
<1> DEFINE l == priority[p]
           h == IF r.highest # 0 /\ l > r.highest THEN l ELSE r.highest
           k == [r EXCEPT !.highest = h]
           a == [r.queue EXCEPT ![l] = Append(@, p)]
           b == [r.queue EXCEPT ![l] = <<p>> \o @]
<1>1. l \in Lists
  BY ListKinds
<1>2. PutToSleep(r, p, yielding) = IF yielding THEN AddLastLink(k, p, l)
                                               ELSE AddFirstLink(k, p, l)
  BY DEF PutToSleep
<1> HIDE DEF h
<1>3. /\ AddLastLink(k, p, l).queue = a
      /\ AddFirstLink(k, p, l).queue = b
  BY DEF AddLastLink, AddFirstLink, States
<1>4. /\ a[l] = Append(r.queue[l], p)
      /\ b[l] = <<p>> \o r.queue[l]
  BY <1>1 DEF States
<1>5. ASSUME NEW u PROVE TransferTo(u, q).queue = u.queue
  BY DEF TransferTo
<1> HIDE DEF l, k, a, b
<1>6. QED
  BY <1>2, <1>3, <1>4, <1>5 DEF l

\* Nobody is preempted when the same process stays active.
LEMMA SameActiveKeepsTurn ==
    ASSUME NEW s, s.active \in Processes, NEW t, t.active = s.active, NEW yielding
    PROVE  KeepsTurn(s, t, yielding)
<1>1. priority[s.active] \in Int
  BY ListKinds
<1>2. ~(priority[t.active] > priority[s.active])
  BY <1>1
<1>3. QED
  BY <1>2 DEF KeepsTurn

\* The signals, hand-overs and resumptions preempt through one routine.
LEMMA ResumeKeepsTurn ==
    ASSUME NEW s \in States, s.active \in Processes, OnNoList(s, s.active),
           NEW r \in States, r.active = s.active,
           r.queue[priority[s.active]] = s.queue[priority[s.active]],
           NEW p \in Processes, NEW yielding
    PROVE  KeepsTurn(s, Resume(r, p, yielding), yielding)
<1> DEFINE a == s.active
           t == Resume(r, p, yielding)
           seq == s.queue[priority[a]]
<1>1. /\ seq \in Seq(Processes) /\ a \notin Elements(seq)
      /\ priority[a] \in Int /\ priority[p] \in Int
  BY QueueType, ListKinds DEF OnNoList
<1>2. CASE priority[p] <= priority[a]
  <2>1. t = PutToSleep(r, p, TRUE)
    BY <1>2 DEF Resume
  <2>2. PutToSleep(r, p, TRUE).active = a
    BY DEF PutToSleep, AddLastLink, States
  <2>3. QED
    BY <2>1, <2>2, SameActiveKeepsTurn
<1>3. CASE ~(priority[p] <= priority[a])
  <2>1. t = TransferTo(PutToSleep(r, a, yielding), p)
    BY <1>3 DEF Resume
  <2>2. t.queue[priority[a]] = IF yielding THEN Append(seq, a) ELSE <<a>> \o seq
    BY <2>1, PreemptedQueue
  <2> HIDE DEF t, seq
  <2>3. ASSUME NEW q \in Elements(seq)
        PROVE  IF yielding THEN Ahead(t.queue[priority[a]], q, a)
                           ELSE Ahead(t.queue[priority[a]], a, q)
    BY <1>1, <2>2, EndsAhead
  <2>4. QED
    BY <2>3 DEF KeepsTurn, t, seq
<1>4. QED
  BY <1>2, <1>3

\* wakeHighestPriority takes a process from a run queue, and the one that was
\* active keeps its back pointer.
LEMMA SwitchTakes ==
    ASSUME NEW s, Good(s), s.active \in Processes,
           SwitchToHighest(s).active \in Processes
    PROVE  LET t == SwitchToHighest(s)
           IN /\ \E top \in Priorities : t.active \in Elements(s.queue[top])
              /\ t.active # s.active => t.myList[s.active] = s.myList[s.active]
<1>1. s \in States
  BY DEF Good
<1>2. Runnable(s) # {}
  <2> SUFFICES ASSUME Runnable(s) = {} PROVE FALSE
    OBVIOUS
  <2>1. SwitchToHighest(s).active = Nobody
    BY <1>1 DEF SwitchToHighest, States
  <2>2. QED
    BY <2>1, ProcessAssumption
<1>a. PICK top \in Priorities : \E first \in DOMAIN s.queue[top] : \E u \in States :
         /\ Woken(s, top, first, u)
         /\ SwitchToHighest(s) = TransferTo(u, s.queue[top][first])
  BY <1>2, SwitchWakes
<1>b. PICK first \in DOMAIN s.queue[top] : \E u \in States :
         /\ Woken(s, top, first, u)
         /\ SwitchToHighest(s) = TransferTo(u, s.queue[top][first])
  BY <1>a
<1>3. PICK u \in States :
         /\ Woken(s, top, first, u)
         /\ SwitchToHighest(s) = TransferTo(u, s.queue[top][first])
  BY <1>b
<1> DEFINE p == s.queue[top][first]
<1>4. p \in Elements(s.queue[top])
  BY DEF Elements
<1>5. u.myList = s.myList
  BY <1>3 DEF Woken
<1> HIDE DEF p
<1>6. /\ TransferTo(u, p).active = p
      /\ p # s.active => TransferTo(u, p).myList[s.active] = u.myList[s.active]
  <2>1. /\ TransferTo(u, p).active = p
        /\ TransferTo(u, p).myList = [u.myList EXCEPT ![p] = NoList]
    BY DEF TransferTo, States
  <2>2. QED
    BY <2>1 DEF States
<1>7. QED
  BY <1>3, <1>4, <1>5, <1>6 DEF p

\* A process that waits or is suspended is not on its run queue.
LEMMA WaitingKeepsTurn ==
    ASSUME NEW s, s.active \in Processes,
           NEW t, Good(t), t.active = s.active,
           t.myList[s.active] # priority[s.active], NEW yielding
    PROVE  KeepsTurn(s, SwitchToHighest(t), yielding)
<1> DEFINE a == s.active
           w == SwitchToHighest(t)
<1> SUFFICES ASSUME w.myList[a] = priority[a], w.active \in Processes,
                    priority[w.active] > priority[a]
             PROVE  FALSE
  BY DEF KeepsTurn
<1>1. priority[a] \in Int
  BY ListKinds
<1>2. w.active # a
  <2> SUFFICES ASSUME w.active = a PROVE FALSE
    OBVIOUS
  <2> HIDE DEF w
  <2>1. QED
    BY <1>1
<1>3. w.myList[a] = t.myList[a]
  BY <1>2, SwitchTakes
<1>4. QED
  BY <1>3

-----------------------------------------------------------------------------
LEMMA SignalKeepsTurn ==
    ASSUME NEW s, Settled(s), Good(s), NEW x \in Semaphores, NEW yielding
    PROVE  KeepsTurn(s, SynchronousSignal(s, x, yielding), yielding)
<1>1. s \in States /\ s.active \in Processes /\ OnNoList(s, s.active)
  BY SettledParts
<1>2. CASE IsEmptyList(s, x)
  <2>1. SynchronousSignal(s, x, yielding) = [s EXCEPT !.excess[x] = @ + 1]
    BY <1>2 DEF SynchronousSignal
  <2>2. [s EXCEPT !.excess[x] = @ + 1].active = s.active
    BY <1>1 DEF States
  <2>3. QED
    BY <1>1, <2>1, <2>2, SameActiveKeepsTurn
<1>3. CASE ~IsEmptyList(s, x)
  <2> DEFINE r == RemoveFirstLink(s, x)
             p == Head(s.queue[x])
  <2>1. SynchronousSignal(s, x, yielding) = Resume(r, p, yielding)
    BY <1>3 DEF SynchronousSignal
  <2>2. x \in Lists /\ s.queue[x] # <<>> /\ x # priority[s.active]
    BY <1>1, <1>3, ListKinds, ListAssumption DEF Lists, IsEmptyList
  <2>3. Good(r) /\ r.active = s.active /\ p \in Processes
    BY <2>2, RemoveFirstLinkGood
  <2>4. r.queue[priority[s.active]] = s.queue[priority[s.active]]
    BY <1>1, <2>2, ListKinds DEF RemoveFirstLink, States
  <2> HIDE DEF r, p
  <2>5. QED
    BY <1>1, <2>1, <2>3, <2>4, ResumeKeepsTurn DEF Good
<1>4. QED
  BY <1>2, <1>3

LEMMA WaitKeepsTurn ==
    ASSUME Settled(sched), Good(sched), NEW x \in Semaphores, Wait(x)
    PROVE  KeepsTurn(sched, sched', preemptionYields)
<1>1. /\ sched \in States /\ sched.active \in Processes
      /\ x \in Lists /\ x \in WaitLists /\ x \notin Priorities
  BY SettledParts, ListAssumption DEF Lists, WaitLists
<1>2. CASE Commit([sched EXCEPT !.excess[x] = @ - 1])
  <2>1. sched'.active = sched.active
    BY <1>1, <1>2 DEF Commit, Becomes, States
  <2>2. QED
    BY <1>1, <2>1, SameActiveKeepsTurn
<1>3. CASE /\ sched.excess[x] = 0
           /\ Commit(SwitchToHighest(AddLastLink(sched, sched.active, x)))
  <2> DEFINE t == AddLastLink(sched, sched.active, x)
  <2>1. MayQueue(sched, x)
    BY <1>1, <1>3 DEF MayQueue
  <2>2. Good(t)
    BY <1>1, <2>1, AddLastLinkGood
  <2>3. t.active = sched.active /\ t.myList[sched.active] = x
    BY <1>1 DEF AddLastLink, States
  <2>4. sched' = SwitchToHighest(t)
    BY <1>3 DEF Commit, Becomes
  <2> HIDE DEF t
  <2>5. t.myList[sched.active] # priority[sched.active]
    BY <1>1, <2>3, ListKinds
  <2>6. QED
    BY <1>1, <2>2, <2>3, <2>4, <2>5, WaitingKeepsTurn
<1>4. QED
  BY <1>2, <1>3 DEF Wait

\* Who yields goes behind those of its priority, and makes way for one of them.
LEMMA YieldKeepsTurn ==
    ASSUME Settled(sched), Good(sched), Yield
    PROVE  KeepsTurn(sched, sched', preemptionYields)
<1> DEFINE a == sched.active
           l == priority[a]
           t == AddLastLink(sched, a, l)
<1>1. /\ a \in Processes /\ OnNoList(sched, a)
      /\ Placed(sched) /\ sched \in States
  BY SettledParts
<1>2. sched.queue[l] # <<>> /\ sched' = SwitchToHighest(t)
  BY DEF Yield, IsEmptyList, Commit, Becomes
<1>3. l \in Priorities /\ l \in Lists /\ l \notin Semaphores /\ l \in Int
  BY <1>1, ListKinds, ListAssumption
<1>4. MayQueue(sched, l)
  <2>1. sched.highest = 0 \/ ~(l > sched.highest)
    BY <1>2, <1>3 DEF Good, Bounded
  <2>2. QED
    BY <1>1, <1>3, <2>1, HighestType DEF MayQueue
<1>5. Good(t)
  BY <1>1, <1>3, <1>4, AddLastLinkGood
<1>6. Added(sched, t, a, l)
  BY <1>1, <1>3, AddLastLinkAdds DEF Placed, OnNoList
<1>7. t.active = a
  BY <1>6 DEF Added
<1> HIDE DEF t
<1> SUFFICES ASSUME sched'.active \in Processes, priority[sched'.active] > l
             PROVE  FALSE
  BY DEF KeepsTurn
<1>8. PICK top \in Priorities : sched'.active \in Elements(t.queue[top])
  BY <1>1, <1>2, <1>5, <1>7, SwitchTakes
<1>9. CASE top = l
  <2>1. \/ sched'.active = a
        \/ sched'.active \in Elements(sched.queue[l])
    BY <1>6, <1>8, <1>9 DEF Added
  <2>2. priority[sched'.active] = l
    BY <1>1, <1>3, <2>1 DEF Placed
  <2>3. QED
    BY <1>3, <2>2
<1>10. CASE top # l
  <2>1. top \in Lists /\ sched'.active \in Elements(sched.queue[top])
    BY <1>6, <1>8, <1>10, ListKinds DEF Added
  <2>2. priority[sched'.active] = top
    BY <1>1, <2>1 DEF Placed
  <2>3. sched.queue[top] = <<>>
    BY <2>2 DEF Settled, Highest
  <2>4. QED
    BY <1>1, <2>1, <2>3, QueueType
<1>11. QED
  BY <1>9, <1>10

LEMMA PrimitiveResumeKeepsTurn ==
    ASSUME Settled(sched), Good(sched), NEW p \in Processes, PrimitiveResume(p)
    PROVE  KeepsTurn(sched, sched', preemptionYields)
<1>1. sched' = Resume(sched, p, preemptionYields)
  BY DEF PrimitiveResume, Commit, Becomes
<1>2. QED
  BY <1>1, SettledParts, ResumeKeepsTurn

LEMMA PrimitiveSuspendKeepsTurn ==
    ASSUME Settled(sched), Good(sched), NEW p \in Processes, PrimitiveSuspend(p)
    PROVE  KeepsTurn(sched, sched', preemptionYields)
<1>1. sched \in States /\ sched.active \in Processes
  BY SettledParts
<1>2. CASE sched' = SwitchToHighest(sched)
  <2>1. sched.myList[sched.active] = NoList
    BY DEF Settled
  <2>2. sched.myList[sched.active] # priority[sched.active]
    BY <1>1, <2>1, ListKinds
  <2>3. QED
    BY <1>1, <1>2, <2>2, WaitingKeepsTurn
<1>3. CASE \E l : sched' = [RemoveProcess(sched, p, l) EXCEPT !.myList[p] = NoList]
  <2>1. sched'.active = sched.active
    BY <1>1, <1>3 DEF RemoveProcess, States
  <2>2. QED
    BY <1>1, <2>1, SameActiveKeepsTurn
<1>4. QED
  BY <1>2, <1>3 DEF PrimitiveSuspend, Commit, Becomes

LEMMA EnterKeepsTurn ==
    ASSUME Settled(sched), Good(sched), NEW cs \in CriticalSections,
           EnterCriticalSection(cs)
    PROVE  KeepsTurn(sched, sched', preemptionYields)
<1> DEFINE p == sched.active
           a == [sched.answering EXCEPT ![p] = @ \cup {cs}]
           s == [sched EXCEPT !.answering = a]
           t == AddLastLink(s, p, cs)
<1>1. /\ sched \in States /\ p \in Processes /\ cs \in Lists
      /\ cs \notin Priorities /\ cs \notin Semaphores
  BY SettledParts, ListAssumption DEF Lists
<1>2. CASE sched' = sched \/ sched' = Take(sched, cs)
  <2>1. sched'.active = p
    BY <1>1, <1>2 DEF Take, States
  <2>2. QED
    BY <1>1, <2>1, SameActiveKeepsTurn
<1>3. CASE sched' = SwitchToHighest(t)
  <2>1. a \in [Processes -> SUBSET CriticalSections]
    BY <1>1 DEF States
  <2> HIDE DEF a
  <2>2. /\ s \in States /\ s.queue = sched.queue /\ s.myList = sched.myList
        /\ s.context = sched.context /\ s.active = p
        /\ s.highest = sched.highest /\ s.excess = sched.excess
    BY <1>1, <2>1 DEF States
  <2> HIDE DEF s
  <2>3. Good(s)
    BY <2>2, SameQueuesGood
  <2>4. MayQueue(s, cs)
    BY <1>1 DEF MayQueue
  <2>5. Good(t)
    BY <1>1, <2>3, <2>4, AddLastLinkGood
  <2>6. t.active = p /\ t.myList[p] = cs
    BY <1>1, <2>2 DEF AddLastLink, States
  <2> HIDE DEF t
  <2>7. t.myList[p] # priority[p]
    BY <1>1, <2>6, ListKinds
  <2>8. QED
    BY <1>1, <1>3, <2>5, <2>6, <2>7, WaitingKeepsTurn
<1>4. QED
  BY <1>2, <1>3 DEF EnterCriticalSection, Commit, Becomes

LEMMA ExitKeepsTurn ==
    ASSUME Settled(sched), Good(sched), NEW cs \in CriticalSections,
           ExitCriticalSection(cs)
    PROVE  KeepsTurn(sched, sched', preemptionYields)
<1> DEFINE p   == sched.active
           i   == [sched.inside EXCEPT ![cs] = @ \ {p}]
           out == [sched EXCEPT !.inside = i]
<1>1. /\ sched \in States /\ p \in Processes /\ OnNoList(sched, p)
      /\ cs \in Lists /\ cs # priority[p]
  BY SettledParts, ListKinds, ListAssumption DEF Lists
<1>2. IF IsEmptyList(out, cs)
      THEN sched' = [out EXCEPT !.owner[cs] = Nobody]
      ELSE sched' = Resume([RemoveFirstLink(out, cs)
                              EXCEPT !.owner[cs] = Head(out.queue[cs])],
                           Head(out.queue[cs]), preemptionYields)
  BY DEF ExitCriticalSection, Commit, Becomes
<1>3. i \in [CriticalSections -> SUBSET Processes]
  BY <1>1 DEF States
<1> HIDE DEF i
<1>4. /\ out \in States /\ out.queue = sched.queue /\ out.active = p
      /\ out.highest = sched.highest /\ out.excess = sched.excess
  BY <1>1, <1>3 DEF States
<1>5. Good(out)
  BY <1>4, SameQueuesGood
<1>6. CASE IsEmptyList(out, cs)
  <2> HIDE DEF out
  <2>1. sched'.active = p
    BY <1>2, <1>4, <1>6 DEF States
  <2>2. QED
    BY <1>1, <2>1, SameActiveKeepsTurn
<1>7. CASE ~IsEmptyList(out, cs)
  <2> DEFINE f == RemoveFirstLink(out, cs)
             w == Head(out.queue[cs])
             o == [f.owner EXCEPT ![cs] = w]
             r == [f EXCEPT !.owner = o]
  <2>1. sched' = Resume(r, w, preemptionYields)
    BY <1>2, <1>7
  <2> HIDE DEF out
  <2>2. Good(f) /\ f.active = p /\ w \in Processes
    BY <1>1, <1>4, <1>5, <1>7, RemoveFirstLinkGood DEF IsEmptyList
  <2>3. f.queue[priority[p]] = sched.queue[priority[p]]
    BY <1>1, <1>4, ListKinds DEF RemoveFirstLink, States
  <2> HIDE DEF f, w
  <2>4. o \in [CriticalSections -> Processes \cup {Nobody}]
    BY <2>2 DEF Good, States
  <2> HIDE DEF o
  <2>5. r \in States /\ r.active = f.active /\ r.queue = f.queue
    BY <2>2, <2>4 DEF Good, States
  <2> HIDE DEF r
  <2>6. QED
    BY <1>1, <2>1, <2>2, <2>3, <2>5, ResumeKeepsTurn
<1>8. QED
  BY <1>6, <1>7

LEMMA CheckEventKeepsTurn ==
    ASSUME Settled(sched), Good(sched), CheckEvent
    PROVE  KeepsTurn(sched, sched', preemptionYields)
<1> DEFINE x == EventSemaphore[EventOrder[check]]
<1>1. x # NoSemaphore => x \in Semaphores
  BY EventOrderType, EventAssumption DEF CheckEvent
<1>2. \/ sched' = sched
      \/ x # NoSemaphore /\ sched' = SynchronousSignal(sched, x, preemptionYields)
  BY DEF CheckEvent, Becomes
<1> HIDE DEF x
<1>3. QED
  BY <1>1, <1>2, SettledParts, SameActiveKeepsTurn, SignalKeepsTurn

LEMMA NextKeepsTurn ==
    PlacesInv /\ [Next]_vars => KeepsTurn(sched, sched', preemptionYields)
<1> SUFFICES ASSUME Settled(sched), Good(sched), [Next]_vars
             PROVE  KeepsTurn(sched, sched', preemptionYields)
  BY DEF PlacesInv, SchedulerInv
<1>1. ASSUME NEW x \in Semaphores, Signal(x) \/ SignalExternal(x)
      PROVE  KeepsTurn(sched, sched', preemptionYields)
  BY <1>1, SignalKeepsTurn DEF Signal, SignalExternal, Commit, Becomes
<1>2. ASSUME NEW x \in Semaphores, Wait(x)
      PROVE  KeepsTurn(sched, sched', preemptionYields)
  BY <1>2, WaitKeepsTurn
<1>3. CASE Yield
  BY <1>3, YieldKeepsTurn
<1>4. ASSUME NEW p \in Processes, PrimitiveResume(p) \/ PrimitiveSuspend(p)
      PROVE  KeepsTurn(sched, sched', preemptionYields)
  BY <1>4, PrimitiveResumeKeepsTurn, PrimitiveSuspendKeepsTurn
<1>5. ASSUME NEW cs \in CriticalSections,
             EnterCriticalSection(cs) \/ ExitCriticalSection(cs)
      PROVE  KeepsTurn(sched, sched', preemptionYields)
  BY <1>5, EnterKeepsTurn, ExitKeepsTurn
<1>6. CASE CheckEvent
  BY <1>6, CheckEventKeepsTurn
<1>7. ASSUME \/ \E p \in Processes : Terminate(p)
             \/ \E cs \in CriticalSections : TestAndSetOwnership(cs)
             \/ \E e \in RaisedEvents : Raise(e)
             \/ EnterEventCheck \/ LeaveEventCheck \/ SetCogVMFlags
             \/ UNCHANGED vars
      PROVE  KeepsTurn(sched, sched', preemptionYields)
  <2>1. sched \in States /\ sched.active \in Processes
    BY SettledParts
  <2>2. ASSUME NEW p \in Processes, Terminate(p)
        PROVE  sched'.active = sched.active
    BY <2>1, <2>2 DEF Terminate, States
  <2>3. ASSUME NEW cs \in CriticalSections, TestAndSetOwnership(cs)
        PROVE  sched'.active = sched.active
    BY <2>1, <2>3 DEF TestAndSetOwnership, Take, Commit, Becomes, States
  <2>4. sched'.active = sched.active
    BY <1>7, <2>2, <2>3 DEF Raise, EnterEventCheck, LeaveEventCheck,
                                  SetCogVMFlags, vars
  <2>5. QED
    BY <2>1, <2>4, SameActiveKeepsTurn
<1>8. QED
  BY <1>1, <1>2, <1>3, <1>4, <1>5, <1>6, <1>7 DEF Next

\* Whoever is preempted, by a signal, an event, a hand-over or a resumption,
\* stays ahead of all that were queued at its priority, or goes behind them, as
\* preemptionYields says; nothing else makes way for a higher priority and
\* stays runnable.
THEOREM TurnIsKept == Spec => PreemptedKeepsTurn
<1>1. PlacesInv /\ [Next]_vars =>
         \A p \in Processes : Preempted(p) =>
            \A q \in Elements(sched.queue[priority[p]]) :
               LET seq == sched'.queue[priority[p]]
               IN IF preemptionYields THEN Ahead(seq, q, p) ELSE Ahead(seq, p, q)
  BY NextKeepsTurn DEF KeepsTurn, Preempted
<1>2. QED
  BY PlacesInvariant, <1>1, PTL DEF Spec, PreemptedKeepsTurn
=============================================================================
