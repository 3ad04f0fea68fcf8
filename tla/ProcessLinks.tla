---------------------------- MODULE ProcessLinks ----------------------------
(***************************************************************************)
(* The linked lists under the scheduler (StackInterpreter's addLastLink:,  *)
(* addFirstLink:, removeFirstLinkOfList: and removeProcess:fromList:), with *)
(* the first and last links of every list and the next link and back       *)
(* pointer of every process.  The callers' contract is ProcessScheduler's: *)
(* a process is added only when it is on no list, and the back pointer is  *)
(* cleared when the process starts to run.                                 *)
(***************************************************************************)
EXTENDS Integers, Sequences, FiniteSets

CONSTANTS Processes, Lists, Nil

ASSUME NilAssumption    == Nil \notin Processes /\ Nil \notin Lists
ASSUME MemoryAssumption == IsFiniteSet(Processes)

VARIABLES firstLink, lastLink,   \* of each list
          nextLink, myList       \* of each process

vars == <<firstLink, lastLink, nextLink, myList>>

Init == /\ firstLink = [l \in Lists |-> Nil]
        /\ lastLink = [l \in Lists |-> Nil]
        /\ nextLink = [p \in Processes |-> Nil]
        /\ myList = [p \in Processes |-> Nil]

\* Following the links from the head of l, Nil once the walk has left the list.
Walk(l) ==
    LET at[n \in 0 .. Cardinality(Processes)] ==
           IF n = 0 THEN firstLink[l]
           ELSE IF at[n - 1] = Nil THEN Nil ELSE nextLink[at[n - 1]]
    IN at

Chain(l) == LET met == {n \in DOMAIN Walk(l) : Walk(l)[n] # Nil}
            IN [k \in 1 .. Cardinality(met) |-> Walk(l)[k - 1]]

OnList(p, l) == \E k \in DOMAIN Chain(l) : Chain(l)[k] = p
Free(p)      == \A l \in Lists : ~OnList(p, l)

-----------------------------------------------------------------------------
AddLastLink(p, l) ==
    /\ Free(p)
    /\ IF firstLink[l] = Nil
       THEN /\ firstLink' = [firstLink EXCEPT ![l] = p]
            /\ nextLink' = nextLink
       ELSE /\ nextLink' = [nextLink EXCEPT ![lastLink[l]] = p]
            /\ firstLink' = firstLink
    /\ lastLink' = [lastLink EXCEPT ![l] = p]
    /\ myList' = [myList EXCEPT ![p] = l]

\* Mutant of AddFirstLink: the list goes into the next link.
AddFirstLinkSwapped(p, l) ==
    /\ Free(p)
    /\ firstLink' = [firstLink EXCEPT ![l] = p]
    /\ lastLink' = [lastLink EXCEPT ![l] = IF @ = Nil THEN p ELSE @]
    /\ nextLink' = [nextLink EXCEPT ![p] = l]
    /\ myList' = [myList EXCEPT ![p] = l]

\* Mutant of AddFirstLink: the rest of the list is not linked behind.
AddFirstLinkAlone(p, l) ==
    /\ Free(p)
    /\ firstLink' = [firstLink EXCEPT ![l] = p]
    /\ lastLink' = [lastLink EXCEPT ![l] = IF @ = Nil THEN p ELSE @]
    /\ nextLink' = nextLink
    /\ myList' = [myList EXCEPT ![p] = l]

AddFirstLink(p, l) ==
    /\ Free(p)
    /\ firstLink' = [firstLink EXCEPT ![l] = p]
    /\ IF firstLink[l] = Nil
       THEN /\ lastLink' = [lastLink EXCEPT ![l] = p]
            /\ nextLink' = nextLink
       ELSE /\ nextLink' = [nextLink EXCEPT ![p] = firstLink[l]]
            /\ lastLink' = lastLink
    /\ myList' = [myList EXCEPT ![p] = l]

\* Mutant of RemoveFirstLink: the process removed keeps its next link.
RemoveFirstLinkKeeping(l) ==
    LET first == firstLink[l]
    IN /\ first # Nil
       /\ IF first = lastLink[l]
          THEN /\ firstLink' = [firstLink EXCEPT ![l] = Nil]
               /\ lastLink' = [lastLink EXCEPT ![l] = Nil]
          ELSE /\ firstLink' = [firstLink EXCEPT ![l] = nextLink[first]]
               /\ lastLink' = lastLink
       /\ UNCHANGED <<nextLink, myList>>

\* The back pointer of the process removed stays as it was.
RemoveFirstLink(l) ==
    LET first == firstLink[l]
    IN /\ first # Nil
       /\ IF first = lastLink[l]
          THEN /\ firstLink' = [firstLink EXCEPT ![l] = Nil]
               /\ lastLink' = [lastLink EXCEPT ![l] = Nil]
          ELSE /\ firstLink' = [firstLink EXCEPT ![l] = nextLink[first]]
               /\ lastLink' = lastLink
       /\ nextLink' = [nextLink EXCEPT ![first] = Nil]
       /\ myList' = myList

\* removeProcess:fromList: as primitiveSuspend calls it.  The walk that finds
\* no predecessor fails the primitive and changes nothing.
Predecessor(p, l) == {q \in Processes : OnList(q, l) /\ nextLink[q] = p}

\* Mutant of RemoveProcess: the last link is only fixed when the list empties.
RemoveProcessKeepingLast(p, l) ==
    /\ nextLink' = [q \in Processes |->
                      IF q = p THEN Nil
                      ELSE IF firstLink[l] # p /\ q \in Predecessor(p, l)
                           THEN nextLink[p] ELSE nextLink[q]]
    /\ \/ /\ firstLink[l] = p
          /\ firstLink' = [firstLink EXCEPT ![l] = nextLink[p]]
          /\ lastLink' = [lastLink EXCEPT ![l] = IF @ = p THEN Nil ELSE @]
       \/ /\ firstLink[l] # p
          /\ Predecessor(p, l) # {}
          /\ UNCHANGED <<firstLink, lastLink>>

RemoveProcess(p, l) ==
    /\ nextLink' = [q \in Processes |->
                      IF q = p THEN Nil
                      ELSE IF firstLink[l] # p /\ q \in Predecessor(p, l)
                           THEN nextLink[p] ELSE nextLink[q]]
    /\ \/ /\ firstLink[l] = p
          /\ firstLink' = [firstLink EXCEPT ![l] = nextLink[p]]
          /\ lastLink' = [lastLink EXCEPT ![l] = IF @ = p THEN Nil ELSE @]
       \/ /\ firstLink[l] # p
          /\ firstLink' = firstLink
          /\ \E q \in Predecessor(p, l) :
                lastLink' = [lastLink EXCEPT ![l] = IF @ = p THEN q ELSE @]

PrimitiveSuspend(p) ==
    /\ myList[p] # Nil
    /\ RemoveProcess(p, myList[p])
    /\ myList' = [myList EXCEPT ![p] = Nil]

\* transferTo: clears the back pointer of a process that has left its list.
TransferTo(p) == /\ Free(p)
                 /\ myList' = [myList EXCEPT ![p] = Nil]
                 /\ UNCHANGED <<firstLink, lastLink, nextLink>>

Next == \/ \E l \in Lists : \/ RemoveFirstLink(l)
                            \/ \E p \in Processes : \/ AddLastLink(p, l)
                                                    \/ AddFirstLink(p, l)
        \/ \E p \in Processes : PrimitiveSuspend(p) \/ TransferTo(p)

Spec == Init /\ [][Next]_vars

-----------------------------------------------------------------------------
TypeOK == /\ firstLink \in [Lists -> Processes \cup {Nil}]
          /\ lastLink \in [Lists -> Processes \cup {Nil}]
          /\ nextLink \in [Processes -> Processes \cup {Nil}]
          /\ myList \in [Processes -> Lists \cup {Nil}]

\* The links always describe queues: the last link of a list is the end of the
\* chain from its first link, and the processes of the chain point back to it,
\* whatever mix of additions, removals from either routine and failed removals
\* through stale back pointers came before.
ListsWellFormed ==
    \A l \in Lists :
       /\ lastLink[l] = IF Chain(l) = <<>> THEN Nil ELSE Chain(l)[Len(Chain(l))]
       /\ \A k \in DOMAIN Chain(l) : myList[Chain(l)[k]] = l

\* "self assert: NextLink of proc = nilObject" (addLastLink.toList..st:8,
\* addFirstLink.toList..st:7): a process on no list has no stale next link,
\* which would splice another list into the one it joins.
FreeIsUnlinked == \A p \in Processes : Free(p) => nextLink[p] = Nil

\* The linked lists implement the abstract queues.
Queues == INSTANCE ProcessQueues WITH queue <- [l \in Lists |-> Chain(l)]
LinksImplementQueues == Queues!Spec
=============================================================================
