---------------------------- MODULE ProcessQueues ---------------------------
(***************************************************************************)
(* What the scheduler's linked lists are for: FIFO queues of processes,    *)
(* entered at either end, left from the front or from anywhere.  A process *)
(* is in one queue at a time.  ProcessScheduler's queues behave like this. *)
(***************************************************************************)
EXTENDS Integers, Sequences

CONSTANTS Processes, Lists

VARIABLE queue

Init == queue = [l \in Lists |-> <<>>]

In(p, l)  == \E k \in DOMAIN queue[l] : queue[l][k] = p
Queued(p) == \E l \in Lists : In(p, l)

AddLast(p, l) == /\ ~Queued(p)
                 /\ queue' = [queue EXCEPT ![l] = Append(@, p)]

AddFirst(p, l) == /\ ~Queued(p)
                  /\ queue' = [queue EXCEPT ![l] = <<p>> \o @]

RemoveFirst(l) == /\ queue[l] # <<>>
                  /\ queue' = [queue EXCEPT ![l] = Tail(@)]

Remove(p, l) == \E k \in DOMAIN queue[l] :
                   /\ queue[l][k] = p
                   /\ queue' = [queue EXCEPT ![l] =
                         SubSeq(@, 1, k - 1) \o SubSeq(@, k + 1, Len(@))]

Next == \E l \in Lists : \/ RemoveFirst(l)
                         \/ \E p \in Processes : \/ AddLast(p, l)
                                                 \/ AddFirst(p, l)
                                                 \/ Remove(p, l)

Spec == Init /\ [][Next]_queue
=============================================================================
