---------------------------- MODULE SignalCounts ----------------------------
(***************************************************************************)
(* What external semaphores promise: requests are counted, and a signal is *)
(* delivered only against a request that is pending.  The count is finite: *)
(* the request that finds CounterMod - 1 others pending wipes all of them  *)
(* out, because equal counters read as nothing to do.                      *)
(***************************************************************************)
EXTENDS Integers

CONSTANTS Semaphores, CounterMod

VARIABLES pending,    \* requests of each semaphore not yet answered
          delivered   \* signals delivered, counted modulo CounterMod

vars == <<pending, delivered>>

Init == /\ pending = [x \in Semaphores |-> 0]
        /\ delivered = [x \in Semaphores |-> 0]

Request(x) == /\ pending[x] < CounterMod - 1
              /\ pending' = [pending EXCEPT ![x] = @ + 1]
              /\ delivered' = delivered

Overrun(x) == /\ pending[x] = CounterMod - 1
              /\ pending' = [pending EXCEPT ![x] = 0]
              /\ delivered' = delivered

Deliver(x) == /\ pending[x] > 0
              /\ pending' = [pending EXCEPT ![x] = @ - 1]
              /\ delivered' = [delivered EXCEPT ![x] =
                                  IF @ = CounterMod - 1 THEN 0 ELSE @ + 1]

Next == \E x \in Semaphores : Request(x) \/ Overrun(x) \/ Deliver(x)

Spec == Init /\ [][Next]_vars
=============================================================================
