------------------------- MODULE ExternalSemaphores -------------------------
(***************************************************************************)
(* Lock-free signalling of external semaphores                             *)
(* (platforms/Cross/vm/sqExternalSemaphores.c).                            *)
(*                                                                         *)
(* Requestors are the threads and signal handlers of plugins that call     *)
(* signalSemaphoreWithIndex; the VM thread answers them from its event     *)
(* check with doSignalExternalSemaphores.  Nothing is locked: a request    *)
(* counter and a response counter per index say how many signals are due,  *)
(* and two pairs of tide marks, used alternately, say which indices the VM *)
(* has to scan.  One action is one access to shared memory; the fences in  *)
(* the code order those accesses, so they interleave sequentially.         *)
(*                                                                         *)
(* Counters are C shorts that wrap; only their equality is ever used, so   *)
(* they are modelled as 0..CounterMod-1.  A local that is dead is reset.   *)
(***************************************************************************)
EXTENDS Integers, FiniteSets

CONSTANTS Requestors,                  \* plugin threads and signal handlers
          NumSignalRequests,           \* size of the counter table
          ExternalSemaphoreTableSize,  \* size of the image's object table
          CounterMod,                  \* 2^16 in the code
          MaxCalls                     \* bound: calls made in all

ASSUME TableAssumption == /\ NumSignalRequests \in Nat \ {0}
                          /\ ExternalSemaphoreTableSize \in Nat
ASSUME CounterAssumption == CounterMod \in Nat \ {0, 1}
ASSUME BoundAssumption == MaxCalls \in Nat

VARIABLES requests,            \* the counters of signalRequests[i]
          responses,
          useTide,             \* "A" while useTideA is set, "B" otherwise
          lowTide, highTide,   \* lowTideA/B and highTideA/B
          checkSignalRequests,
          interruptForced,     \* the stack limit has been smashed
          pc, i, tide, v,      \* each requestor's locals
          calls,               \* calls made so far (bound)
          vmPc, scanI, scanHigh,  \* the VM thread's locals
          signalled,           \* signals each semaphore received, as a counter
          stale,               \* history: requestors overtaken by a switch of tides
          owed                 \* history: indices marked in time and not yet scanned

table   == <<requests, responses, signalled>>
tides   == <<useTide, lowTide, highTide>>
flags   == <<checkSignalRequests, interruptForced>>
locals  == <<pc, i, tide, v, calls>>
vm      == <<vmPc, scanI, scanHigh>>
history == <<stale, owed>>
vars    == <<table, tides, flags, locals, vm, history>>

Indices == 0 .. NumSignalRequests - 1
Tides   == {"A", "B"}
MaxTide == NumSignalRequests    \* INT_MAX: above every index
MinTide == -1

\* Where a requestor is while it works on the tides it found in use.
Marking == {"low", "casLow", "high", "casHigh"}

Spare == IF useTide = "A" THEN "B" ELSE "A"

\* Mutant of Increment: the counter does not wrap.
IncrementUnwrapped(c) == c + 1

\* ++ on a C short.
Increment(c) == IF c = CounterMod - 1 THEN 0 ELSE c + 1

Init ==
    /\ requests = [x \in Indices |-> 0]
    /\ responses = [x \in Indices |-> 0]
    /\ signalled = [x \in Indices |-> 0]
    /\ useTide = "A"
    /\ lowTide = [t \in Tides |-> MaxTide]
    /\ highTide = [t \in Tides |-> MinTide]
    /\ checkSignalRequests = FALSE
    /\ interruptForced = FALSE
    /\ pc = [r \in Requestors |-> "idle"]
    /\ i = [r \in Requestors |-> 0]
    /\ tide = [r \in Requestors |-> "A"]
    /\ v = [r \in Requestors |-> 0]
    /\ calls = 0
    /\ vmPc = "idle"
    /\ scanI = 0
    /\ scanHigh = MinTide
    /\ stale = {}
    /\ owed = {}

-----------------------------------------------------------------------------
(* signalSemaphoreWithIndex, run by requestor r.                           *)

Goto(r, from, to) == /\ pc[r] = from
                     /\ pc' = [pc EXCEPT ![r] = to]

\* index - 1 is compared unsigned: zero, like an index past the table, is
\* ignored before anything is touched.
Call(r, index) ==
    /\ calls < MaxCalls
    /\ calls' = calls + 1
    /\ IF index - 1 \in Indices
       THEN /\ Goto(r, "idle", "add")
            /\ i' = [i EXCEPT ![r] = index - 1]
       ELSE /\ Goto(r, "idle", "idle")
            /\ i' = i
    /\ UNCHANGED <<table, tides, flags, tide, v, vm, history>>

AddRequest(r) ==
    /\ Goto(r, "add", "readTide")
    /\ requests' = [requests EXCEPT ![i[r]] = Increment(@)]
    /\ UNCHANGED <<responses, signalled, tides, flags, i, tide, v, calls,
                   vm, history>>

ReadTideInUse(r) ==
    /\ Goto(r, "readTide", "low")
    /\ tide' = [tide EXCEPT ![r] = useTide]
    /\ stale' = stale \ {r}
    /\ UNCHANGED <<table, tides, flags, i, v, calls, vm, owed>>

\* while ((v = lowTide) > i) compare-and-swap(lowTide, v, i)
ReadLowTide(r) ==
    /\ \/ /\ lowTide[tide[r]] > i[r]
          /\ Goto(r, "low", "casLow")
          /\ v' = [v EXCEPT ![r] = lowTide[tide[r]]]
       \/ /\ lowTide[tide[r]] <= i[r]
          /\ Goto(r, "low", "high")
          /\ v' = v
    /\ UNCHANGED <<table, tides, flags, i, tide, calls, vm, history>>

SwapLowTide(r) ==
    /\ Goto(r, "casLow", "low")
    /\ lowTide' = [lowTide EXCEPT ![tide[r]] = IF @ = v[r] THEN i[r] ELSE @]
    /\ v' = [v EXCEPT ![r] = 0]
    /\ UNCHANGED <<table, useTide, highTide, flags, i, tide, calls, vm,
                   history>>

\* while ((v = highTide) < i) compare-and-swap(highTide, v, i).  Leaving the
\* loop with no switch of tides since useTideA was read is what "marked in
\* time" means.
ReadHighTide(r) ==
    /\ \/ /\ highTide[tide[r]] < i[r]
          /\ Goto(r, "high", "casHigh")
          /\ v' = [v EXCEPT ![r] = highTide[tide[r]]]
          /\ UNCHANGED history
       \/ /\ highTide[tide[r]] >= i[r]
          /\ Goto(r, "high", "announce")
          /\ v' = v
          /\ stale' = stale \ {r}
          /\ owed' = IF r \in stale THEN owed ELSE owed \cup {i[r]}
    /\ UNCHANGED <<table, tides, flags, i, tide, calls, vm>>

SwapHighTide(r) ==
    /\ Goto(r, "casHigh", "high")
    /\ highTide' = [highTide EXCEPT ![tide[r]] = IF @ = v[r] THEN i[r] ELSE @]
    /\ v' = [v EXCEPT ![r] = 0]
    /\ UNCHANGED <<table, useTide, lowTide, flags, i, tide, calls, vm,
                   history>>

Announce(r) ==
    /\ Goto(r, "announce", "force")
    /\ checkSignalRequests' = TRUE
    /\ UNCHANGED <<table, tides, interruptForced, i, tide, v, calls, vm,
                   history>>

\* Mutant of ForceInterruptCheck: the VM is not told.
ForceNothing(r) ==
    /\ Goto(r, "force", "idle")
    /\ i' = [i EXCEPT ![r] = 0]
    /\ tide' = [tide EXCEPT ![r] = "A"]
    /\ UNCHANGED <<table, tides, flags, v, calls, vm, history>>

ForceInterruptCheck(r) ==
    /\ Goto(r, "force", "idle")
    /\ interruptForced' = TRUE
    /\ i' = [i EXCEPT ![r] = 0]
    /\ tide' = [tide EXCEPT ![r] = "A"]
    /\ UNCHANGED <<table, tides, checkSignalRequests, v, calls, vm, history>>

-----------------------------------------------------------------------------
(* doSignalExternalSemaphores, run by the VM thread from its event check.  *)

VMGoto(from, to) == /\ vmPc = from
                    /\ vmPc' = to

\* The smashed stack limit sends the VM to its event check, which restores
\* the limit before it looks for anything.
EnterEventCheck ==
    /\ interruptForced
    /\ VMGoto("idle", "test")
    /\ interruptForced' = FALSE
    /\ UNCHANGED <<table, tides, checkSignalRequests, locals, scanI, scanHigh,
                   history>>

TestCheckFlag ==
    /\ VMGoto("test", IF checkSignalRequests THEN "clear" ELSE "idle")
    /\ UNCHANGED <<table, tides, flags, locals, scanI, scanHigh, history>>

ClearCheckFlag ==
    /\ VMGoto("clear", "resetLow")
    /\ checkSignalRequests' = FALSE
    /\ UNCHANGED <<table, tides, interruptForced, locals, scanI, scanHigh,
                   history>>

ResetLowTide ==
    /\ VMGoto("resetLow", "resetHigh")
    /\ lowTide' = [lowTide EXCEPT ![Spare] = MaxTide]
    /\ UNCHANGED <<table, useTide, highTide, flags, locals, scanI, scanHigh,
                   history>>

ResetHighTide ==
    /\ VMGoto("resetHigh", "toggle")
    /\ highTide' = [highTide EXCEPT ![Spare] = MinTide]
    /\ UNCHANGED <<table, useTide, lowTide, flags, locals, scanI, scanHigh,
                   history>>

ToggleTides ==
    /\ VMGoto("toggle", "readLow")
    /\ useTide' = Spare
    /\ stale' = {r \in Requestors : pc[r] \in Marking}
    /\ UNCHANGED <<table, lowTide, highTide, flags, locals, scanI, scanHigh,
                   owed>>

\* Mutant of FetchLowTide: the tide in use is read, not the one just retired.
FetchLowTideInUse ==
    /\ VMGoto("readLow", "readHigh")
    /\ scanI' = lowTide[useTide]
    /\ UNCHANGED <<table, tides, flags, locals, scanHigh, history>>

FetchLowTide ==
    /\ VMGoto("readLow", "readHigh")
    /\ scanI' = lowTide[Spare]
    /\ UNCHANGED <<table, tides, flags, locals, scanHigh, history>>

\* The range is clipped to the image's table of external objects.
FetchHighTide ==
    /\ VMGoto("readHigh", "scan")
    /\ scanHigh' = IF highTide[Spare] >= ExternalSemaphoreTableSize
                   THEN ExternalSemaphoreTableSize - 1
                   ELSE highTide[Spare]
    /\ UNCHANGED <<table, tides, flags, locals, scanI, history>>

\* Mutant of Respond: the counters are compared after the signal, not before.
RespondUnchecked ==
    /\ VMGoto("scan", "scan")
    /\ scanI <= scanHigh
    /\ signalled' = [signalled EXCEPT ![scanI] = Increment(@)]
    /\ responses' = [responses EXCEPT ![scanI] = Increment(@)]
    /\ UNCHANGED <<requests, tides, flags, locals, scanI, scanHigh, history>>

\* One turn of the inner loop: doSignalSemaphoreWithIndex, then the response.
Respond ==
    /\ VMGoto("scan", "scan")
    /\ scanI <= scanHigh
    /\ responses[scanI] # requests[scanI]
    /\ signalled' = [signalled EXCEPT ![scanI] = Increment(@)]
    /\ responses' = [responses EXCEPT ![scanI] = Increment(@)]
    /\ UNCHANGED <<requests, tides, flags, locals, scanI, scanHigh, history>>

\* The inner loop ends with every request counted so far answered.
ScanNext ==
    /\ VMGoto("scan", "scan")
    /\ scanI <= scanHigh
    /\ responses[scanI] = requests[scanI]
    /\ scanI' = scanI + 1
    /\ owed' = owed \ {scanI}
    /\ UNCHANGED <<table, tides, flags, locals, scanHigh, stale>>

ScanDone ==
    /\ VMGoto("scan", "recheck")
    /\ scanI > scanHigh
    /\ scanI' = 0
    /\ scanHigh' = MinTide
    /\ UNCHANGED <<table, tides, flags, locals, history>>

\* Mutant of Recheck: the stack limit is restored at the end of the check.
RecheckRestoringLimit ==
    /\ VMGoto("recheck", "idle")
    /\ interruptForced' = FALSE
    /\ UNCHANGED <<table, tides, checkSignalRequests, locals, scanI, scanHigh,
                   history>>

\* A signal that came in while scanning forces another event check.
Recheck ==
    /\ VMGoto("recheck", "idle")
    /\ interruptForced' = IF checkSignalRequests THEN TRUE ELSE interruptForced
    /\ UNCHANGED <<table, tides, checkSignalRequests, locals, scanI, scanHigh,
                   history>>

-----------------------------------------------------------------------------
Signalling(r) == \/ AddRequest(r)
                 \/ ReadTideInUse(r)
                 \/ ReadLowTide(r)
                 \/ SwapLowTide(r)
                 \/ ReadHighTide(r)
                 \/ SwapHighTide(r)
                 \/ Announce(r)
                 \/ ForceInterruptCheck(r)

VMThread == \/ EnterEventCheck
            \/ TestCheckFlag
            \/ ClearCheckFlag
            \/ ResetLowTide
            \/ ResetHighTide
            \/ ToggleTides
            \/ FetchLowTide
            \/ FetchHighTide
            \/ Respond
            \/ ScanNext
            \/ ScanDone
            \/ Recheck

Next == \/ \E r \in Requestors :
              \/ \E index \in 0 .. NumSignalRequests + 1 : Call(r, index)
              \/ Signalling(r)
        \/ VMThread

Spec == Init /\ [][Next]_vars

\* A thread that is inside a call is scheduled again, and so is the VM; no
\* requestor ever has to call.
Fairness == /\ \A r \in Requestors : WF_vars(Signalling(r))
            /\ WF_vars(VMThread)

FairSpec == Spec /\ Fairness

-----------------------------------------------------------------------------
(* Properties.                                                             *)

TableTypeOK == /\ requests \in [Indices -> 0 .. CounterMod - 1]
               /\ responses \in [Indices -> 0 .. CounterMod - 1]
               /\ signalled \in [Indices -> 0 .. CounterMod - 1]

TidesTypeOK == /\ useTide \in Tides
               /\ lowTide \in [Tides -> 0 .. MaxTide]
               /\ highTide \in [Tides -> MinTide .. NumSignalRequests - 1]

FlagsTypeOK == /\ checkSignalRequests \in BOOLEAN
               /\ interruptForced \in BOOLEAN

LocalsTypeOK == /\ pc \in [Requestors -> {"idle", "add", "readTide",
                                          "announce", "force"} \cup Marking]
                /\ i \in [Requestors -> Indices]
                /\ tide \in [Requestors -> Tides]
                /\ v \in [Requestors -> MinTide .. MaxTide]
                /\ calls \in 0 .. MaxCalls

VMTypeOK == /\ vmPc \in {"idle", "test", "clear", "resetLow", "resetHigh",
                         "toggle", "readLow", "readHigh", "scan", "recheck"}
            /\ scanI \in 0 .. MaxTide
            /\ scanHigh \in MinTide .. NumSignalRequests - 1

HistoryTypeOK == /\ stale \subseteq Requestors
                 /\ owed \subseteq Indices

TypeOK == /\ TableTypeOK
          /\ TidesTypeOK
          /\ FlagsTypeOK
          /\ LocalsTypeOK
          /\ VMTypeOK
          /\ HistoryTypeOK

\* What a requestor knows while it marks: its compare-and-swap can only widen
\* the tides, and if no switch has overtaken it, it marks the tides in use and
\* its low mark stands.
MarksInTime(r) ==
    /\ pc[r] = "casLow" => v[r] > i[r]
    /\ pc[r] = "casHigh" => v[r] < i[r]
    /\ pc[r] \in Marking /\ r \notin stale => tide[r] = useTide
    /\ pc[r] \in {"high", "casHigh"} /\ r \notin stale => lowTide[useTide] <= i[r]

\* The VM is committed to scanning x in the call it is in.
WillScan(x) ==
    \/ vmPc = "readLow"  /\ lowTide[Spare] <= x /\ x <= highTide[Spare]
    \/ vmPc = "readHigh" /\ scanI <= x /\ x <= highTide[Spare]
    \/ vmPc = "scan"     /\ scanI <= x /\ x <= scanHigh

\* The VM has been or is about to be told to look at the tides in use.
Announced ==
    \/ checkSignalRequests
    \/ \E r \in Requestors : pc[r] = "announce"
    \/ vmPc \in {"clear", "resetLow", "resetHigh", "toggle"}

\* A request whose marks were complete before the VM switched tides is never
\* forgotten: its index lies in the tides in use and the VM has been told, or
\* it lies in what is left of the scan the VM is making
\* (sqExternalSemaphores.c:163-190 against 211-242).
NoRequestForgotten ==
    \A x \in Indices :
       x \in owed /\ x < ExternalSemaphoreTableSize =>
          \/ lowTide[useTide] <= x /\ x <= highTide[useTide] /\ Announced
          \/ WillScan(x)

\* The check flag is never left up with nobody to make the VM look at it: the
\* stack limit is smashed, or a requestor is about to smash it, or the VM is
\* still inside a check that will (sqExternalSemaphores.c:190-192, 254-258).
FlagIsNoticed ==
    checkSignalRequests =>
       \/ interruptForced
       \/ vmPc # "idle"
       \/ \E r \in Requestors : pc[r] = "force"

\* NoRequestForgotten is inductive together with what every requestor knows.
ForgottenInv == /\ TypeOK
                /\ \A r \in Requestors : MarksInTime(r)
                /\ NoRequestForgotten

\* Every request marked in time is answered: some later scan of its index
\* finds responses equal to requests.  Only indices inside the image's table
\* are promised an answer.
MarkedRequestIsAnswered ==
    \A x \in Indices :
       x < ExternalSemaphoreTableSize => (x \in owed ~> x \notin owed)

\* What the file's header promises of every request: "To respond to a request
\* the VM increments the corresponding response until it matches the request"
\* (sqExternalSemaphores.c:53-54).
EveryRequestIsAnswered ==
    \A x \in Indices :
       x < ExternalSemaphoreTableSize =>
          (responses[x] # requests[x] ~> responses[x] = requests[x])

\* Requests outstanding at x, as the wrapping counters tell it.
Ahead(req, resp) == IF req >= resp THEN req - resp ELSE req - resp + CounterMod
Outstanding(x) == Ahead(requests[x], responses[x])

\* The abstract semaphores: every signal delivered answers one request.
Abstract == INSTANCE SignalCounts
               WITH pending <- [x \in Indices |-> Outstanding(x)],
                    delivered <- signalled,
                    Semaphores <- Indices
SignalsMatchRequests == Abstract!Spec
=============================================================================
