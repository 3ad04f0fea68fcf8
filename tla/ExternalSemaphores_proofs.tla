---------------------- MODULE ExternalSemaphores_proofs ----------------------
EXTENDS ExternalSemaphores, TLAPS

\* A wrapping counter stays in its range.
LEMMA IncrementType ==
    ASSUME NEW c \in 0 .. CounterMod - 1
    PROVE  Increment(c) \in 0 .. CounterMod - 1
BY CounterAssumption DEF Increment

\* A part of the state keeps its type while its variables keep their values.
LEMMA Frames ==
    /\ TableTypeOK /\ UNCHANGED table => TableTypeOK'
    /\ TidesTypeOK /\ UNCHANGED tides => TidesTypeOK'
    /\ FlagsTypeOK /\ UNCHANGED flags => FlagsTypeOK'
    /\ LocalsTypeOK /\ UNCHANGED locals => LocalsTypeOK'
    /\ VMTypeOK /\ UNCHANGED vm => VMTypeOK'
    /\ HistoryTypeOK /\ UNCHANGED history => HistoryTypeOK'
<1>1. TableTypeOK /\ UNCHANGED table => TableTypeOK'
  BY DEF TableTypeOK, table
<1>2. TidesTypeOK /\ UNCHANGED tides => TidesTypeOK'
  BY DEF TidesTypeOK, tides
<1>3. FlagsTypeOK /\ UNCHANGED flags => FlagsTypeOK'
  BY DEF FlagsTypeOK, flags
<1>4. LocalsTypeOK /\ UNCHANGED locals => LocalsTypeOK'
  BY DEF LocalsTypeOK, locals
<1>5. VMTypeOK /\ UNCHANGED vm => VMTypeOK'
  BY DEF VMTypeOK, vm
<1>6. HistoryTypeOK /\ UNCHANGED history => HistoryTypeOK'
  BY DEF HistoryTypeOK, history
<1>7. QED
  BY <1>1, <1>2, <1>3, <1>4, <1>5, <1>6

\* The start state is well typed.
LEMMA InitType == Init => TypeOK
<1> USE TableAssumption, CounterAssumption, BoundAssumption
    DEF Indices, Tides, MaxTide, MinTide
<1> SUFFICES ASSUME Init PROVE TypeOK
  OBVIOUS
<1>1. TableTypeOK
  BY DEF Init, TableTypeOK
<1>2. TidesTypeOK
  BY DEF Init, TidesTypeOK
<1>3. FlagsTypeOK
  BY DEF Init, FlagsTypeOK
<1>4. LocalsTypeOK
  BY DEF Init, LocalsTypeOK, Marking
<1>5. VMTypeOK
  BY DEF Init, VMTypeOK
<1>6. HistoryTypeOK
  BY DEF Init, HistoryTypeOK
<1>7. QED
  BY <1>1, <1>2, <1>3, <1>4, <1>5, <1>6 DEF TypeOK

\* Every step keeps the types.
LEMMA NextType == TypeOK /\ [Next]_vars => TypeOK'
<1> USE TableAssumption, CounterAssumption, BoundAssumption
    DEF Indices, Tides, MaxTide, MinTide
<1> SUFFICES ASSUME TypeOK, [Next]_vars
             PROVE  TypeOK'
  OBVIOUS
<1>1. /\ TableTypeOK
      /\ TidesTypeOK
      /\ FlagsTypeOK
      /\ LocalsTypeOK
      /\ VMTypeOK
      /\ HistoryTypeOK
  BY DEF TypeOK
<1>2. ASSUME NEW r \in Requestors, NEW index \in 0 .. NumSignalRequests + 1,
            Call(r, index)
     PROVE  TypeOK'
  <2>1. LocalsTypeOK'
    BY <1>1, <1>2 DEF Call, Goto, LocalsTypeOK, Marking
  <2>2. UNCHANGED <<table, tides, flags, vm, history>>
    BY <1>1, <1>2 DEF Call, table, tides, flags, vm, history
  <2>3. QED
    BY <2>1, <2>2, Frames DEF TypeOK
<1>3. ASSUME NEW r \in Requestors, AddRequest(r)
     PROVE  TypeOK'
  <2>1. TableTypeOK'
    BY <1>1, <1>3, IncrementType DEF AddRequest, TableTypeOK, LocalsTypeOK
  <2>2. LocalsTypeOK'
    BY <1>1, <1>3 DEF AddRequest, Goto, LocalsTypeOK, Marking
  <2>3. UNCHANGED <<tides, flags, vm, history>>
    BY <1>1, <1>3 DEF AddRequest, tides, flags, vm, history
  <2>4. QED
    BY <2>1, <2>2, <2>3, Frames DEF TypeOK
<1>4. ASSUME NEW r \in Requestors, ReadTideInUse(r)
     PROVE  TypeOK'
  <2>1. LocalsTypeOK'
    BY <1>1, <1>4 DEF ReadTideInUse, Goto, LocalsTypeOK, TidesTypeOK, Marking
  <2>2. HistoryTypeOK'
    BY <1>1, <1>4 DEF ReadTideInUse, Goto, HistoryTypeOK, TidesTypeOK, Marking
  <2>3. UNCHANGED <<table, tides, flags, vm>>
    BY <1>1, <1>4 DEF ReadTideInUse, table, tides, flags, vm
  <2>4. QED
    BY <2>1, <2>2, <2>3, Frames DEF TypeOK
<1>5. ASSUME NEW r \in Requestors, ReadLowTide(r)
     PROVE  TypeOK'
  <2>1. LocalsTypeOK'
    BY <1>1, <1>5 DEF ReadLowTide, Goto, LocalsTypeOK, TidesTypeOK, Marking
  <2>2. UNCHANGED <<table, tides, flags, vm, history>>
    BY <1>1, <1>5 DEF ReadLowTide, table, tides, flags, vm, history
  <2>3. QED
    BY <2>1, <2>2, Frames DEF TypeOK
<1>6. ASSUME NEW r \in Requestors, SwapLowTide(r)
     PROVE  TypeOK'
  <2>1. TidesTypeOK'
    BY <1>1, <1>6 DEF SwapLowTide, Goto, TidesTypeOK, LocalsTypeOK, Spare
  <2>2. LocalsTypeOK'
    BY <1>1, <1>6 DEF SwapLowTide, Goto, LocalsTypeOK, Marking
  <2>3. UNCHANGED <<table, flags, vm, history>>
    BY <1>1, <1>6 DEF SwapLowTide, table, flags, vm, history
  <2>4. QED
    BY <2>1, <2>2, <2>3, Frames DEF TypeOK
<1>7. ASSUME NEW r \in Requestors, ReadHighTide(r)
     PROVE  TypeOK'
  <2>1. LocalsTypeOK'
    BY <1>1, <1>7 DEF ReadHighTide, Goto, LocalsTypeOK, TidesTypeOK, Marking
  <2>2. HistoryTypeOK'
    <3>1. i[r] \in Indices
      BY <1>1 DEF LocalsTypeOK
    <3>2. owed' \subseteq owed \cup {i[r]} /\ stale' \subseteq stale
      BY <1>7 DEF ReadHighTide, history
    <3>3. QED
      BY <1>1, <3>1, <3>2 DEF HistoryTypeOK
  <2>3. UNCHANGED <<table, tides, flags, vm>>
    BY <1>1, <1>7 DEF ReadHighTide, table, tides, flags, vm
  <2>4. QED
    BY <2>1, <2>2, <2>3, Frames DEF TypeOK
<1>8. ASSUME NEW r \in Requestors, SwapHighTide(r)
     PROVE  TypeOK'
  <2>1. TidesTypeOK'
    BY <1>1, <1>8 DEF SwapHighTide, Goto, TidesTypeOK, LocalsTypeOK, Spare
  <2>2. LocalsTypeOK'
    BY <1>1, <1>8 DEF SwapHighTide, Goto, LocalsTypeOK, Marking
  <2>3. UNCHANGED <<table, flags, vm, history>>
    BY <1>1, <1>8 DEF SwapHighTide, table, flags, vm, history
  <2>4. QED
    BY <2>1, <2>2, <2>3, Frames DEF TypeOK
<1>9. ASSUME NEW r \in Requestors, Announce(r)
     PROVE  TypeOK'
  <2>1. FlagsTypeOK'
    BY <1>1, <1>9 DEF Announce, Goto, FlagsTypeOK
  <2>2. LocalsTypeOK'
    BY <1>1, <1>9 DEF Announce, Goto, LocalsTypeOK, Marking
  <2>3. UNCHANGED <<table, tides, vm, history>>
    BY <1>1, <1>9 DEF Announce, table, tides, vm, history
  <2>4. QED
    BY <2>1, <2>2, <2>3, Frames DEF TypeOK
<1>10. ASSUME NEW r \in Requestors, ForceInterruptCheck(r)
     PROVE  TypeOK'
  <2>1. FlagsTypeOK'
    BY <1>1, <1>10 DEF ForceInterruptCheck, Goto, FlagsTypeOK
  <2>2. LocalsTypeOK'
    BY <1>1, <1>10 DEF ForceInterruptCheck, Goto, LocalsTypeOK, Marking
  <2>3. UNCHANGED <<table, tides, vm, history>>
    BY <1>1, <1>10 DEF ForceInterruptCheck, table, tides, vm, history
  <2>4. QED
    BY <2>1, <2>2, <2>3, Frames DEF TypeOK
<1>11. CASE EnterEventCheck
  <2>1. FlagsTypeOK'
    BY <1>1, <1>11 DEF EnterEventCheck, VMGoto, FlagsTypeOK
  <2>2. VMTypeOK'
    BY <1>1, <1>11 DEF EnterEventCheck, VMGoto, VMTypeOK, Spare
  <2>3. UNCHANGED <<table, tides, locals, history>>
    BY <1>1, <1>11 DEF EnterEventCheck, table, tides, locals, history
  <2>4. QED
    BY <2>1, <2>2, <2>3, Frames DEF TypeOK
<1>12. CASE TestCheckFlag
  <2>1. VMTypeOK'
    BY <1>1, <1>12 DEF TestCheckFlag, VMGoto, VMTypeOK, Spare
  <2>2. UNCHANGED <<table, tides, flags, locals, history>>
    BY <1>1, <1>12 DEF TestCheckFlag, table, tides, flags, locals, history
  <2>3. QED
    BY <2>1, <2>2, Frames DEF TypeOK
<1>13. CASE ClearCheckFlag
  <2>1. FlagsTypeOK'
    BY <1>1, <1>13 DEF ClearCheckFlag, VMGoto, FlagsTypeOK
  <2>2. VMTypeOK'
    BY <1>1, <1>13 DEF ClearCheckFlag, VMGoto, VMTypeOK, Spare
  <2>3. UNCHANGED <<table, tides, locals, history>>
    BY <1>1, <1>13 DEF ClearCheckFlag, table, tides, locals, history
  <2>4. QED
    BY <2>1, <2>2, <2>3, Frames DEF TypeOK
<1>14. CASE ResetLowTide
  <2>1. TidesTypeOK'
    BY <1>1, <1>14 DEF ResetLowTide, VMGoto, TidesTypeOK, Spare
  <2>2. VMTypeOK'
    BY <1>1, <1>14 DEF ResetLowTide, VMGoto, VMTypeOK, Spare
  <2>3. UNCHANGED <<table, flags, locals, history>>
    BY <1>1, <1>14 DEF ResetLowTide, table, flags, locals, history
  <2>4. QED
    BY <2>1, <2>2, <2>3, Frames DEF TypeOK
<1>15. CASE ResetHighTide
  <2>1. TidesTypeOK'
    BY <1>1, <1>15 DEF ResetHighTide, VMGoto, TidesTypeOK, Spare
  <2>2. VMTypeOK'
    BY <1>1, <1>15 DEF ResetHighTide, VMGoto, VMTypeOK, Spare
  <2>3. UNCHANGED <<table, flags, locals, history>>
    BY <1>1, <1>15 DEF ResetHighTide, table, flags, locals, history
  <2>4. QED
    BY <2>1, <2>2, <2>3, Frames DEF TypeOK
<1>16. CASE ToggleTides
  <2>1. TidesTypeOK'
    BY <1>1, <1>16 DEF ToggleTides, VMGoto, TidesTypeOK, Spare
  <2>2. VMTypeOK'
    BY <1>1, <1>16 DEF ToggleTides, VMGoto, VMTypeOK, Spare
  <2>3. HistoryTypeOK'
    BY <1>1, <1>16 DEF ToggleTides, VMGoto, HistoryTypeOK, Marking
  <2>4. UNCHANGED <<table, flags, locals>>
    BY <1>1, <1>16 DEF ToggleTides, table, flags, locals
  <2>5. QED
    BY <2>1, <2>2, <2>3, <2>4, Frames DEF TypeOK
<1>17. CASE FetchLowTide
  <2>1. VMTypeOK'
    BY <1>1, <1>17 DEF FetchLowTide, VMGoto, VMTypeOK, TidesTypeOK, Spare
  <2>2. UNCHANGED <<table, tides, flags, locals, history>>
    BY <1>1, <1>17 DEF FetchLowTide, table, tides, flags, locals, history
  <2>3. QED
    BY <2>1, <2>2, Frames DEF TypeOK
<1>18. CASE FetchHighTide
  <2>1. VMTypeOK'
    BY <1>1, <1>18 DEF FetchHighTide, VMGoto, VMTypeOK, TidesTypeOK, Spare
  <2>2. UNCHANGED <<table, tides, flags, locals, history>>
    BY <1>1, <1>18 DEF FetchHighTide, table, tides, flags, locals, history
  <2>3. QED
    BY <2>1, <2>2, Frames DEF TypeOK
<1>19. CASE Respond
  <2>1. TableTypeOK'
    <3>1. scanI \in Indices
      BY <1>1, <1>19 DEF Respond, VMTypeOK
    <3>2. QED
      BY <1>1, <1>19, <3>1, IncrementType DEF Respond, TableTypeOK
  <2>2. VMTypeOK'
    BY <1>1, <1>19 DEF Respond, VMGoto, VMTypeOK, Spare
  <2>3. UNCHANGED <<tides, flags, locals, history>>
    BY <1>1, <1>19 DEF Respond, tides, flags, locals, history
  <2>4. QED
    BY <2>1, <2>2, <2>3, Frames DEF TypeOK
<1>20. CASE ScanNext
  <2>1. VMTypeOK'
    BY <1>1, <1>20 DEF ScanNext, VMGoto, VMTypeOK, Spare
  <2>2. HistoryTypeOK'
    BY <1>1, <1>20 DEF ScanNext, VMGoto, HistoryTypeOK, Marking
  <2>3. UNCHANGED <<table, tides, flags, locals>>
    BY <1>1, <1>20 DEF ScanNext, table, tides, flags, locals
  <2>4. QED
    BY <2>1, <2>2, <2>3, Frames DEF TypeOK
<1>21. CASE ScanDone
  <2>1. VMTypeOK'
    BY <1>1, <1>21 DEF ScanDone, VMGoto, VMTypeOK, Spare
  <2>2. UNCHANGED <<table, tides, flags, locals, history>>
    BY <1>1, <1>21 DEF ScanDone, table, tides, flags, locals, history
  <2>3. QED
    BY <2>1, <2>2, Frames DEF TypeOK
<1>22. CASE Recheck
  <2>1. FlagsTypeOK'
    BY <1>1, <1>22 DEF Recheck, VMGoto, FlagsTypeOK
  <2>2. VMTypeOK'
    BY <1>1, <1>22 DEF Recheck, VMGoto, VMTypeOK, Spare
  <2>3. UNCHANGED <<table, tides, locals, history>>
    BY <1>1, <1>22 DEF Recheck, table, tides, locals, history
  <2>4. QED
    BY <2>1, <2>2, <2>3, Frames DEF TypeOK
<1>23. CASE UNCHANGED vars
  <2>1. UNCHANGED <<table, tides, flags, locals, vm, history>>
    BY <1>1, <1>23 DEF vars
  <2>2. QED
    BY <2>1, Frames DEF TypeOK
<1>24. QED
  BY <1>2, <1>3, <1>4, <1>5, <1>6, <1>7, <1>8, <1>9, <1>10, <1>11, <1>12, <1>13, <1>14, <1>15, <1>16, <1>17, <1>18, <1>19, <1>20, <1>21, <1>22, <1>23
     DEF Next, Signalling, VMThread

\* Type correctness of the whole protocol.
THEOREM TypeCorrect == Spec => []TypeOK
<1>1. Init => TypeOK
  BY InitType
<1>2. TypeOK /\ [Next]_vars => TypeOK'
  BY NextType
<1>3. QED
  BY <1>1, <1>2, PTL DEF Spec
\* A step leaves every requestor's marks as it knows them: compare-and-swaps
\* only widen the tides, resets spare the tides in use, and a switch of tides
\* makes every requestor that was marking stale.
LEMMA NextMarks ==
    TypeOK /\ (\A r \in Requestors : MarksInTime(r)) /\ [Next]_vars
       => \A r \in Requestors : MarksInTime(r)'
<1> USE TableAssumption DEF Indices, Tides, MaxTide, MinTide
<1> SUFFICES ASSUME TypeOK, \A r \in Requestors : MarksInTime(r), [Next]_vars,
                    NEW q \in Requestors
             PROVE  MarksInTime(q)'
  OBVIOUS
<1>1. LocalsTypeOK /\ TidesTypeOK /\ MarksInTime(q)
  BY DEF TypeOK
<1> USE <1>1 DEF LocalsTypeOK, TidesTypeOK, MarksInTime, Marking, Spare,
               table, tides, flags, locals, vm, history
<1>2. ASSUME NEW r \in Requestors, NEW index \in 0 .. NumSignalRequests + 1,
            Call(r, index)
     PROVE  MarksInTime(q)'
  BY <1>2 DEF Call, Goto
<1>3. ASSUME NEW r \in Requestors, AddRequest(r)
     PROVE  MarksInTime(q)'
  BY <1>3 DEF AddRequest, Goto
<1>4. ASSUME NEW r \in Requestors, ReadTideInUse(r)
     PROVE  MarksInTime(q)'
  BY <1>4 DEF ReadTideInUse, Goto
<1>5. ASSUME NEW r \in Requestors, ReadLowTide(r)
     PROVE  MarksInTime(q)'
  BY <1>5 DEF ReadLowTide, Goto
<1>6. ASSUME NEW r \in Requestors, SwapLowTide(r)
     PROVE  MarksInTime(q)'
  BY <1>6 DEF SwapLowTide, Goto
<1>7. ASSUME NEW r \in Requestors, ReadHighTide(r)
     PROVE  MarksInTime(q)'
  BY <1>7 DEF ReadHighTide, Goto
<1>8. ASSUME NEW r \in Requestors, SwapHighTide(r)
     PROVE  MarksInTime(q)'
  BY <1>8 DEF SwapHighTide, Goto
<1>9. ASSUME NEW r \in Requestors, Announce(r)
     PROVE  MarksInTime(q)'
  BY <1>9 DEF Announce, Goto
<1>10. ASSUME NEW r \in Requestors, ForceInterruptCheck(r)
     PROVE  MarksInTime(q)'
  BY <1>10 DEF ForceInterruptCheck, Goto
<1>11. CASE EnterEventCheck
  BY <1>11 DEF EnterEventCheck, VMGoto
<1>12. CASE TestCheckFlag
  BY <1>12 DEF TestCheckFlag, VMGoto
<1>13. CASE ClearCheckFlag
  BY <1>13 DEF ClearCheckFlag, VMGoto
<1>14. CASE ResetLowTide
  BY <1>14 DEF ResetLowTide, VMGoto
<1>15. CASE ResetHighTide
  BY <1>15 DEF ResetHighTide, VMGoto
<1>16. CASE ToggleTides
  BY <1>16 DEF ToggleTides, VMGoto
<1>17. CASE FetchLowTide
  BY <1>17 DEF FetchLowTide, VMGoto
<1>18. CASE FetchHighTide
  BY <1>18 DEF FetchHighTide, VMGoto
<1>19. CASE Respond
  BY <1>19 DEF Respond, VMGoto
<1>20. CASE ScanNext
  BY <1>20 DEF ScanNext, VMGoto
<1>21. CASE ScanDone
  BY <1>21 DEF ScanDone, VMGoto
<1>22. CASE Recheck
  BY <1>22 DEF Recheck, VMGoto
<1>23. CASE UNCHANGED vars
  BY <1>23 DEF vars
<1>24. QED
  BY <1>2, <1>3, <1>4, <1>5, <1>6, <1>7, <1>8, <1>9, <1>10, <1>11, <1>12, <1>13, <1>14, <1>15, <1>16, <1>17, <1>18, <1>19, <1>20, <1>21, <1>22, <1>23
     DEF Next, Signalling, VMThread

\* The heart of the protocol: a step that takes an owed index out of the tides
\* in use or the VM's flag puts it into the range the VM scans.
LEMMA NextForgotten == ForgottenInv /\ [Next]_vars => NoRequestForgotten'
<1> USE TableAssumption DEF Indices, Tides, MaxTide, MinTide
<1> SUFFICES ASSUME ForgottenInv, [Next]_vars,
                    NEW x \in Indices, (x \in owed)', x < ExternalSemaphoreTableSize
             PROVE  \/ (lowTide[useTide] <= x /\ x <= highTide[useTide] /\ Announced)'
                    \/ WillScan(x)'
  BY DEF NoRequestForgotten
<1> DEFINE Kept == \/ (lowTide[useTide] <= x /\ x <= highTide[useTide] /\ Announced)'
                   \/ WillScan(x)'
<1>1. /\ LocalsTypeOK /\ TidesTypeOK /\ VMTypeOK
      /\ \A r \in Requestors : MarksInTime(r)
      /\ x \in owed => \/ lowTide[useTide] <= x /\ x <= highTide[useTide] /\ Announced
                       \/ WillScan(x)
  BY DEF ForgottenInv, TypeOK, NoRequestForgotten
<1> USE <1>1 DEF LocalsTypeOK, TidesTypeOK, VMTypeOK, MarksInTime, Marking,
               Spare, Announced, WillScan,
               table, tides, flags, locals, vm, history
<1>2. ASSUME NEW r \in Requestors, NEW index \in 0 .. NumSignalRequests + 1,
            Call(r, index)
     PROVE  Kept
  BY <1>2 DEF Call, Goto
<1>3. ASSUME NEW r \in Requestors, AddRequest(r)
     PROVE  Kept
  BY <1>3 DEF AddRequest, Goto
<1>4. ASSUME NEW r \in Requestors, ReadTideInUse(r)
     PROVE  Kept
  BY <1>4 DEF ReadTideInUse, Goto
<1>5. ASSUME NEW r \in Requestors, ReadLowTide(r)
     PROVE  Kept
  BY <1>5 DEF ReadLowTide, Goto
<1>6. ASSUME NEW r \in Requestors, SwapLowTide(r)
     PROVE  Kept
  BY <1>6 DEF SwapLowTide, Goto
<1>7. ASSUME NEW r \in Requestors, ReadHighTide(r)
     PROVE  Kept
  BY <1>7 DEF ReadHighTide, Goto
<1>8. ASSUME NEW r \in Requestors, SwapHighTide(r)
     PROVE  Kept
  BY <1>8 DEF SwapHighTide, Goto
<1>9. ASSUME NEW r \in Requestors, Announce(r)
     PROVE  Kept
  BY <1>9 DEF Announce, Goto
<1>10. ASSUME NEW r \in Requestors, ForceInterruptCheck(r)
     PROVE  Kept
  BY <1>10 DEF ForceInterruptCheck, Goto
<1>11. CASE EnterEventCheck
  BY <1>11 DEF EnterEventCheck, VMGoto
<1>12. CASE TestCheckFlag
  BY <1>12 DEF TestCheckFlag, VMGoto
<1>13. CASE ClearCheckFlag
  BY <1>13 DEF ClearCheckFlag, VMGoto
<1>14. CASE ResetLowTide
  BY <1>14 DEF ResetLowTide, VMGoto
<1>15. CASE ResetHighTide
  BY <1>15 DEF ResetHighTide, VMGoto
<1>16. CASE ToggleTides
  BY <1>16 DEF ToggleTides, VMGoto
<1>17. CASE FetchLowTide
  BY <1>17 DEF FetchLowTide, VMGoto
<1>18. CASE FetchHighTide
  BY <1>18 DEF FetchHighTide, VMGoto
<1>19. CASE Respond
  BY <1>19 DEF Respond, VMGoto
<1>20. CASE ScanNext
  BY <1>20 DEF ScanNext, VMGoto
<1>21. CASE ScanDone
  BY <1>21 DEF ScanDone, VMGoto
<1>22. CASE Recheck
  BY <1>22 DEF Recheck, VMGoto
<1>23. CASE UNCHANGED vars
  BY <1>23 DEF vars
<1>24. QED
  BY <1>2, <1>3, <1>4, <1>5, <1>6, <1>7, <1>8, <1>9, <1>10, <1>11, <1>12, <1>13, <1>14, <1>15, <1>16, <1>17, <1>18, <1>19, <1>20, <1>21, <1>22, <1>23
     DEF Next, Signalling, VMThread

\* The VM is made to look at the flag: whoever raises it smashes the stack limit
\* next, and the VM does so itself if it finds the flag up as it leaves.
LEMMA NextNoticed == TypeOK /\ FlagIsNoticed /\ [Next]_vars => FlagIsNoticed'
<1> SUFFICES ASSUME TypeOK, FlagIsNoticed, [Next]_vars
             PROVE  FlagIsNoticed'
  OBVIOUS
<1> USE DEF TypeOK, FlagsTypeOK, LocalsTypeOK, FlagIsNoticed, table, tides, flags, locals, vm, history
<1>1. ASSUME NEW r \in Requestors, NEW index \in 0 .. NumSignalRequests + 1,
            Call(r, index)
     PROVE  FlagIsNoticed'
  BY <1>1 DEF Call, Goto
<1>2. ASSUME NEW r \in Requestors, AddRequest(r)
     PROVE  FlagIsNoticed'
  BY <1>2 DEF AddRequest, Goto
<1>3. ASSUME NEW r \in Requestors, ReadTideInUse(r)
     PROVE  FlagIsNoticed'
  BY <1>3 DEF ReadTideInUse, Goto
<1>4. ASSUME NEW r \in Requestors, ReadLowTide(r)
     PROVE  FlagIsNoticed'
  BY <1>4 DEF ReadLowTide, Goto
<1>5. ASSUME NEW r \in Requestors, SwapLowTide(r)
     PROVE  FlagIsNoticed'
  BY <1>5 DEF SwapLowTide, Goto
<1>6. ASSUME NEW r \in Requestors, ReadHighTide(r)
     PROVE  FlagIsNoticed'
  BY <1>6 DEF ReadHighTide, Goto
<1>7. ASSUME NEW r \in Requestors, SwapHighTide(r)
     PROVE  FlagIsNoticed'
  BY <1>7 DEF SwapHighTide, Goto
<1>8. ASSUME NEW r \in Requestors, Announce(r)
     PROVE  FlagIsNoticed'
  BY <1>8 DEF Announce, Goto
<1>9. ASSUME NEW r \in Requestors, ForceInterruptCheck(r)
     PROVE  FlagIsNoticed'
  BY <1>9 DEF ForceInterruptCheck, Goto
<1>10. CASE EnterEventCheck
  BY <1>10 DEF EnterEventCheck, VMGoto
<1>11. CASE TestCheckFlag
  BY <1>11 DEF TestCheckFlag, VMGoto
<1>12. CASE ClearCheckFlag
  BY <1>12 DEF ClearCheckFlag, VMGoto
<1>13. CASE ResetLowTide
  BY <1>13 DEF ResetLowTide, VMGoto
<1>14. CASE ResetHighTide
  BY <1>14 DEF ResetHighTide, VMGoto
<1>15. CASE ToggleTides
  BY <1>15 DEF ToggleTides, VMGoto
<1>16. CASE FetchLowTide
  BY <1>16 DEF FetchLowTide, VMGoto
<1>17. CASE FetchHighTide
  BY <1>17 DEF FetchHighTide, VMGoto
<1>18. CASE Respond
  BY <1>18 DEF Respond, VMGoto
<1>19. CASE ScanNext
  BY <1>19 DEF ScanNext, VMGoto
<1>20. CASE ScanDone
  BY <1>20 DEF ScanDone, VMGoto
<1>21. CASE Recheck
  BY <1>21 DEF Recheck, VMGoto
<1>22. CASE UNCHANGED vars
  BY <1>22 DEF vars
<1>23. QED
  BY <1>1, <1>2, <1>3, <1>4, <1>5, <1>6, <1>7, <1>8, <1>9, <1>10, <1>11, <1>12, <1>13, <1>14, <1>15, <1>16, <1>17, <1>18, <1>19, <1>20, <1>21, <1>22
     DEF Next, Signalling, VMThread

\* No request marked before the tides switch is forgotten, and every raised
\* flag is noticed.
THEOREM NothingForgotten == Spec => []NoRequestForgotten
<1>1. Init => ForgottenInv
  BY InitType DEF Init, ForgottenInv, MarksInTime, Marking, NoRequestForgotten
<1>2. ForgottenInv /\ [Next]_vars => ForgottenInv'
  BY NextType, NextMarks, NextForgotten DEF ForgottenInv
<1>3. ForgottenInv => NoRequestForgotten
  BY DEF ForgottenInv
<1>4. QED
  BY <1>1, <1>2, <1>3, PTL DEF Spec

\* The check flag is never up with nobody to make the VM look at it.
THEOREM FlagNoticed == Spec => []FlagIsNoticed
<1>1. Init => FlagIsNoticed
  BY DEF Init, FlagIsNoticed
<1>2. TypeOK /\ FlagIsNoticed /\ [Next]_vars => FlagIsNoticed'
  BY NextNoticed
<1>3. QED
  BY <1>1, <1>2, TypeCorrect, PTL DEF Spec

\* What a request and a response do to the difference of the two counters.
LEMMA OutstandingSteps ==
    ASSUME NEW req \in 0 .. CounterMod - 1, NEW resp \in 0 .. CounterMod - 1
    PROVE  /\ Ahead(req, resp) \in 0 .. CounterMod - 1
           /\ Ahead(Increment(req), resp)
                 = IF Ahead(req, resp) = CounterMod - 1 THEN 0
                   ELSE Ahead(req, resp) + 1
           /\ req # resp => /\ Ahead(req, resp) > 0
                            /\ Ahead(req, Increment(resp)) = Ahead(req, resp) - 1
BY CounterAssumption DEF Increment, Ahead

\* A step of the protocol is a step of the abstract semaphores or changes
\* neither counter.
LEMMA NextImplements == TypeOK /\ [Next]_vars => [Abstract!Next]_(Abstract!vars)
<1> SUFFICES ASSUME TypeOK, [Next]_vars
             PROVE  Abstract!Next \/ UNCHANGED Abstract!vars
  OBVIOUS
<1>1. CASE \E r \in Requestors : AddRequest(r)
  <2>1. PICK r \in Requestors : AddRequest(r)
    BY <1>1
  <2>2. i[r] \in Indices
    BY DEF TypeOK, LocalsTypeOK
  <2>3. /\ Outstanding(i[r]) \in 0 .. CounterMod - 1
        /\ Outstanding(i[r])' = IF Outstanding(i[r]) = CounterMod - 1 THEN 0
                                ELSE Outstanding(i[r]) + 1
    BY <2>1, <2>2, OutstandingSteps
       DEF AddRequest, Outstanding, TypeOK, TableTypeOK
  <2>4. \A x \in Indices \ {i[r]} : Outstanding(x)' = Outstanding(x)
    BY <2>1, <2>2 DEF AddRequest, Outstanding, TypeOK, TableTypeOK
  <2>5. CASE Outstanding(i[r]) = CounterMod - 1
    BY <2>1, <2>2, <2>3, <2>4, <2>5 DEF AddRequest, Abstract!Overrun, Abstract!Next
  <2>6. CASE Outstanding(i[r]) < CounterMod - 1
    <3>1. Outstanding(i[r])' = Outstanding(i[r]) + 1
      BY <2>3, <2>6, CounterAssumption
    <3>2. Abstract!Request(i[r])
      BY <2>1, <2>2, <2>4, <2>6, <3>1 DEF AddRequest, Abstract!Request
    <3>3. QED
      BY <2>2, <3>2 DEF Abstract!Next
  <2>7. QED
    BY <2>3, <2>5, <2>6, CounterAssumption
<1>2. CASE Respond
  <2>1. scanI \in Indices
    BY <1>2, TableAssumption DEF Respond, TypeOK, VMTypeOK, Indices, MaxTide, MinTide
  <2>2. /\ Outstanding(scanI) \in 0 .. CounterMod - 1
        /\ Outstanding(scanI) > 0
        /\ Outstanding(scanI)' = Outstanding(scanI) - 1
    BY <1>2, <2>1, OutstandingSteps
       DEF Respond, Outstanding, TypeOK, TableTypeOK
  <2>3. \A x \in Indices \ {scanI} : Outstanding(x)' = Outstanding(x)
    BY <1>2, <2>1 DEF Respond, Outstanding, TypeOK, TableTypeOK
  <2>4. Abstract!Deliver(scanI)
    BY <1>2, <2>1, <2>2, <2>3
       DEF Respond, Abstract!Deliver, Increment, TypeOK, TableTypeOK
  <2>5. QED
    BY <2>1, <2>4 DEF Abstract!Next
<1>3. CASE UNCHANGED table
  BY <1>3 DEF table, Abstract!vars, Outstanding
<1>4. (\E r \in Requestors : AddRequest(r)) \/ Respond \/ UNCHANGED table
  BY DEF Next, Signalling, VMThread, vars, Call, ReadTideInUse, ReadLowTide,
         SwapLowTide, ReadHighTide, SwapHighTide, Announce,
         ForceInterruptCheck, EnterEventCheck, TestCheckFlag, ClearCheckFlag,
         ResetLowTide, ResetHighTide, ToggleTides, FetchLowTide,
         FetchHighTide, ScanNext, ScanDone, Recheck, table
<1>5. QED
  BY <1>1, <1>2, <1>3, <1>4

\* The protocol implements the abstract semaphores: a signal is delivered only
\* against a pending request, whatever the threads' interleaving.
THEOREM SignalsMatch == Spec => SignalsMatchRequests
<1>1. Init => Abstract!Init
  BY CounterAssumption DEF Init, Abstract!Init, Outstanding, Ahead
<1>2. TypeOK /\ [Next]_vars => [Abstract!Next]_(Abstract!vars)
  BY NextImplements
<1>3. QED
  BY <1>1, <1>2, TypeCorrect, PTL DEF Spec, SignalsMatchRequests, Abstract!Spec
=============================================================================
