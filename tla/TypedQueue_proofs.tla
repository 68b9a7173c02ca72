------------------------- MODULE TypedQueue_proofs -------------------------
(***************************************************************************)
(* Proofs about TypedQueue, for every value of its constants.              *)
(***************************************************************************)
EXTENDS TypedQueue, FiniteSetTheorems, TLAPS

-----------------------------------------------------------------------------
(* Type correctness.                                                       *)

LEMMA NothingType == Nothing \in Slots
  BY NumbersAssumption DEF Nothing, Slots, Versions

LEMMA NoEntryType == NoEntry \in Entry
  BY NumbersAssumption DEF NoEntry, Entry, Versions

LEMMA InitType == Init => TypeOK
<1> SUFFICES ASSUME Init PROVE TypeOK
  OBVIOUS
<1>1. /\ now \in 0 .. MaxTime
      /\ slots \in 0 .. Limit
  BY NumbersAssumption DEF Init
<1>2. pending \in [Keys -> Entry]
  BY NoEntryType DEF Init
<1>3. /\ saved \in Slots
      /\ batch \in Slots
      /\ row \in Slots
      /\ landed \in Slots
      /\ failed \in Slots
      /\ todo \in [Workers -> Slots]
      /\ flight \in [Workers -> Slots]
  BY NothingType DEF Init
<1>4. /\ task \in [Workers -> {"idle"}]
      /\ io \in [Workers -> {"none"}]
      /\ attempt \in [Workers -> 0 .. DeadlockRetries]
  BY NumbersAssumption DEF Init
<1>5. /\ batchTimer \in {"nil", "armed", "fired"}
      /\ cancelled \in BOOLEAN
  BY DEF Init
<1> QED
  BY <1>1, <1>2, <1>3, <1>4, <1>5 DEF TypeOK

\* A squash yields an entry.
LEMMA SquashType ==
  ASSUME TypeOK, NEW k \in Keys, NEW d \in Delays,
         saved[k] < MaxWrites, now + d <= MaxTime
  PROVE  Squash(pending[k], saved[k] + 1, d) \in Entry
  BY NumbersAssumption DEF TypeOK, Squash, Entry, Slots, Versions

\* SwapOut keeps the types of what it changes.
LEMMA SwapOutType ==
  ASSUME TypeOK, NEW w \in Workers, NEW b \in Slots, SwapOut(w, b)
  PROVE  /\ batch' \in Slots
         /\ batchTimer' \in {"nil", "armed", "fired"}
         /\ flight' \in [Workers -> Slots]
         /\ io' \in [Workers -> {"none", "acquire", "exec"}]
         /\ attempt' \in [Workers -> 0 .. DeadlockRetries]
  BY NumbersAssumption DEF TypeOK, SwapOut, Slots, Versions, Nothing

LEMMA AddedType ==
  ASSUME TypeOK, NEW w \in Workers, NEW k \in Keys
  PROVE  /\ Added(w, k) \in Slots
         /\ [todo EXCEPT ![w][k] = 0] \in [Workers -> Slots]
  BY NumbersAssumption DEF TypeOK, Added, Slots, Versions

\* Return keeps the types of what it changes.
LEMMA ReturnType ==
  ASSUME TypeOK, NEW w \in Workers, Return(w)
  PROVE  /\ flight' \in [Workers -> Slots]
         /\ io' \in [Workers -> {"none", "acquire", "exec"}]
         /\ task' \in [Workers -> {"idle", "dispatch", "flush", "fire", "force", "stopped", "flushed"}]
  BY NumbersAssumption DEF TypeOK, Return, Ended, Slots, Versions, Nothing

-----------------------------------------------------------------------------
(* The limiter: who writes holds a slot.                                   *)

Writing == {w \in Workers : io[w] = "exec"}

LEMMA WritingFinite == IsFiniteSet(Writing)
<1>1. IsFiniteSet(Workers)
  <2>1. IsFiniteSet({"loop", "main"})
    BY FS_EmptySet, FS_AddElement, {"loop", "main"} = ({} \cup {"loop"}) \cup {"main"}
  <2> QED
    BY <2>1, TimersAssumption, FS_Union DEF Workers
<1> QED
  BY <1>1, FS_Subset DEF Writing

\* A worker that is writing holds a slot it can give back.
LEMMA WriterHoldsSlot ==
  ASSUME SlotsBalanced, NEW w \in Workers, io[w] = "exec"
  PROVE  slots \in Nat \ {0} /\ Cardinality(Writing \ {w}) = slots - 1
<1>1. slots = Cardinality(Writing)
  BY DEF SlotsBalanced, Writing
<1>2. w \in Writing
  BY DEF Writing
<1>3. /\ Cardinality(Writing) \in Nat
      /\ Cardinality(Writing \ {w}) = Cardinality(Writing) - 1
      /\ Cardinality(Writing \ {w}) \in Nat
  BY <1>2, WritingFinite, FS_RemoveElement, FS_CardinalityType, FS_Subset
<1> QED
  BY <1>1, <1>3

LEMMA NextType == TypeOK /\ SlotsBalanced /\ [Next]_vars => TypeOK'
<1> SUFFICES ASSUME TypeOK, SlotsBalanced, [Next]_vars PROVE TypeOK'
  OBVIOUS
<1> USE DEF queueVars, workerVars, dbVars
<1>1. ASSUME NEW k \in Keys, NEW d \in Delays, Enqueue(k, d) PROVE TypeOK'
  <2>1. Squash(pending[k], saved[k] + 1, d) \in Entry
    BY <1>1, SquashType DEF Enqueue
  <2>2. pending' \in [Keys -> Entry]
    BY <1>1, <2>1 DEF TypeOK, Enqueue
  <2>3. saved' \in Slots
    BY <1>1, NumbersAssumption DEF TypeOK, Enqueue, Slots, Versions
  <2> QED
    BY <1>1, <2>2, <2>3 DEF TypeOK, Enqueue
<1>2. ASSUME NEW w \in Workers, NEW K \in SUBSET Keys, Take(w, K)
      PROVE  /\ todo' \in [Workers -> Slots]
             /\ pending' \in [Keys -> Entry]
  <2>1. [k \in Keys |-> IF k \in K THEN pending[k].data ELSE 0] \in Slots
    BY NumbersAssumption DEF TypeOK, Slots, Versions, Entry
  <2>2. todo' \in [Workers -> Slots]
    BY <1>2, <2>1 DEF TypeOK, Take
  <2>3. pending' \in [Keys -> Entry]
    BY <1>2, NoEntryType DEF TypeOK, Take
  <2> QED
    BY <2>2, <2>3
<1>3. CASE DispatchReady
  <2>1. /\ todo' \in [Workers -> Slots]
        /\ pending' \in [Keys -> Entry]
    BY <1>2, <1>3 DEF DispatchReady, Workers
  <2> QED
    BY <1>3, <2>1 DEF TypeOK, DispatchReady
<1>4. ASSUME NEW w \in Workers, FlushAll(w) PROVE TypeOK'
  <2>1. /\ todo' \in [Workers -> Slots]
        /\ pending' \in [Keys -> Entry]
    BY <1>2, <1>4 DEF FlushAll
  <2> QED
    BY <1>4, <2>1 DEF TypeOK, FlushAll
<1>5. ASSUME NEW w \in Workers, NEW k \in Keys, AddToBatch(w, k) PROVE TypeOK'
  BY <1>5, AddedType DEF TypeOK, AddToBatch
<1>6. ASSUME NEW w \in Workers, NEW k \in Keys, FillBatch(w, k) PROVE TypeOK'
  <2>1. /\ Added(w, k) \in Slots
        /\ todo' \in [Workers -> Slots]
    BY <1>6, AddedType DEF FillBatch
  <2>2. SwapOut(w, Added(w, k))
    BY <1>6 DEF FillBatch
  <2>3. /\ batch' \in Slots
        /\ batchTimer' \in {"nil", "armed", "fired"}
        /\ flight' \in [Workers -> Slots]
        /\ io' \in [Workers -> {"none", "acquire", "exec"}]
        /\ attempt' \in [Workers -> 0 .. DeadlockRetries]
    BY <2>1, <2>2, SwapOutType
  <2> QED
    BY <1>6, <2>1, <2>3 DEF TypeOK, FillBatch
<1>7. CASE DispatchDone
  BY <1>7 DEF TypeOK, DispatchDone
<1>8. ASSUME NEW t \in Timers, TimerFires(t) PROVE TypeOK'
  BY <1>8 DEF TypeOK, TimerFires
<1>9. ASSUME NEW w \in Workers, ForceFlush(w) PROVE TypeOK'
  <2>1. SwapOut(w, batch) /\ batch \in Slots
    BY <1>9 DEF ForceFlush, TypeOK
  <2>2. /\ batch' \in Slots
        /\ batchTimer' \in {"nil", "armed", "fired"}
        /\ flight' \in [Workers -> Slots]
        /\ io' \in [Workers -> {"none", "acquire", "exec"}]
        /\ attempt' \in [Workers -> 0 .. DeadlockRetries]
    BY <2>1, SwapOutType
  <2> QED
    BY <1>9, <2>2 DEF TypeOK, ForceFlush
<1>10. ASSUME NEW w \in Workers, ForceNothing(w) PROVE TypeOK'
  BY <1>10 DEF TypeOK, ForceNothing, Ended
<1>11. ASSUME NEW w \in Workers, AcquireSlot(w) PROVE TypeOK'
  BY <1>11, NumbersAssumption DEF TypeOK, AcquireSlot, SlotFree
<1>12. ASSUME NEW w \in Workers, Requeue(w) PROVE TypeOK'
  <2>1. batch' \in Slots
    BY <1>12 DEF TypeOK, Requeue, Requeued, Slots
  <2> QED
    BY <1>12, <2>1, ReturnType DEF TypeOK, Requeue
<1>13. ASSUME NEW w \in Workers, WriteSucceeds(w) PROVE TypeOK'
  <2>1. slots' \in 0 .. Limit
    <3>1. io[w] = "exec" /\ slots' = slots - 1
      BY <1>13 DEF WriteSucceeds, Release
    <3>2. slots \in Nat \ {0}
      BY <3>1, WriterHoldsSlot
    <3>3. slots \in 0 .. Limit
      BY DEF TypeOK
    <3> QED
      BY <3>1, <3>2, <3>3, NumbersAssumption
  <2>2. row' \in Slots /\ landed' \in Slots
    BY <1>13 DEF TypeOK, WriteSucceeds, Upsert, Slots, MaxOf
  <2> QED
    BY <1>13, <2>1, <2>2, ReturnType DEF TypeOK, WriteSucceeds, Release
<1>14. ASSUME NEW w \in Workers, WriteDeadlocks(w) PROVE TypeOK'
  BY <1>14, NumbersAssumption DEF TypeOK, WriteDeadlocks
<1>15. ASSUME NEW w \in Workers, WriteFails(w) PROVE TypeOK'
  <2>1. slots' \in 0 .. Limit
    <3>1. io[w] = "exec" /\ slots' = slots - 1
      BY <1>15 DEF WriteFails, Release
    <3>2. slots \in Nat \ {0}
      BY <3>1, WriterHoldsSlot
    <3>3. slots \in 0 .. Limit
      BY DEF TypeOK
    <3> QED
      BY <3>1, <3>2, <3>3, NumbersAssumption
  <2>2. failed' \in Slots
    BY <1>15 DEF TypeOK, WriteFails, Slots, MaxOf
  <2> QED
    BY <1>15, <2>1, <2>2, ReturnType DEF TypeOK, WriteFails, Release
<1>16. CASE Tick
  BY <1>16, NumbersAssumption DEF TypeOK, Tick
<1>17. CASE Cancel
  BY <1>17 DEF TypeOK, Cancel
<1>19. CASE UNCHANGED vars
  BY <1>19 DEF TypeOK, vars
<1> QED
  BY <1>1, <1>3, <1>4, <1>5, <1>6, <1>7, <1>8, <1>9, <1>10, <1>11, <1>12, <1>13,
     <1>14, <1>15, <1>16, <1>17, <1>19
     DEF Next, Serve, Shutdown, Work, DispatchNothing

-----------------------------------------------------------------------------
(* Who holds what, and where.                                              *)

LEMMA InitControl == Init => Control
  BY TimersAssumption DEF Init, Control, Workers, Nothing

LEMMA NextControl == TypeOK /\ Control /\ [Next]_vars => Control'
<1> SUFFICES ASSUME TypeOK, Control, [Next]_vars PROVE Control'
  OBVIOUS
<1> USE TimersAssumption DEF queueVars, workerVars, dbVars
<1>1. ASSUME NEW k \in Keys, NEW d \in Delays, Enqueue(k, d) PROVE Control'
  BY <1>1 DEF Control, Enqueue
<1>2. CASE DispatchReady
  BY <1>2 DEF TypeOK, Control, DispatchReady, Take, Workers
<1>3. ASSUME NEW w \in Workers, FlushAll(w) PROVE Control'
  BY <1>3 DEF TypeOK, Control, FlushAll, Take, Workers
<1>4. ASSUME NEW w \in Workers, NEW k \in Keys, AddToBatch(w, k) PROVE Control'
  BY <1>4 DEF TypeOK, Control, AddToBatch, Carrying, Workers
<1>5. ASSUME NEW w \in Workers, NEW k \in Keys, FillBatch(w, k) PROVE Control'
  BY <1>5 DEF TypeOK, Control, FillBatch, Carrying, SwapOut, Workers
<1>6. CASE DispatchDone
  BY <1>6 DEF TypeOK, Control, DispatchDone, Workers
<1>7. ASSUME NEW t \in Timers, TimerFires(t) PROVE Control'
  BY <1>7 DEF TypeOK, Control, TimerFires, Workers
<1>8. ASSUME NEW w \in Workers, ForceFlush(w) PROVE Control'
  BY <1>8 DEF TypeOK, Control, ForceFlush, Forcing, SwapOut, Workers
<1>9. ASSUME NEW w \in Workers, ForceNothing(w) PROVE Control'
  BY <1>9 DEF TypeOK, Control, ForceNothing, Forcing, Ended, Workers
<1>10. ASSUME NEW w \in Workers, AcquireSlot(w) PROVE Control'
  BY <1>10 DEF TypeOK, Control, AcquireSlot, Workers
<1>11. ASSUME NEW w \in Workers, Return(w), io[w] # "none", todo' = todo, cancelled' = cancelled
       PROVE  Control'
  BY <1>11 DEF TypeOK, Control, Return, Ended, Workers
<1>12. ASSUME NEW w \in Workers, Requeue(w) PROVE Control'
  BY <1>11, <1>12 DEF Requeue
<1>13. ASSUME NEW w \in Workers, WriteSucceeds(w) PROVE Control'
  BY <1>11, <1>13 DEF WriteSucceeds, Release
<1>14. ASSUME NEW w \in Workers, WriteDeadlocks(w) PROVE Control'
  BY <1>14 DEF Control, WriteDeadlocks
<1>15. ASSUME NEW w \in Workers, WriteFails(w) PROVE Control'
  BY <1>11, <1>15 DEF WriteFails, Release
<1>16. CASE Tick
  BY <1>16 DEF Control, Tick
<1>17. CASE Cancel
  BY <1>17 DEF Control, Cancel
<1>19. CASE UNCHANGED vars
  BY <1>19 DEF Control, vars
<1> QED
  BY <1>1, <1>2, <1>3, <1>4, <1>5, <1>6, <1>7, <1>8, <1>9, <1>10, <1>12, <1>13,
     <1>14, <1>15, <1>16, <1>17, <1>19
     DEF Next, Serve, Shutdown, Work, DispatchNothing

-----------------------------------------------------------------------------
(* The slots of the limiter.                                               *)

LEMMA InitSlots == Init => SlotsBalanced
<1> SUFFICES ASSUME Init PROVE SlotsBalanced
  OBVIOUS
<1>1. {w \in Workers : io[w] = "exec"} = {} /\ slots = 0
  BY DEF Init
<1> QED
  BY <1>1, FS_EmptySet DEF SlotsBalanced

\* A worker that moves between two points where it does not write.
LEMMA StillBalanced ==
  ASSUME TypeOK, SlotsBalanced, NEW w \in Workers, NEW at \in {"none", "acquire"},
         io[w] # "exec", io' = [io EXCEPT ![w] = at], slots' = slots
  PROVE  SlotsBalanced'
<1>1. Writing' = Writing
  BY DEF TypeOK, Writing
<1> QED
  BY <1>1 DEF SlotsBalanced, Writing

\* A worker that gives its slot back.
LEMMA ReleaseBalanced ==
  ASSUME TypeOK, SlotsBalanced, NEW w \in Workers, io[w] = "exec", Release(w)
  PROVE  SlotsBalanced'
<1>1. Writing' = Writing \ {w}
  BY DEF TypeOK, Writing, Release, Return
<1>2. slots' = slots - 1
  BY DEF Release
<1>3. Cardinality(Writing \ {w}) = slots - 1
  BY WriterHoldsSlot
<1> QED
  BY <1>1, <1>2, <1>3 DEF SlotsBalanced, Writing

LEMMA NextSlots == TypeOK /\ Control /\ SlotsBalanced /\ [Next]_vars => SlotsBalanced'
<1> SUFFICES ASSUME TypeOK, Control, SlotsBalanced, [Next]_vars PROVE SlotsBalanced'
  OBVIOUS
<1> USE DEF queueVars, workerVars, dbVars
<1>1. ASSUME UNCHANGED <<io, slots>> PROVE SlotsBalanced'
  BY <1>1 DEF SlotsBalanced
<1>2. ASSUME NEW w \in Workers, NEW k \in Keys, FillBatch(w, k) PROVE SlotsBalanced'
  <2>1. io[w] # "exec" /\ io' = [io EXCEPT ![w] = "acquire"] /\ slots' = slots
    BY <1>2 DEF FillBatch, Carrying, SwapOut
  <2> QED
    BY <2>1, StillBalanced
<1>3. ASSUME NEW w \in Workers, ForceFlush(w) PROVE SlotsBalanced'
  <2>1. io[w] # "exec" /\ io' = [io EXCEPT ![w] = "acquire"] /\ slots' = slots
    BY <1>3 DEF ForceFlush, Forcing, SwapOut, Control
  <2> QED
    BY <2>1, StillBalanced
<1>4. ASSUME NEW w \in Workers, AcquireSlot(w) PROVE SlotsBalanced'
  <2>1. w \notin Writing /\ Writing' = Writing \cup {w} /\ slots' = slots + 1
    BY <1>4 DEF TypeOK, AcquireSlot, Writing
  <2>2. Cardinality(Writing \cup {w}) = Cardinality(Writing) + 1
    BY <2>1, WritingFinite, FS_AddElement
  <2> QED
    BY <2>1, <2>2 DEF SlotsBalanced, Writing
<1>5. ASSUME NEW w \in Workers, Requeue(w) PROVE SlotsBalanced'
  <2>1. io[w] # "exec" /\ io' = [io EXCEPT ![w] = "none"] /\ slots' = slots
    BY <1>5 DEF Requeue, Return
  <2> QED
    BY <2>1, StillBalanced
<1>6. ASSUME NEW w \in Workers, WriteSucceeds(w) \/ WriteFails(w) PROVE SlotsBalanced'
  BY <1>6, ReleaseBalanced DEF WriteSucceeds, WriteFails
<1> QED
  <2>1. ASSUME NEW w \in Workers, NEW k \in Keys, AddToBatch(w, k) PROVE SlotsBalanced'
    BY <1>1, <2>1 DEF AddToBatch
  <2>2. ASSUME NEW w \in Workers,
               ForceNothing(w) \/ WriteDeadlocks(w) \/ FlushAll(w)
        PROVE SlotsBalanced'
    BY <1>1, <2>2 DEF ForceNothing, WriteDeadlocks, FlushAll
  <2>3. ASSUME NEW k \in Keys, NEW d \in Delays, Enqueue(k, d) PROVE SlotsBalanced'
    BY <1>1, <2>3 DEF Enqueue
  <2>4. ASSUME NEW t \in Timers, TimerFires(t) PROVE SlotsBalanced'
    BY <1>1, <2>4 DEF TimerFires
  <2>5. CASE DispatchReady \/ DispatchDone \/ Tick \/ Cancel \/ UNCHANGED vars
    BY <1>1, <2>5 DEF DispatchReady, DispatchDone, Tick, Cancel, vars
  <2> QED
    BY <1>2, <1>3, <1>4, <1>5, <1>6, <2>1, <2>2, <2>3, <2>4, <2>5
       DEF Next, Serve, Shutdown, Work, DispatchNothing

-----------------------------------------------------------------------------
(* The batch and its timer.                                                *)

LEMMA InitWatched == Init => BatchIsWatched
  BY DEF Init, BatchIsWatched

LEMMA NextWatched ==
  TypeOK /\ Control /\ BatchIsWatched /\ [Next]_vars => BatchIsWatched'
<1> SUFFICES ASSUME TypeOK, Control, BatchIsWatched, [Next]_vars PROVE BatchIsWatched'
  OBVIOUS
<1> USE TimersAssumption DEF queueVars, workerVars, dbVars
<1>1. ASSUME NEW k \in Keys, NEW d \in Delays, Enqueue(k, d) PROVE BatchIsWatched'
  BY <1>1 DEF BatchIsWatched, Enqueue
<1>2. CASE DispatchReady
  BY <1>2 DEF TypeOK, BatchIsWatched, DispatchReady, Workers
<1>3. ASSUME NEW w \in Workers, FlushAll(w) PROVE BatchIsWatched'
  BY <1>3 DEF TypeOK, BatchIsWatched, FlushAll, Workers
<1>4. ASSUME NEW w \in Workers, NEW k \in Keys, AddToBatch(w, k) PROVE BatchIsWatched'
  <2>1. batch' # Nothing
    BY <1>4 DEF TypeOK, AddToBatch, Carrying, Added, Nothing, Slots
  <2> QED
    BY <1>4, <2>1 DEF TypeOK, BatchIsWatched, AddToBatch
<1>5. ASSUME NEW w \in Workers, NEW b \in Slots, SwapOut(w, b) PROVE BatchIsWatched'
  BY <1>5 DEF SwapOut, BatchIsWatched
<1>6. ASSUME NEW w \in Workers, NEW k \in Keys, FillBatch(w, k) PROVE BatchIsWatched'
  <2>1. Added(w, k) \in Slots
    BY AddedType
  <2> QED
    BY <1>5, <1>6, <2>1 DEF FillBatch
<1>7. CASE DispatchDone
  BY <1>7 DEF TypeOK, BatchIsWatched, DispatchDone, Workers
<1>8. ASSUME NEW t \in Timers, TimerFires(t) PROVE BatchIsWatched'
  BY <1>8 DEF TypeOK, BatchIsWatched, TimerFires, Workers
<1>9. ASSUME NEW w \in Workers, ForceFlush(w) PROVE BatchIsWatched'
  BY <1>5, <1>9 DEF TypeOK, ForceFlush
<1>10. ASSUME NEW w \in Workers, ForceNothing(w) PROVE BatchIsWatched'
  BY <1>10 DEF TypeOK, BatchIsWatched, ForceNothing
<1>11. ASSUME NEW w \in Workers, Return(w), io[w] # "none", UNCHANGED <<batch, batchTimer, cancelled>>
       PROVE  BatchIsWatched'
  BY <1>11 DEF TypeOK, Control, BatchIsWatched, Return, Ended, Workers
<1>12. ASSUME NEW w \in Workers, Requeue(w) PROVE BatchIsWatched'
  <2>1. w = "loop" /\ cancelled /\ task["loop"] = "dispatch" /\ task' = task
    BY <1>12 DEF TypeOK, Control, Requeue, CtxDone, Return, Workers
  <2>2. batch # Nothing => batch' # Nothing
    BY <1>12 DEF TypeOK, Requeue, Requeued, Nothing, Slots
  <2> QED
    BY <1>12, <2>1, <2>2 DEF BatchIsWatched, Requeue
<1>13. ASSUME NEW w \in Workers, WriteSucceeds(w) \/ WriteFails(w) PROVE BatchIsWatched'
  BY <1>11, <1>13 DEF WriteSucceeds, WriteFails, Release
<1>14. ASSUME NEW w \in Workers, AcquireSlot(w) \/ WriteDeadlocks(w) PROVE BatchIsWatched'
  BY <1>14 DEF BatchIsWatched, AcquireSlot, WriteDeadlocks
<1>15. CASE Tick \/ Cancel \/ UNCHANGED vars
  BY <1>15 DEF BatchIsWatched, Tick, Cancel, vars
<1> QED
  BY <1>1, <1>2, <1>3, <1>4, <1>6, <1>7, <1>8, <1>9, <1>10, <1>12, <1>13, <1>14, <1>15
     DEF Next, Serve, Shutdown, Work, DispatchNothing

-----------------------------------------------------------------------------
(* Order along the way to the database.                                    *)

\* Nothing is carried, written or given up that was not saved.
SavedOnly ==
    \A k \in Keys :
        /\ pending[k].data <= saved[k] /\ batch[k] <= saved[k]
        /\ \A w \in Workers : todo[w][k] <= saved[k] /\ flight[w][k] <= saved[k]
        /\ row[k] <= landed[k] /\ landed[k] <= saved[k] /\ failed[k] <= saved[k]

LEMMA NumberTypes ==
  ASSUME TypeOK, NEW k \in Keys
  PROVE  /\ saved[k] \in Nat /\ pending[k].data \in Nat /\ batch[k] \in Nat
         /\ row[k] \in Nat /\ landed[k] \in Nat /\ failed[k] \in Nat
         /\ \A w \in Workers : todo[w][k] \in Nat /\ flight[w][k] \in Nat
  BY NumbersAssumption DEF TypeOK, Slots, Versions, Entry

LEMMA InitOrder == Init => SavedOnly /\ PipelineOrder /\ NewestIsKept
<1> SUFFICES ASSUME Init PROVE SavedOnly /\ PipelineOrder /\ NewestIsKept
  OBVIOUS
<1>1. SavedOnly
  BY DEF Init, SavedOnly, Nothing, NoEntry
<1>2. PipelineOrder
  BY DEF Init, PipelineOrder, Nothing, NoEntry, Workers
<1>3. NewestIsKept
  BY DEF Init, NewestIsKept, Nothing
<1> QED
  BY <1>1, <1>2, <1>3

LEMMA NextSavedOnly == TypeOK /\ SavedOnly /\ [Next]_vars => SavedOnly'
<1> SUFFICES ASSUME TypeOK, SavedOnly, [Next]_vars, NEW k \in Keys
             PROVE  /\ pending'[k].data <= saved'[k] /\ batch'[k] <= saved'[k]
                    /\ \A w \in Workers : todo'[w][k] <= saved'[k] /\ flight'[w][k] <= saved'[k]
                    /\ row'[k] <= landed'[k] /\ landed'[k] <= saved'[k]
                    /\ failed'[k] <= saved'[k]
  BY DEF SavedOnly
<1> DEFINE Goal == /\ pending'[k].data <= saved'[k] /\ batch'[k] <= saved'[k]
                   /\ \A w \in Workers : todo'[w][k] <= saved'[k] /\ flight'[w][k] <= saved'[k]
                   /\ row'[k] <= landed'[k] /\ landed'[k] <= saved'[k]
                   /\ failed'[k] <= saved'[k]
<1> USE NumberTypes DEF queueVars, workerVars, dbVars
<1>1. ASSUME NEW j \in Keys, NEW d \in Delays, Enqueue(j, d) PROVE Goal
  <2>1. saved[k] <= saved'[k]
    BY <1>1 DEF TypeOK, Enqueue, Slots
  <2>2. pending'[k].data <= saved'[k]
    <3>1. CASE k = j
      BY <1>1, <3>1 DEF TypeOK, Enqueue, Squash, Slots, Entry
    <3>2. CASE k # j
      BY <1>1, <3>2 DEF TypeOK, Enqueue, SavedOnly, Slots
    <3> QED
      BY <3>1, <3>2
  <2> QED
    BY <1>1, <2>1, <2>2 DEF TypeOK, Enqueue, SavedOnly, Slots, Versions
<1>2. ASSUME NEW w \in Workers, NEW K \in SUBSET Keys, Take(w, K)
      PROVE  pending'[k].data <= saved[k] /\ \A v \in Workers : todo'[v][k] <= saved[k]
  BY <1>2 DEF TypeOK, Take, NoEntry, SavedOnly
<1>3. ASSUME NEW w \in Workers, NEW j \in Keys, AddToBatch(w, j) PROVE Goal
  BY <1>3 DEF TypeOK, AddToBatch, Added, SavedOnly, Slots
<1>4. ASSUME NEW w \in Workers, NEW b \in Slots, b[k] <= saved[k], SwapOut(w, b)
      PROVE  batch'[k] <= saved[k] /\ \A v \in Workers : flight'[v][k] <= saved[k]
  BY <1>4 DEF TypeOK, SwapOut, SavedOnly, Nothing
<1>5. ASSUME NEW w \in Workers, NEW j \in Keys, FillBatch(w, j) PROVE Goal
  <2>1. Added(w, j) \in Slots /\ Added(w, j)[k] <= saved[k]
    BY AddedType DEF TypeOK, Added, SavedOnly, Slots
  <2>2. batch'[k] <= saved[k] /\ \A v \in Workers : flight'[v][k] <= saved[k]
    BY <1>4, <1>5, <2>1 DEF FillBatch
  <2> QED
    BY <1>5, <2>2 DEF TypeOK, FillBatch, SavedOnly, Slots
<1>6. ASSUME NEW w \in Workers, ForceFlush(w) PROVE Goal
  <2>1. batch'[k] <= saved[k] /\ \A v \in Workers : flight'[v][k] <= saved[k]
    BY <1>4, <1>6 DEF ForceFlush, TypeOK, SavedOnly
  <2> QED
    BY <1>6, <2>1 DEF ForceFlush, SavedOnly
<1>7. ASSUME NEW w \in Workers, Return(w)
      PROVE  \A v \in Workers : flight'[v][k] <= saved[k]
  BY <1>7 DEF TypeOK, Return, SavedOnly, Nothing
<1>8. ASSUME NEW w \in Workers, Requeue(w) PROVE Goal
  BY <1>7, <1>8 DEF Requeue, Requeued, SavedOnly
<1>9. ASSUME NEW w \in Workers, WriteSucceeds(w) PROVE Goal
  BY <1>7, <1>9 DEF WriteSucceeds, Release, Upsert, MaxOf, SavedOnly
<1>10. ASSUME NEW w \in Workers, WriteFails(w) PROVE Goal
  BY <1>7, <1>10 DEF WriteFails, Release, MaxOf, SavedOnly
<1>11. ASSUME UNCHANGED <<saved, pending, batch, todo, flight, dbVars>> PROVE Goal
  BY <1>11 DEF SavedOnly
<1>12. CASE DispatchReady
  BY <1>2, <1>12 DEF DispatchReady, Workers, SavedOnly
<1>13. ASSUME NEW w \in Workers, FlushAll(w) PROVE Goal
  BY <1>2, <1>13 DEF FlushAll, SavedOnly
<1>14. ASSUME NEW w \in Workers,
              ForceNothing(w) \/ AcquireSlot(w) \/ WriteDeadlocks(w)
       PROVE Goal
  BY <1>11, <1>14 DEF ForceNothing, AcquireSlot, WriteDeadlocks
<1>15. ASSUME NEW t \in Timers, TimerFires(t) PROVE Goal
  BY <1>11, <1>15 DEF TimerFires
<1>16. CASE DispatchDone \/ Tick \/ Cancel \/ UNCHANGED vars
  BY <1>11, <1>16 DEF DispatchDone, Tick, Cancel, vars
<1> QED
  BY <1>1, <1>3, <1>5, <1>6, <1>8, <1>9, <1>10, <1>12, <1>13, <1>14, <1>15, <1>16
     DEF Next, Serve, Shutdown, Work, DispatchNothing

\* The shutdown does not end.
LEMMA CancelStays == [Next]_vars /\ cancelled => cancelled'
<1> SUFFICES ASSUME [Next]_vars, cancelled PROVE cancelled'
  OBVIOUS
<1>1. ASSUME NEW w \in Workers, NEW k \in Keys, AddToBatch(w, k) \/ FillBatch(w, k)
      PROVE cancelled'
  BY <1>1 DEF AddToBatch, FillBatch
<1>2. ASSUME NEW w \in Workers, ForceFlush(w) \/ ForceNothing(w) \/ AcquireSlot(w)
      PROVE cancelled'
  BY <1>2 DEF ForceFlush, ForceNothing, AcquireSlot
<1>3. ASSUME NEW w \in Workers, WriteSucceeds(w) \/ WriteDeadlocks(w) \/ WriteFails(w)
      PROVE cancelled'
  BY <1>3 DEF WriteSucceeds, WriteDeadlocks, WriteFails
<1>4. ASSUME NEW w \in Workers, FlushAll(w) \/ Requeue(w) PROVE cancelled'
  BY <1>4 DEF FlushAll, Requeue
<1>5. ASSUME NEW k \in Keys, NEW d \in Delays, Enqueue(k, d) PROVE cancelled'
  BY <1>5 DEF Enqueue
<1>6. ASSUME NEW t \in Timers, TimerFires(t) PROVE cancelled'
  BY <1>6 DEF TimerFires
<1>7. CASE DispatchReady \/ DispatchDone \/ Tick \/ Cancel \/ UNCHANGED vars
  BY <1>7 DEF DispatchReady, DispatchDone, Tick, Cancel, vars
<1> QED
  BY <1>1, <1>2, <1>3, <1>4, <1>5, <1>6, <1>7
     DEF Next, Serve, Shutdown, Work, DispatchNothing

\* In service only ProcessLoop has entries to add, and none while it is idle.
LEMMA OnlyLoopCarries ==
  ASSUME TypeOK, Control, ~cancelled, NEW k \in Keys
  PROVE  /\ \A w \in Workers : todo[w][k] # 0 => w = "loop" /\ task["loop"] = "dispatch"
         /\ \A w \in Workers : task[w] = "flush" => FALSE
<1>1. ASSUME NEW w \in Workers, w # "loop" PROVE task[w] \in {"idle", "fire", "force"}
  BY <1>1 DEF Control, Workers
<1>2. ASSUME NEW w \in Workers, task[w] \notin {"dispatch", "flush"} PROVE todo[w][k] = 0
  BY <1>2 DEF Control, Nothing
<1>3. task["loop"] \in {"idle", "dispatch"}
  BY DEF Control
<1> QED
  BY <1>1, <1>2, <1>3 DEF Workers

\* Who is outside flushBatchLocked has nothing in flight.
LEMMA NothingInFlight ==
  ASSUME Control, NEW w \in Workers, io[w] = "none", NEW k \in Keys
  PROVE  flight[w][k] = 0
  BY DEF Control, Nothing

\* The order of the entries of one key.
OrderOf(k) ==
    LET p == pending[k].data  t == todo["loop"][k]  b == batch[k] IN
    /\ p # 0 => t < p /\ b < p /\ Below(k, p)
    /\ t # 0 => b < t /\ Below(k, t)
    /\ b # 0 => Below(k, b)

LEMMA NextOrder ==
  TypeOK /\ Control /\ SavedOnly /\ PipelineOrder /\ [Next]_vars => PipelineOrder'
<1> SUFFICES ASSUME TypeOK, Control, SavedOnly, PipelineOrder, [Next]_vars, ~cancelled',
                    NEW k \in Keys
             PROVE  OrderOf(k)'
  BY DEF PipelineOrder, OrderOf
<1> USE NumberTypes DEF queueVars, workerVars, dbVars
<1>1. ~cancelled
  BY CancelStays
<1>2. OrderOf(k)
  BY <1>1 DEF PipelineOrder, OrderOf
<1>3. /\ \A w \in Workers : todo[w][k] # 0 => w = "loop"
      /\ \A w \in Workers : task[w] # "flush"
      /\ task["loop"] = "idle" => todo["loop"][k] = 0
      /\ "loop" \in Workers
  BY <1>1, OnlyLoopCarries DEF Workers
<1>4. ASSUME NEW j \in Keys, NEW d \in Delays, Enqueue(j, d) PROVE OrderOf(k)'
  <2>1. CASE k = j
    <3>1. pending'[k].data = saved[k] + 1
      BY <1>4, <2>1 DEF TypeOK, Enqueue, Squash, Entry
    <3>2. Below(k, saved[k] + 1)'
      BY <1>4 DEF Enqueue, Below, SavedOnly
    <3> QED
      BY <1>2, <1>3, <1>4, <3>1, <3>2 DEF Enqueue, OrderOf, Below, SavedOnly
  <2>2. CASE k # j
    BY <1>2, <1>4, <2>2 DEF TypeOK, Enqueue, OrderOf, Below
  <2> QED
    BY <2>1, <2>2
<1>5. CASE DispatchReady
  <2>1. \/ pending'[k].data = 0 /\ todo'["loop"][k] = pending[k].data
        \/ pending'[k].data = pending[k].data /\ todo'["loop"][k] = 0
    BY <1>3, <1>5 DEF TypeOK, DispatchReady, Take, NoEntry
  <2>2. todo["loop"][k] = 0
    BY <1>3, <1>5 DEF DispatchReady
  <2> QED
    BY <1>2, <1>3, <1>5, <2>1, <2>2 DEF DispatchReady, OrderOf, Below
<1>6. ASSUME NEW w \in Workers, NEW j \in Keys, AddToBatch(w, j) PROVE OrderOf(k)'
  <2>1. CASE k = j
    <3>1. w = "loop" /\ batch'[k] = todo["loop"][k] /\ todo'["loop"][k] = 0
      BY <1>3, <1>6, <2>1 DEF TypeOK, AddToBatch, Carrying, Added, Slots
    <3> QED
      BY <1>2, <1>6, <3>1 DEF AddToBatch, OrderOf, Below
  <2>2. CASE k # j
    <3>1. batch'[k] = batch[k] /\ todo'["loop"][k] = todo["loop"][k]
      BY <1>3, <1>6, <2>2 DEF TypeOK, AddToBatch, Added, Slots
    <3> QED
      BY <1>2, <1>6, <3>1 DEF AddToBatch, OrderOf, Below
  <2> QED
    BY <2>1, <2>2
<1>7. ASSUME NEW w \in Workers, NEW b \in Slots, SwapOut(w, b)
      PROVE  /\ batch'[k] = 0
             /\ \A v \in Workers : flight'[v][k] \in {flight[v][k], b[k]}
  BY <1>7 DEF TypeOK, SwapOut, Nothing
<1>8. ASSUME NEW w \in Workers, NEW j \in Keys, FillBatch(w, j) PROVE OrderOf(k)'
  <2>1. /\ batch'[k] = 0
        /\ \A v \in Workers : flight'[v][k] \in {flight[v][k], Added(w, j)[k]}
    BY <1>7, <1>8, AddedType DEF FillBatch
  <2>2. CASE k = j
    <3>1. w = "loop" /\ Added(w, j)[k] = todo["loop"][k] /\ todo'["loop"][k] = 0
      BY <1>3, <1>8, <2>2 DEF TypeOK, FillBatch, Carrying, Added, Slots
    <3> QED
      BY <1>2, <1>8, <2>1, <3>1 DEF FillBatch, OrderOf, Below
  <2>3. CASE k # j
    <3>1. Added(w, j)[k] = batch[k] /\ todo'["loop"][k] = todo["loop"][k]
      BY <1>3, <1>8, <2>3 DEF TypeOK, FillBatch, Added, Slots
    <3> QED
      BY <1>2, <1>3, <1>8, <2>1, <3>1 DEF FillBatch, OrderOf, Below
  <2> QED
    BY <2>2, <2>3
<1>9. ASSUME NEW w \in Workers, ForceFlush(w) PROVE OrderOf(k)'
  <2>1. /\ batch'[k] = 0
        /\ \A v \in Workers : flight'[v][k] \in {flight[v][k], batch[k]}
    BY <1>7, <1>9 DEF ForceFlush, TypeOK
  <2> QED
    BY <1>2, <1>3, <1>9, <2>1 DEF ForceFlush, OrderOf, Below
<1>10. ASSUME NEW w \in Workers, Return(w)
       PROVE  \A v \in Workers : flight'[v][k] \in {0, flight[v][k]}
  BY <1>10 DEF TypeOK, Return, Nothing
<1>11. ASSUME NEW w \in Workers, WriteSucceeds(w) PROVE OrderOf(k)'
  <2>1. landed'[k] \in {landed[k], flight[w][k]}
    BY <1>11 DEF WriteSucceeds, Upsert, MaxOf
  <2>2. \A v \in Workers : flight'[v][k] \in {0, flight[v][k]}
    BY <1>10, <1>11 DEF WriteSucceeds, Release
  <2> QED
    BY <1>2, <1>3, <1>11, <2>1, <2>2 DEF WriteSucceeds, OrderOf, Below
<1>12. ASSUME NEW w \in Workers, WriteFails(w) PROVE OrderOf(k)'
  <2>1. failed'[k] \in {failed[k], flight[w][k]}
    BY <1>12 DEF WriteFails, MaxOf
  <2>2. \A v \in Workers : flight'[v][k] \in {0, flight[v][k]}
    BY <1>10, <1>12 DEF WriteFails, Release
  <2> QED
    BY <1>2, <1>3, <1>12, <2>1, <2>2 DEF WriteFails, OrderOf, Below
<1>13. ASSUME UNCHANGED <<pending, batch, todo, flight, dbVars>> PROVE OrderOf(k)'
  BY <1>2, <1>13 DEF OrderOf, Below
<1>14. ASSUME NEW w \in Workers, ForceNothing(w) \/ AcquireSlot(w) \/ WriteDeadlocks(w)
       PROVE OrderOf(k)'
  BY <1>13, <1>14 DEF ForceNothing, AcquireSlot, WriteDeadlocks
<1>15. ASSUME NEW t \in Timers, TimerFires(t) PROVE OrderOf(k)'
  BY <1>13, <1>15 DEF TimerFires
<1>16. CASE DispatchDone \/ Tick \/ UNCHANGED vars
  BY <1>13, <1>16 DEF DispatchDone, Tick, vars
<1>17. ASSUME NEW w \in Workers PROVE ~FlushAll(w) /\ ~Requeue(w)
  BY <1>1 DEF FlushAll, Requeue, CtxDone
<1>18. ~Cancel
  BY DEF Cancel
<1> QED
  BY <1>4, <1>5, <1>6, <1>8, <1>9, <1>11, <1>12, <1>14, <1>15, <1>16, <1>17, <1>18
     DEF Next, Serve, Shutdown, Work, DispatchNothing

-----------------------------------------------------------------------------
(* The newest snapshot of every entity is kept.                            *)

\* Where the newest snapshot of k is.
Kept(k) ==
    \/ saved[k] \in {0, pending[k].data, batch[k], landed[k], failed[k]}
    \/ \E w \in Workers : saved[k] \in {todo[w][k], flight[w][k]}

LEMMA KeptIsKept ==
  ASSUME NEW k \in Keys
  PROVE  saved[k] \in Carried(k) \cup {0, landed[k], failed[k]} <=> Kept(k)
  BY DEF Carried, Kept

LEMMA NextNewest ==
  TypeOK /\ Control /\ SavedOnly /\ PipelineOrder /\ NewestIsKept /\ [Next]_vars
     => NewestIsKept'
<1> SUFFICES ASSUME TypeOK, Control, SavedOnly, PipelineOrder, NewestIsKept, [Next]_vars,
                    ~cancelled', NEW k \in Keys
             PROVE  Kept(k)'
  BY KeptIsKept DEF NewestIsKept, Carried, Kept
<1> USE NumberTypes DEF queueVars, workerVars, dbVars
<1>1. ~cancelled
  BY CancelStays
<1>2. Kept(k) /\ OrderOf(k)
  BY <1>1, KeptIsKept DEF NewestIsKept, PipelineOrder, OrderOf
<1>3. /\ \A w \in Workers : todo[w][k] # 0 => w = "loop"
      /\ \A w \in Workers : task[w] # "flush"
      /\ task["loop"] = "idle" => todo["loop"][k] = 0
      /\ "loop" \in Workers
  BY <1>1, OnlyLoopCarries DEF Workers
<1>4. ASSUME NEW j \in Keys, NEW d \in Delays, Enqueue(j, d) PROVE Kept(k)'
  <2>1. CASE k = j
    <3>1. pending'[k].data = saved[k] + 1 /\ saved'[k] = saved[k] + 1
      BY <1>4, <2>1 DEF TypeOK, Enqueue, Squash, Entry, Slots
    <3> QED
      BY <3>1 DEF Kept
  <2>2. CASE k # j
    <3>1. pending'[k] = pending[k] /\ saved'[k] = saved[k]
      BY <1>4, <2>2 DEF TypeOK, Enqueue, Slots
    <3> QED
      BY <1>2, <1>4, <3>1 DEF Enqueue, Kept
  <2> QED
    BY <2>1, <2>2
<1>5. CASE DispatchReady
  <2>1. todo["loop"][k] = 0
    BY <1>3, <1>5 DEF DispatchReady
  <2>2. /\ pending[k].data \in {pending'[k].data, todo'["loop"][k]}
        /\ \A w \in Workers : w # "loop" => todo'[w] = todo[w]
    BY <1>5 DEF TypeOK, DispatchReady, Take, Workers
  <2> QED
    BY <1>2, <1>3, <1>5, <2>1, <2>2 DEF DispatchReady, Kept
<1>6. ASSUME NEW w \in Workers, NEW j \in Keys, Carrying(w, j),
             todo' = [todo EXCEPT ![w][j] = 0]
      PROVE  /\ \A v \in Workers : todo[v][k] \in {0, todo'[v][k], Added(w, j)[k]}
             /\ saved[k] # 0 /\ saved[k] = batch[k] => saved[k] = Added(w, j)[k]
  <2>1. CASE k = j
    <3>1. w = "loop" /\ todo["loop"][k] # 0 /\ Added(w, j)[k] = todo["loop"][k]
      BY <1>3, <1>6, <2>1 DEF TypeOK, Carrying, Added, Slots
    <3>2. saved[k] # batch[k]
      BY <1>2, <3>1 DEF OrderOf, SavedOnly
    <3> QED
      BY <1>3, <1>6, <3>1, <3>2
  <2>2. CASE k # j
    BY <1>6, <2>2 DEF TypeOK, Added, Slots
  <2> QED
    BY <2>1, <2>2
<1>7. ASSUME NEW w \in Workers, NEW j \in Keys, AddToBatch(w, j) PROVE Kept(k)'
  <2>1. Carrying(w, j) /\ batch' = Added(w, j) /\ todo' = [todo EXCEPT ![w][j] = 0]
    BY <1>7 DEF AddToBatch
  <2>2. /\ \A v \in Workers : todo[v][k] \in {0, todo'[v][k], batch'[k]}
        /\ saved[k] # 0 /\ saved[k] = batch[k] => saved[k] = batch'[k]
    BY <1>6, <2>1
  <2>3. UNCHANGED <<saved, pending, flight, landed, failed>>
    BY <1>7 DEF AddToBatch
  <2> QED
    BY <1>2, <2>2, <2>3 DEF Kept
<1>8. ASSUME NEW w \in Workers, NEW b \in Slots, SwapOut(w, b), io[w] = "none"
      PROVE  /\ flight'[w][k] = b[k]
             /\ \A v \in Workers : flight[v][k] \in {0, flight'[v][k]}
  BY <1>8, NothingInFlight DEF TypeOK, SwapOut
<1>9. ASSUME NEW w \in Workers, NEW j \in Keys, FillBatch(w, j) PROVE Kept(k)'
  <2>1. /\ Carrying(w, j) /\ todo' = [todo EXCEPT ![w][j] = 0]
        /\ SwapOut(w, Added(w, j)) /\ io[w] = "none"
    BY <1>9 DEF FillBatch, Carrying
  <2>2. Added(w, j) \in Slots
    BY AddedType
  <2>3. /\ flight'[w][k] = Added(w, j)[k]
        /\ \A v \in Workers : flight[v][k] \in {0, flight'[v][k]}
    BY <1>8, <2>1, <2>2
  <2>4. /\ \A v \in Workers : todo[v][k] \in {0, todo'[v][k], flight'[w][k]}
        /\ saved[k] # 0 /\ saved[k] = batch[k] => saved[k] = flight'[w][k]
    BY <1>6, <2>1, <2>3
  <2>5. UNCHANGED <<saved, pending, landed, failed>>
    BY <1>9 DEF FillBatch
  <2> QED
    BY <1>2, <2>3, <2>4, <2>5 DEF Kept
<1>10. ASSUME NEW w \in Workers, ForceFlush(w) PROVE Kept(k)'
  <2>1. io[w] = "none" /\ SwapOut(w, batch) /\ batch \in Slots
    BY <1>10 DEF ForceFlush, Forcing, Control, TypeOK
  <2>2. /\ flight'[w][k] = batch[k]
        /\ \A v \in Workers : flight[v][k] \in {0, flight'[v][k]}
    BY <1>8, <2>1
  <2> QED
    BY <1>2, <1>10, <2>2 DEF ForceFlush, Kept
<1>11. ASSUME NEW w \in Workers, Return(w)
       PROVE  \A v \in Workers : v # w => flight'[v] = flight[v]
  BY <1>11 DEF TypeOK, Return
<1>12. ASSUME NEW w \in Workers, WriteSucceeds(w) PROVE Kept(k)'
  <2>1. /\ saved[k] = landed[k] => landed'[k] = saved[k]
        /\ saved[k] = flight[w][k] => landed'[k] = saved[k]
    BY <1>12 DEF WriteSucceeds, Upsert, MaxOf, SavedOnly
  <2>2. \A v \in Workers : v # w => flight'[v] = flight[v]
    BY <1>11, <1>12 DEF WriteSucceeds, Release
  <2> QED
    BY <1>2, <1>12, <2>1, <2>2 DEF WriteSucceeds, Kept
<1>13. ASSUME NEW w \in Workers, WriteFails(w) PROVE Kept(k)'
  <2>1. /\ saved[k] = failed[k] => failed'[k] = saved[k]
        /\ saved[k] = flight[w][k] => failed'[k] = saved[k]
    BY <1>13 DEF WriteFails, MaxOf, SavedOnly
  <2>2. \A v \in Workers : v # w => flight'[v] = flight[v]
    BY <1>11, <1>13 DEF WriteFails, Release
  <2> QED
    BY <1>2, <1>13, <2>1, <2>2 DEF WriteFails, Kept
<1>14. ASSUME UNCHANGED <<saved, pending, batch, todo, flight, dbVars>> PROVE Kept(k)'
  BY <1>2, <1>14 DEF Kept
<1>15. ASSUME NEW w \in Workers, ForceNothing(w) \/ AcquireSlot(w) \/ WriteDeadlocks(w)
       PROVE Kept(k)'
  BY <1>14, <1>15 DEF ForceNothing, AcquireSlot, WriteDeadlocks
<1>16. ASSUME NEW t \in Timers, TimerFires(t) PROVE Kept(k)'
  BY <1>14, <1>16 DEF TimerFires
<1>17. CASE DispatchDone \/ Tick \/ UNCHANGED vars
  BY <1>14, <1>17 DEF DispatchDone, Tick, vars
<1>18. ASSUME NEW w \in Workers PROVE ~FlushAll(w) /\ ~Requeue(w)
  BY <1>1 DEF FlushAll, Requeue, CtxDone
<1>19. ~Cancel
  BY DEF Cancel
<1> QED
  BY <1>4, <1>5, <1>7, <1>9, <1>10, <1>12, <1>13, <1>15, <1>16, <1>17, <1>18, <1>19
     DEF Next, Serve, Shutdown, Work, DispatchNothing

-----------------------------------------------------------------------------
(* No entity is forgotten altogether, not even by the shutdown.            *)

\* Some snapshot of k is somewhere.
SomeKept(k) ==
    \/ landed[k] # 0 \/ failed[k] # 0 \/ pending[k].data # 0 \/ batch[k] # 0
    \/ \E w \in Workers : todo[w][k] # 0 \/ flight[w][k] # 0

LEMMA SomeIsCarried == EntityIsKept <=> \A k \in Keys : saved[k] # 0 => SomeKept(k)
  BY DEF EntityIsKept, SomeKept, Carried

LEMMA NextEntity == TypeOK /\ Control /\ EntityIsKept /\ [Next]_vars => EntityIsKept'
<1> SUFFICES ASSUME TypeOK, Control, EntityIsKept, [Next]_vars, NEW k \in Keys, saved'[k] # 0
             PROVE  SomeKept(k)'
  BY DEF EntityIsKept, SomeKept, Carried
<1> USE NumberTypes DEF queueVars, workerVars, dbVars
<1>1. saved[k] # 0 => SomeKept(k)
  BY SomeIsCarried
<1>2. ASSUME NEW j \in Keys, NEW d \in Delays, Enqueue(j, d) PROVE SomeKept(k)'
  <2>1. CASE k = j
    <3>1. pending'[k].data = saved[k] + 1
      BY <1>2, <2>1 DEF TypeOK, Enqueue, Squash, Entry
    <3> QED
      BY <3>1 DEF SomeKept
  <2>2. CASE k # j
    <3>1. pending'[k] = pending[k] /\ saved'[k] = saved[k]
      BY <1>2, <2>2 DEF TypeOK, Enqueue, Slots
    <3> QED
      BY <1>1, <1>2, <3>1 DEF Enqueue, SomeKept
  <2> QED
    BY <2>1, <2>2
<1>3. ASSUME NEW w \in Workers, NEW K \in SUBSET Keys, task[w] = "idle", Take(w, K),
             UNCHANGED <<saved, batch, flight, dbVars>>
      PROVE  SomeKept(k)'
  <2>1. todo[w][k] = 0
    BY <1>3 DEF Control, Nothing
  <2>2. /\ pending[k].data \in {pending'[k].data, todo'[w][k]}
        /\ \A v \in Workers : v # w => todo'[v] = todo[v]
    BY <1>3 DEF TypeOK, Take
  <2> QED
    BY <1>1, <1>3, <2>1, <2>2 DEF SomeKept
<1>4. CASE DispatchReady
  BY <1>3, <1>4 DEF DispatchReady, Workers
<1>5. ASSUME NEW w \in Workers, FlushAll(w) PROVE SomeKept(k)'
  BY <1>3, <1>5 DEF FlushAll
<1>6. ASSUME NEW w \in Workers, NEW j \in Keys, Carrying(w, j),
             todo' = [todo EXCEPT ![w][j] = 0]
      PROVE  /\ \A v \in Workers : todo[v][k] # 0 => todo'[v][k] # 0 \/ Added(w, j)[k] # 0
             /\ batch[k] # 0 => Added(w, j)[k] # 0
  <2>1. CASE k = j
    <3>1. todo[w][k] # 0 /\ Added(w, j)[k] = todo[w][k]
      BY <1>6, <2>1 DEF TypeOK, Carrying, Added, Slots
    <3> QED
      BY <3>1
  <2>2. CASE k # j
    BY <1>6, <2>2 DEF TypeOK, Added, Slots
  <2> QED
    BY <2>1, <2>2
<1>7. ASSUME NEW w \in Workers, NEW j \in Keys, AddToBatch(w, j) PROVE SomeKept(k)'
  <2>1. Carrying(w, j) /\ batch' = Added(w, j) /\ todo' = [todo EXCEPT ![w][j] = 0]
    BY <1>7 DEF AddToBatch
  <2>2. /\ \A v \in Workers : todo[v][k] # 0 => todo'[v][k] # 0 \/ batch'[k] # 0
        /\ batch[k] # 0 => batch'[k] # 0
    BY <1>6, <2>1
  <2>3. UNCHANGED <<saved, pending, flight, landed, failed>>
    BY <1>7 DEF AddToBatch
  <2> QED
    BY <1>1, <2>2, <2>3 DEF SomeKept
<1>8. ASSUME NEW w \in Workers, NEW b \in Slots, SwapOut(w, b), io[w] = "none"
      PROVE  /\ flight'[w][k] = b[k]
             /\ \A v \in Workers : flight[v][k] # 0 => flight'[v][k] # 0
  BY <1>8, NothingInFlight DEF TypeOK, SwapOut
<1>9. ASSUME NEW w \in Workers, NEW j \in Keys, FillBatch(w, j) PROVE SomeKept(k)'
  <2>1. /\ Carrying(w, j) /\ todo' = [todo EXCEPT ![w][j] = 0]
        /\ SwapOut(w, Added(w, j)) /\ io[w] = "none"
    BY <1>9 DEF FillBatch, Carrying
  <2>2. Added(w, j) \in Slots
    BY AddedType
  <2>3. /\ flight'[w][k] = Added(w, j)[k]
        /\ \A v \in Workers : flight[v][k] # 0 => flight'[v][k] # 0
    BY <1>8, <2>1, <2>2
  <2>4. /\ \A v \in Workers : todo[v][k] # 0 => todo'[v][k] # 0 \/ flight'[w][k] # 0
        /\ batch[k] # 0 => flight'[w][k] # 0
    BY <1>6, <2>1, <2>3
  <2>5. UNCHANGED <<saved, pending, landed, failed>>
    BY <1>9 DEF FillBatch
  <2> QED
    BY <1>1, <2>3, <2>4, <2>5 DEF SomeKept
<1>10. ASSUME NEW w \in Workers, ForceFlush(w) PROVE SomeKept(k)'
  <2>1. io[w] = "none" /\ SwapOut(w, batch) /\ batch \in Slots
    BY <1>10 DEF ForceFlush, Forcing, Control, TypeOK
  <2>2. /\ flight'[w][k] = batch[k]
        /\ \A v \in Workers : flight[v][k] # 0 => flight'[v][k] # 0
    BY <1>8, <2>1
  <2> QED
    BY <1>1, <1>10, <2>2 DEF ForceFlush, SomeKept
<1>11. ASSUME NEW w \in Workers, Return(w)
       PROVE  \A v \in Workers : v # w => flight'[v] = flight[v]
  BY <1>11 DEF TypeOK, Return
<1>12. ASSUME NEW w \in Workers, Requeue(w) PROVE SomeKept(k)'
  <2>1. /\ batch[k] # 0 => batch'[k] # 0
        /\ flight[w][k] # 0 => batch'[k] # 0
    BY <1>12 DEF Requeue, Requeued
  <2>2. \A v \in Workers : v # w => flight'[v] = flight[v]
    BY <1>11, <1>12 DEF Requeue
  <2>3. UNCHANGED <<saved, pending, todo, landed, failed>>
    BY <1>12 DEF Requeue
  <2> QED
    BY <1>1, <2>1, <2>2, <2>3 DEF SomeKept
<1>13. ASSUME NEW w \in Workers, WriteSucceeds(w) PROVE SomeKept(k)'
  <2>1. landed[k] # 0 \/ flight[w][k] # 0 => landed'[k] # 0
    BY <1>13 DEF WriteSucceeds, Upsert, MaxOf
  <2>2. \A v \in Workers : v # w => flight'[v] = flight[v]
    BY <1>11, <1>13 DEF WriteSucceeds, Release
  <2> QED
    BY <1>1, <1>13, <2>1, <2>2 DEF WriteSucceeds, SomeKept
<1>14. ASSUME NEW w \in Workers, WriteFails(w) PROVE SomeKept(k)'
  <2>1. failed[k] # 0 \/ flight[w][k] # 0 => failed'[k] # 0
    BY <1>14 DEF WriteFails, MaxOf
  <2>2. \A v \in Workers : v # w => flight'[v] = flight[v]
    BY <1>11, <1>14 DEF WriteFails, Release
  <2> QED
    BY <1>1, <1>14, <2>1, <2>2 DEF WriteFails, SomeKept
<1>15. ASSUME UNCHANGED <<saved, pending, batch, todo, flight, dbVars>> PROVE SomeKept(k)'
  BY <1>1, <1>15 DEF SomeKept
<1>16. ASSUME NEW w \in Workers, ForceNothing(w) \/ AcquireSlot(w) \/ WriteDeadlocks(w)
       PROVE SomeKept(k)'
  BY <1>15, <1>16 DEF ForceNothing, AcquireSlot, WriteDeadlocks
<1>17. ASSUME NEW t \in Timers, TimerFires(t) PROVE SomeKept(k)'
  BY <1>15, <1>17 DEF TimerFires
<1>18. CASE DispatchDone \/ Tick \/ Cancel \/ UNCHANGED vars
  BY <1>15, <1>18 DEF DispatchDone, Tick, Cancel, vars
<1> QED
  BY <1>2, <1>4, <1>5, <1>7, <1>9, <1>10, <1>12, <1>13, <1>14, <1>16, <1>17, <1>18
     DEF Next, Serve, Shutdown, Work, DispatchNothing

-----------------------------------------------------------------------------
(* The two Flushes leave nothing in the batch.                             *)

\* ProcessLoop and main are past their last look at the batch: it is empty,
\* and nobody else puts anything into it.
Drained ==
    task["loop"] \in {"force", "stopped"} /\ task["main"] \in {"force", "flushed"}
      => batch = Nothing

LEMMA NextDrained == TypeOK /\ Control /\ Drained /\ [Next]_vars => Drained'
<1> SUFFICES ASSUME TypeOK, Control, Drained, [Next]_vars,
                    task'["loop"] \in {"force", "stopped"}, task'["main"] \in {"force", "flushed"}
             PROVE  batch' = Nothing
  BY DEF Drained
<1> USE DEF queueVars, workerVars, dbVars
<1>1. "loop" \in Workers /\ "main" \in Workers
  BY DEF Workers
<1>2. ASSUME NEW w \in Workers, task[w] \in {"dispatch", "flush"} PROVE w \in {"loop", "main"}
  BY <1>2 DEF Control, Workers
<1>3. ASSUME UNCHANGED <<batch, task>> PROVE batch' = Nothing
  BY <1>3 DEF Drained
<1>4. ASSUME NEW w \in Workers, NEW j \in Keys, AddToBatch(w, j) \/ FillBatch(w, j)
      PROVE batch' = Nothing
  <2>1. task' = task /\ task[w] \in {"dispatch", "flush"}
    BY <1>4 DEF AddToBatch, FillBatch, Carrying
  <2> QED
    BY <1>2, <2>1
<1>5. ASSUME NEW w \in Workers, ForceFlush(w) \/ ForceNothing(w) PROVE batch' = Nothing
  BY <1>5 DEF ForceFlush, ForceNothing, SwapOut
<1>6. ASSUME NEW w \in Workers, Return(w)
      PROVE  /\ task'["loop"] \in {"force", "stopped"} => task["loop"] \in {"force", "stopped"}
             /\ task'["main"] \in {"force", "flushed"} => task["main"] \in {"force", "flushed"}
             /\ task[w] = "dispatch" => task'[w] = "dispatch"
  BY <1>1, <1>6 DEF TypeOK, Return, Ended
<1>7. ASSUME NEW w \in Workers, Requeue(w) PROVE batch' = Nothing
  <2>1. task[w] = "dispatch" /\ Return(w)
    BY <1>7 DEF Requeue, CtxDone
  <2>2. task'[w] = "dispatch"
    BY <1>6, <2>1
  <2> QED
    BY <1>2, <2>1, <2>2
<1>8. ASSUME NEW w \in Workers, WriteSucceeds(w) \/ WriteFails(w) PROVE batch' = Nothing
  <2>1. Return(w) /\ batch' = batch
    BY <1>8 DEF WriteSucceeds, WriteFails, Release
  <2> QED
    BY <1>6, <2>1 DEF Drained
<1>9. ASSUME NEW w \in Workers, AcquireSlot(w) \/ WriteDeadlocks(w) PROVE batch' = Nothing
  BY <1>3, <1>9 DEF AcquireSlot, WriteDeadlocks
<1>10. ASSUME NEW k \in Keys, NEW d \in Delays, Enqueue(k, d) PROVE batch' = Nothing
  BY <1>3, <1>10 DEF Enqueue
<1>11. ASSUME NEW t \in Timers, TimerFires(t) PROVE batch' = Nothing
  <2>1. t \notin {"loop", "main"} /\ batch' = batch /\ t \in Workers
    BY <1>11, TimersAssumption DEF TimerFires, Workers
  <2>2. task'["loop"] = task["loop"] /\ task'["main"] = task["main"]
    BY <1>11, <2>1 DEF TypeOK, TimerFires
  <2> QED
    BY <2>1, <2>2 DEF Drained
<1>12. ASSUME NEW w \in Workers, FlushAll(w) PROVE batch' = Nothing
  BY <1>12 DEF TypeOK, FlushAll
<1>13. CASE DispatchReady \/ DispatchDone
  BY <1>1, <1>13 DEF TypeOK, DispatchReady, DispatchDone
<1>14. CASE Tick \/ Cancel \/ UNCHANGED vars
  BY <1>3, <1>14 DEF Tick, Cancel, vars
<1> QED
  BY <1>4, <1>5, <1>7, <1>8, <1>9, <1>10, <1>11, <1>12, <1>13, <1>14
     DEF Next, Serve, Shutdown, Work, DispatchNothing

-----------------------------------------------------------------------------
(* The queue implements the store, until the shutdown begins.              *)

\* No snapshot is in flight twice.
FlightsDiffer ==
    ~cancelled => \A k \in Keys : \A v, w \in Workers :
        v # w /\ flight[v][k] # 0 => flight[v][k] # flight[w][k]

\* A batch that is swapped out is newer than all that is in flight.
LEMMA SwapOutDiffers ==
  ASSUME TypeOK, NEW w \in Workers, NEW b \in Slots, SwapOut(w, b), NEW k \in Keys,
         b[k] # 0 => \A v \in Workers : flight[v][k] < b[k],
         \A u, v \in Workers : u # v /\ flight[u][k] # 0 => flight[u][k] # flight[v][k]
  PROVE  \A u, v \in Workers : u # v /\ flight'[u][k] # 0 => flight'[u][k] # flight'[v][k]
<1>1. \A v \in Workers : flight'[v] = IF v = w THEN b ELSE flight[v]
  BY DEF TypeOK, SwapOut
<1>2. \A v \in Workers : flight[v][k] \in Nat
  BY NumberTypes
<1>3. b[k] \in Nat
  BY NumbersAssumption DEF Slots, Versions
<1> QED
  BY <1>1, <1>2, <1>3

\* What an entry adds to the batch is newer than all that is in flight.
LEMMA AddedBelow ==
  ASSUME TypeOK, Control, PipelineOrder, ~cancelled,
         NEW w \in Workers, NEW j \in Keys, NEW k \in Keys, Carrying(w, j)
  PROVE  /\ w = "loop"
         /\ Added(w, j)[k] = IF k = j THEN todo["loop"][k] ELSE batch[k]
         /\ Added(w, j)[k] # 0 => \A v \in Workers : flight[v][k] < Added(w, j)[k]
<1>1. w = "loop"
  BY OnlyLoopCarries DEF Carrying
<1>2. Added(w, j)[k] = IF k = j THEN todo["loop"][k] ELSE batch[k]
  BY <1>1 DEF TypeOK, Added, Slots
<1> QED
  BY <1>1, <1>2 DEF PipelineOrder, Below

LEMMA NextFlights ==
  TypeOK /\ Control /\ PipelineOrder /\ FlightsDiffer /\ [Next]_vars => FlightsDiffer'
<1> DEFINE Differ(k) == \A v, w \in Workers :
                          v # w /\ flight[v][k] # 0 => flight[v][k] # flight[w][k]
<1> SUFFICES ASSUME TypeOK, Control, PipelineOrder, FlightsDiffer, [Next]_vars, ~cancelled',
                    NEW k \in Keys
             PROVE  Differ(k)'
  BY DEF FlightsDiffer
<1> USE DEF queueVars, workerVars, dbVars
<1>1. ~cancelled
  BY CancelStays
<1>2. Differ(k) /\ (batch[k] # 0 => \A v \in Workers : flight[v][k] < batch[k])
  BY <1>1 DEF FlightsDiffer, PipelineOrder, Below
<1>3. ASSUME NEW w \in Workers, NEW j \in Keys, FillBatch(w, j) PROVE Differ(k)'
  <2>1. Carrying(w, j) /\ SwapOut(w, Added(w, j))
    BY <1>3 DEF FillBatch, Carrying
  <2>2. Added(w, j)[k] # 0 => \A v \in Workers : flight[v][k] < Added(w, j)[k]
    BY <1>1, <2>1, AddedBelow
  <2>3. Added(w, j) \in Slots
    BY AddedType
  <2> QED
    BY <1>2, <2>1, <2>2, <2>3, SwapOutDiffers
<1>4. ASSUME NEW w \in Workers, ForceFlush(w) PROVE Differ(k)'
  <2>1. SwapOut(w, batch) /\ batch \in Slots
    BY <1>4 DEF ForceFlush, TypeOK
  <2> QED
    BY <1>2, <2>1, SwapOutDiffers
<1>5. ASSUME NEW w \in Workers, Return(w) PROVE Differ(k)'
  <2>1. \A v \in Workers : flight'[v][k] = IF v = w THEN 0 ELSE flight[v][k]
    BY <1>5 DEF TypeOK, Return, Nothing
  <2> QED
    BY <1>2, <2>1
<1>6. ASSUME NEW w \in Workers, WriteSucceeds(w) \/ WriteFails(w) PROVE Differ(k)'
  BY <1>5, <1>6 DEF WriteSucceeds, WriteFails, Release
<1>7. ASSUME UNCHANGED flight PROVE Differ(k)'
  BY <1>2, <1>7
<1>8. ASSUME NEW w \in Workers, NEW j \in Keys, AddToBatch(w, j) PROVE Differ(k)'
  BY <1>7, <1>8 DEF AddToBatch
<1>9. ASSUME NEW w \in Workers, ForceNothing(w) \/ AcquireSlot(w) \/ WriteDeadlocks(w)
      PROVE Differ(k)'
  BY <1>7, <1>9 DEF ForceNothing, AcquireSlot, WriteDeadlocks
<1>10. ASSUME NEW j \in Keys, NEW d \in Delays, Enqueue(j, d) PROVE Differ(k)'
  BY <1>7, <1>10 DEF Enqueue
<1>11. ASSUME NEW t \in Timers, TimerFires(t) PROVE Differ(k)'
  BY <1>7, <1>11 DEF TimerFires
<1>12. CASE DispatchReady \/ DispatchDone \/ Tick \/ UNCHANGED vars
  BY <1>7, <1>12 DEF DispatchReady, DispatchDone, Tick, vars
<1>13. ASSUME NEW w \in Workers PROVE ~FlushAll(w) /\ ~Requeue(w)
  BY <1>1 DEF FlushAll, Requeue, CtxDone
<1>14. ~Cancel
  BY DEF Cancel
<1> QED
  BY <1>3, <1>4, <1>6, <1>8, <1>9, <1>10, <1>11, <1>12, <1>13, <1>14
     DEF Next, Serve, Shutdown, Work, DispatchNothing

\* Where a snapshot that is carried may be, before and after a step.
At(k, n) ==
    /\ n # 0
    /\ \/ n = pending[k].data \/ n = batch[k]
       \/ \E w \in Workers : n = todo[w][k] \/ n = flight[w][k]

LEMMA CarriedAt == ASSUME NEW k \in Keys PROVE \A n : n \in Carried(k) <=> At(k, n)
  BY DEF Carried, At

LEMMA CarriedAtNext == ASSUME NEW k \in Keys PROVE \A n : n \in Carried(k)' <=> At(k, n)'
  BY DEF Carried, At

\* Before the shutdown a snapshot is at one place only: what is at one place is
\* at no other.
LEMMA OnePlace ==
  ASSUME TypeOK, Control, PipelineOrder, FlightsDiffer, ~cancelled, NEW k \in Keys
  PROVE  /\ pending[k].data # 0 =>
              /\ pending[k].data # batch[k]
              /\ \A w \in Workers : pending[k].data \notin {todo[w][k], flight[w][k]}
         /\ batch[k] # 0 => \A w \in Workers : batch[k] \notin {todo[w][k], flight[w][k]}
         /\ \A v, w \in Workers : flight[v][k] # 0 =>
              /\ flight[v][k] \notin {pending[k].data, batch[k], todo[w][k]}
              /\ v # w => flight[v][k] # flight[w][k]
<1> USE NumberTypes
<1>1. /\ OrderOf(k) /\ \A w \in Workers : todo[w][k] # 0 => w = "loop"
      /\ "loop" \in Workers
  BY OnlyLoopCarries DEF PipelineOrder, OrderOf, Workers
<1>2. \A w \in Workers : todo[w][k] \in {0, todo["loop"][k]}
  BY <1>1
<1>3. \A v, w \in Workers : v # w /\ flight[v][k] # 0 => flight[v][k] # flight[w][k]
  BY DEF FlightsDiffer
<1>4. \A v \in Workers : flight[v][k] # 0 =>
        flight[v][k] \notin {pending[k].data, batch[k], todo["loop"][k]}
  BY <1>1 DEF OrderOf, Below
<1> QED
  BY <1>1, <1>2, <1>3, <1>4 DEF OrderOf, Below

\* The steps of the store, in terms of what the queue carries.
LEMMA StoreStutters ==
  ASSUME \A k \in Keys : Carried(k)' = Carried(k), UNCHANGED <<saved, row, landed, failed>>
  PROVE  UNCHANGED Store!vars
<1>1. [k \in Keys |-> Carried(k)'] = [k \in Keys |-> Carried(k)]
  OBVIOUS
<1> QED
  BY <1>1 DEF Store!vars

LEMMA StoreSaves ==
  ASSUME NEW j \in Keys, NEW old \in {{}} \cup {{v} : v \in Carried(j)},
         saved[j] < MaxWrites, saved' = [saved EXCEPT ![j] = @ + 1],
         Carried(j)' = (Carried(j) \ old) \cup {saved[j] + 1},
         \A k \in Keys \ {j} : Carried(k)' = Carried(k),
         UNCHANGED <<row, landed, failed>>
  PROVE  Store!Save(j)
<1> DEFINE held == [k \in Keys |-> Carried(k)]
<1>1. [k \in Keys |-> Carried(k)'] =
        [held EXCEPT ![j] = (held[j] \ old) \cup {saved[j] + 1}]
  OBVIOUS
<1>2. old \in {{}} \cup {{v} : v \in held[j]}
  OBVIOUS
<1> QED
  BY <1>1, <1>2 DEF Store!Save

LEMMA StoreMerges ==
  ASSUME NEW j \in Keys, NEW old \in Carried(j), NEW new \in Carried(j), old < new,
         Carried(j)' = Carried(j) \ {old},
         \A k \in Keys \ {j} : Carried(k)' = Carried(k),
         UNCHANGED <<saved, row, landed, failed>>
  PROVE  Store!Merge(j)
<1> DEFINE held == [k \in Keys |-> Carried(k)]
<1>1. [k \in Keys |-> Carried(k)'] = [held EXCEPT ![j] = held[j] \ {old}]
  OBVIOUS
<1>2. old \in held[j] /\ new \in held[j]
  OBVIOUS
<1> QED
  BY <1>1, <1>2 DEF Store!Merge

LEMMA StoreTakes ==
  ASSUME NEW b \in Slots, \A k \in Keys : b[k] # 0 => b[k] \in Carried(k),
         \A k \in Keys : Carried(k)' = Carried(k) \ {b[k]}, saved' = saved
  PROVE  /\ /\ row' = [k \in Keys |-> IF b[k] # 0 THEN b[k] ELSE row[k]]
            /\ landed' = [k \in Keys |-> MaxOf(landed[k], b[k])]
            /\ failed' = failed
            => Store!Write(b)
         /\ /\ failed' = [k \in Keys |-> MaxOf(failed[k], b[k])]
            /\ UNCHANGED <<row, landed>>
            => Store!Fail(b)
<1> DEFINE held == [k \in Keys |-> Carried(k)]
<1>1. [k \in Keys |-> Carried(k)'] = [k \in Keys |-> held[k] \ {b[k]}]
  OBVIOUS
<1>2. \A k \in Keys : b[k] # 0 => b[k] \in held[k]
  OBVIOUS
<1> QED
  BY <1>1, <1>2 DEF Store!Write, Store!Fail, Store!Batch, Store!Without, Store!Newest, MaxOf

LEMMA InitStore == Init => Store!Init
<1> SUFFICES ASSUME Init PROVE Store!Init
  OBVIOUS
<1>1. \A k \in Keys : Carried(k) = {}
  BY DEF Init, Carried, Nothing, NoEntry
<1> QED
  BY <1>1 DEF Init, Store!Init, Nothing

\* Each step of the queue is one of the store, or changes nothing in it.
LEMMA NextStore ==
  ASSUME TypeOK, Control, SavedOnly, PipelineOrder, FlightsDiffer, [Next]_vars, ~cancelled'
  PROVE  [Store!Next]_(Store!vars)
<1> USE DEF queueVars, workerVars, dbVars
<1>1. ~cancelled
  BY CancelStays
<1>2. \A k \in Keys : /\ \A n : n \in Carried(k) <=> At(k, n)
                      /\ \A n : n \in Carried(k)' <=> At(k, n)'
  BY CarriedAt, CarriedAtNext
<1>3. ASSUME NEW k \in Keys, \A n : At(k, n)' <=> At(k, n) PROVE Carried(k)' = Carried(k)
  BY <1>2, <1>3
<1>4. ASSUME NEW j \in Keys, NEW d \in Delays, Enqueue(j, d) PROVE Store!Save(j)
  <2> DEFINE p == pending[j].data
             old == IF p = 0 THEN {} ELSE {p}
  <2>1. \A k \in Keys \ {j} : Carried(k)' = Carried(k)
    <3> SUFFICES ASSUME NEW k \in Keys \ {j}, NEW n PROVE At(k, n)' <=> At(k, n)
      BY <1>3
    <3>1. pending'[k] = pending[k] /\ UNCHANGED <<batch, todo, flight>>
      BY <1>4 DEF TypeOK, Enqueue
    <3> QED
      BY <3>1 DEF At
  <2>2. saved[j] + 1 # 0 /\ saved[j] < MaxWrites
    BY <1>4, NumberTypes DEF Enqueue
  <2>3. pending'[j].data = saved[j] + 1
    BY <1>4 DEF TypeOK, Enqueue, Squash, Entry
  <2>4. Carried(j)' = (Carried(j) \ old) \cup {saved[j] + 1}
    <3>1. p # 0 => p # batch[j] /\ \A w \in Workers : p \notin {todo[w][j], flight[w][j]}
      BY <1>1, OnePlace
    <3>2. ASSUME NEW n
          PROVE  At(j, n)' <=> (At(j, n) /\ n \notin old) \/ n = saved[j] + 1
      <4>1. UNCHANGED <<batch, todo, flight>>
        BY <1>4 DEF Enqueue
      <4> QED
        BY <2>2, <2>3, <3>1, <4>1 DEF At
    <3> QED
      BY <1>2, <3>2
  <2>5. old \in {{}} \cup {{v} : v \in Carried(j)}
    <3>1. p # 0 => p \in Carried(j)
      BY <1>2 DEF At
    <3> QED
      BY <3>1
  <2>6. saved' = [saved EXCEPT ![j] = @ + 1] /\ UNCHANGED <<row, landed, failed>>
    BY <1>4 DEF Enqueue
  <2> QED
    BY <2>1, <2>2, <2>4, <2>5, <2>6, StoreSaves
<1>5. ASSUME \A k \in Keys : \A n : At(k, n)' <=> At(k, n), UNCHANGED <<saved, row, landed, failed>>
      PROVE  UNCHANGED Store!vars
  BY <1>3, <1>5, StoreStutters
<1>6. CASE DispatchReady
  <2> SUFFICES ASSUME NEW k \in Keys, NEW n PROVE At(k, n)' <=> At(k, n)
    BY <1>5, <1>6 DEF DispatchReady
  <2>1. "loop" \in Workers /\ todo["loop"][k] = 0
    BY <1>6 DEF DispatchReady, Control, Workers, Nothing
  <2>2. /\ \/ pending'[k].data = 0 /\ todo'["loop"][k] = pending[k].data
           \/ pending'[k].data = pending[k].data /\ todo'["loop"][k] = 0
        /\ \A w \in Workers : w # "loop" => todo'[w] = todo[w]
    BY <1>6, <2>1 DEF TypeOK, DispatchReady, Take, NoEntry
  <2> QED
    BY <1>6, <2>1, <2>2 DEF DispatchReady, At
<1>7. ASSUME NEW j \in Keys, todo["loop"][j] # 0, UNCHANGED <<saved, row, landed, failed>>,
             \A k \in Keys : \A n :
               At(k, n)' <=> At(k, n) /\ ~(k = j /\ n = batch[j])
      PROVE  [Store!Next]_(Store!vars)
  <2>1. \A k \in Keys \ {j} : Carried(k)' = Carried(k)
    BY <1>3, <1>7
  <2>2. Carried(j)' = Carried(j) \ {batch[j]}
    BY <1>2, <1>7
  <2>3. CASE batch[j] = 0
    <3>1. 0 \notin Carried(j)
      BY <1>2 DEF At
    <3>2. \A k \in Keys : Carried(k)' = Carried(k)
      BY <2>1, <2>2, <2>3, <3>1
    <3> QED
      BY <1>7, <3>2, StoreStutters
  <2>4. CASE batch[j] # 0
    <3>1. batch[j] < todo["loop"][j]
      BY <1>1, <1>7 DEF PipelineOrder
    <3>2. batch[j] \in Carried(j) /\ todo["loop"][j] \in Carried(j)
      BY <1>2, <1>7, <2>4 DEF At, Workers
    <3>3. Store!Merge(j)
      BY <1>7, <2>1, <2>2, <3>1, <3>2, StoreMerges
    <3> QED
      BY <3>3 DEF Store!Next
  <2> QED
    BY <2>3, <2>4
<1>8. ASSUME NEW w \in Workers, NEW j \in Keys, Carrying(w, j),
             todo' = [todo EXCEPT ![w][j] = 0]
      PROVE  /\ w = "loop" /\ todo["loop"][j] # 0
             /\ \A k \in Keys : /\ Added(w, j)[k] = IF k = j THEN todo["loop"][k] ELSE batch[k]
                                /\ todo'["loop"][k] = IF k = j THEN 0 ELSE todo["loop"][k]
             /\ \A v \in Workers : v # "loop" => todo'[v] = todo[v]
  <2>1. w = "loop" /\ todo[w][j] # 0
    BY <1>1, <1>8, AddedBelow DEF Carrying
  <2> QED
    BY <1>1, <1>8, <2>1, AddedBelow DEF TypeOK, Slots
<1>9. ASSUME NEW w \in Workers, NEW j \in Keys, AddToBatch(w, j)
      PROVE  [Store!Next]_(Store!vars)
  <2>1. /\ Carrying(w, j) /\ todo' = [todo EXCEPT ![w][j] = 0] /\ batch' = Added(w, j)
        /\ UNCHANGED <<saved, pending, flight, row, landed, failed>>
    BY <1>9 DEF AddToBatch
  <2>2. ASSUME NEW k \in Keys, NEW n
        PROVE  At(k, n)' <=> At(k, n) /\ ~(k = j /\ n = batch[j])
    <3>1. /\ "loop" \in Workers /\ todo["loop"][j] # 0
          /\ batch'[k] = IF k = j THEN todo["loop"][k] ELSE batch[k]
          /\ todo'["loop"][k] = IF k = j THEN 0 ELSE todo["loop"][k]
          /\ \A v \in Workers : v # "loop" => todo'[v] = todo[v]
      BY <1>8, <2>1
    <3>2. /\ pending[k].data # 0 => pending[k].data # batch[k]
          /\ batch[k] # 0 => \A v \in Workers : batch[k] \notin {todo[v][k], flight[v][k]}
      BY <1>1, OnePlace
    <3>3. CASE k = j
      BY <2>1, <3>1, <3>2, <3>3 DEF At
    <3>4. CASE k # j
      BY <2>1, <3>1, <3>4 DEF At
    <3> QED
      BY <3>3, <3>4
  <2> QED
    BY <1>7, <1>8, <2>1, <2>2
<1>10. ASSUME NEW w \in Workers, NEW b \in Slots, SwapOut(w, b), io[w] = "none", NEW k \in Keys
       PROVE  /\ flight[w][k] = 0 /\ flight'[w][k] = b[k] /\ batch'[k] = 0
              /\ \A v \in Workers : v # w => flight'[v] = flight[v]
  BY <1>10, NothingInFlight DEF TypeOK, SwapOut, Nothing
<1>11. ASSUME NEW w \in Workers, NEW j \in Keys, FillBatch(w, j)
       PROVE  [Store!Next]_(Store!vars)
  <2>1. /\ Carrying(w, j) /\ todo' = [todo EXCEPT ![w][j] = 0] /\ io[w] = "none"
        /\ SwapOut(w, Added(w, j)) /\ Added(w, j) \in Slots
        /\ UNCHANGED <<saved, pending, row, landed, failed>>
    BY <1>11, AddedType DEF FillBatch, Carrying
  <2>2. ASSUME NEW k \in Keys, NEW n
        PROVE  At(k, n)' <=> At(k, n) /\ ~(k = j /\ n = batch[j])
    <3>1. /\ flight[w][k] = 0 /\ flight'[w][k] = Added(w, j)[k] /\ batch'[k] = 0
          /\ \A v \in Workers : v # w => flight'[v] = flight[v]
      BY <1>10, <2>1
    <3>2. /\ w = "loop" /\ todo["loop"][j] # 0
          /\ Added(w, j)[k] = IF k = j THEN todo["loop"][k] ELSE batch[k]
          /\ todo'["loop"][k] = IF k = j THEN 0 ELSE todo["loop"][k]
          /\ \A v \in Workers : v # "loop" => todo'[v] = todo[v]
      BY <1>8, <2>1
    <3>3. /\ pending[k].data # 0 => pending[k].data # batch[k]
          /\ batch[k] # 0 => \A v \in Workers : batch[k] \notin {todo[v][k], flight[v][k]}
      BY <1>1, OnePlace
    <3>4. CASE k = j
      BY <2>1, <3>1, <3>2, <3>3, <3>4 DEF At
    <3>5. CASE k # j
      BY <2>1, <3>1, <3>2, <3>5 DEF At
    <3> QED
      BY <3>4, <3>5
  <2> QED
    BY <1>7, <1>8, <2>1, <2>2
<1>12. ASSUME NEW w \in Workers, ForceFlush(w) PROVE UNCHANGED Store!vars
  <2>1. io[w] = "none" /\ SwapOut(w, batch) /\ batch \in Slots
    BY <1>12 DEF ForceFlush, Forcing, Control, TypeOK
  <2>2. ASSUME NEW k \in Keys, NEW n PROVE At(k, n)' <=> At(k, n)
    <3>1. /\ flight[w][k] = 0 /\ flight'[w][k] = batch[k] /\ batch'[k] = 0
          /\ \A v \in Workers : v # w => flight'[v] = flight[v]
      BY <1>10, <2>1
    <3> QED
      BY <1>12, <3>1 DEF ForceFlush, At
  <2> QED
    BY <1>5, <1>12, <2>2 DEF ForceFlush
<1>13. ASSUME NEW w \in Workers, Return(w), UNCHANGED <<pending, batch, todo>>
       PROVE  /\ flight[w] \in Slots
              /\ \A k \in Keys : flight[w][k] # 0 => flight[w][k] \in Carried(k)
              /\ \A k \in Keys : Carried(k)' = Carried(k) \ {flight[w][k]}
  <2>1. flight[w] \in Slots
    BY DEF TypeOK
  <2>2. ASSUME NEW k \in Keys, NEW n
        PROVE  At(k, n)' <=> At(k, n) /\ n # flight[w][k]
    <3>1. \A v \in Workers : flight'[v][k] = IF v = w THEN 0 ELSE flight[v][k]
      BY <1>13 DEF TypeOK, Return, Nothing
    <3> QED
      BY <1>1, <1>13, <3>1, OnePlace DEF At
  <2>3. \A k \in Keys : Carried(k)' = Carried(k) \ {flight[w][k]}
    BY <1>2, <2>2
  <2>4. \A k \in Keys : flight[w][k] # 0 => At(k, flight[w][k])
    BY DEF At
  <2> QED
    BY <1>2, <2>1, <2>3, <2>4
<1>14. ASSUME NEW w \in Workers, WriteSucceeds(w) PROVE Store!Write(flight[w])
  <2>1. /\ flight[w] \in Slots
        /\ \A k \in Keys : flight[w][k] # 0 => flight[w][k] \in Carried(k)
        /\ \A k \in Keys : Carried(k)' = Carried(k) \ {flight[w][k]}
    BY <1>13, <1>14 DEF WriteSucceeds, Release
  <2> QED
    BY <1>14, <2>1, StoreTakes DEF WriteSucceeds, Upsert
<1>15. ASSUME NEW w \in Workers, WriteFails(w) PROVE Store!Fail(flight[w])
  <2>1. /\ flight[w] \in Slots
        /\ \A k \in Keys : flight[w][k] # 0 => flight[w][k] \in Carried(k)
        /\ \A k \in Keys : Carried(k)' = Carried(k) \ {flight[w][k]}
    BY <1>13, <1>15 DEF WriteFails, Release
  <2> QED
    BY <1>15, <2>1, StoreTakes DEF WriteFails
<1>16. ASSUME UNCHANGED <<saved, pending, batch, todo, flight, dbVars>>
       PROVE  UNCHANGED Store!vars
  BY <1>5, <1>16 DEF At
<1>17. ASSUME NEW w \in Workers, ForceNothing(w) \/ AcquireSlot(w) \/ WriteDeadlocks(w)
       PROVE UNCHANGED Store!vars
  BY <1>16, <1>17 DEF ForceNothing, AcquireSlot, WriteDeadlocks
<1>18. ASSUME NEW t \in Timers, TimerFires(t) PROVE UNCHANGED Store!vars
  BY <1>16, <1>18 DEF TimerFires
<1>19. CASE DispatchDone \/ Tick \/ UNCHANGED vars
  BY <1>16, <1>19 DEF DispatchDone, Tick, vars
<1>20. ASSUME NEW w \in Workers PROVE ~FlushAll(w) /\ ~Requeue(w)
  BY <1>1 DEF FlushAll, Requeue, CtxDone
<1>21. ~Cancel
  BY DEF Cancel
<1>22. \A w \in Workers : flight[w] \in [Keys -> 0 .. MaxWrites]
  BY DEF TypeOK, Slots, Versions
<1>23. ASSUME \E w \in Workers : WriteSucceeds(w) \/ WriteFails(w) PROVE Store!Next
  BY <1>14, <1>15, <1>22, <1>23 DEF Store!Next
<1>24. ASSUME \E j \in Keys, d \in Delays : Enqueue(j, d) PROVE Store!Next
  BY <1>4, <1>24 DEF Store!Next
<1> QED
  BY <1>6, <1>9, <1>11, <1>12, <1>17, <1>18, <1>19, <1>20, <1>21, <1>23, <1>24
     DEF Next, Serve, Shutdown, Work, DispatchNothing

-----------------------------------------------------------------------------
(* Delays.                                                                 *)

LEMMA InitTime == Init => RipensInTime
  BY DEF Init, RipensInTime, NoEntry

LEMMA EntryTypes ==
  ASSUME TypeOK, NEW k \in Keys
  PROVE  /\ now \in Nat /\ pending[k].readyAt \in Nat
         /\ pending[k].delay \in Nat /\ pending[k].data \in Nat
<1>1. pending[k] \in [data : Versions, readyAt : 0 .. MaxTime, delay : Delays \cup {0}]
  BY DEF TypeOK, Entry
<1>2. pending[k].readyAt \in 0 .. MaxTime /\ pending[k].data \in 0 .. MaxWrites
  BY <1>1 DEF Versions
<1>3. pending[k].delay \in Nat
  <2>1. pending[k].delay \in Delays \cup {0}
    BY <1>1
  <2>2. Delays \subseteq Nat /\ 0 \in Nat
    BY NumbersAssumption
  <2> QED
    BY <2>1, <2>2
<1>4. now \in Nat
  BY NumbersAssumption DEF TypeOK
<1>5. pending[k].readyAt \in Nat /\ pending[k].data \in Nat
  BY <1>2, NumbersAssumption
<1> QED
  BY <1>3, <1>4, <1>5

\* What a save does to the entry of its own entity.
LEMMA SquashIsPrompt ==
  ASSUME TypeOK, RipensInTime, NEW k \in Keys, NEW d \in Delays, Enqueue(k, d)
  PROVE  /\ pending'[k].readyAt <= now + d
         /\ pending'[k].readyAt <= now + pending'[k].delay
         /\ pending[k].data # 0 => pending'[k].readyAt <= pending[k].readyAt
<1>1. pending'[k] = Squash(pending[k], saved[k] + 1, d)
  BY DEF TypeOK, Enqueue
<1>2. d \in Nat
  BY NumbersAssumption
<1>3. pending[k] \in [data : Versions, readyAt : 0 .. MaxTime, delay : Delays \cup {0}]
  BY DEF TypeOK, Entry
<1>4. CASE pending[k].data = 0
  BY <1>1, <1>2, <1>4, EntryTypes DEF Squash
<1>5. CASE pending[k].data # 0 /\ d < pending[k].delay
  <2>1. /\ pending'[k].readyAt \in {now + d, pending[k].readyAt}
        /\ pending'[k].readyAt <= now + d /\ pending'[k].readyAt <= pending[k].readyAt
        /\ pending'[k].delay = d
    BY <1>1, <1>2, <1>5, EntryTypes DEF Squash
  <2> QED
    BY <2>1
<1>6. CASE pending[k].data # 0 /\ ~(d < pending[k].delay)
  <2>1. /\ pending'[k].readyAt = pending[k].readyAt
        /\ pending'[k].delay = pending[k].delay
    BY <1>1, <1>3, <1>6 DEF Squash
  <2> QED
    BY <1>2, <1>6, <2>1, EntryTypes DEF RipensInTime
<1> QED
  BY <1>4, <1>5, <1>6

LEMMA NextTime == TypeOK /\ RipensInTime /\ [Next]_vars => RipensInTime'
<1> SUFFICES ASSUME TypeOK, RipensInTime, [Next]_vars, NEW k \in Keys, pending'[k].data # 0
             PROVE  pending'[k].readyAt <= now' + pending'[k].delay
  BY DEF RipensInTime
<1> DEFINE Goal == pending'[k].readyAt <= now' + pending'[k].delay
<1> USE EntryTypes DEF queueVars, workerVars, dbVars
<1>1. ASSUME NEW j \in Keys, NEW d \in Delays, Enqueue(j, d) PROVE Goal
  <2>1. CASE j = k
    BY <1>1, <2>1, SquashIsPrompt DEF Enqueue
  <2>2. CASE j # k
    BY <1>1, <2>2 DEF TypeOK, Enqueue, RipensInTime
  <2> QED
    BY <2>1, <2>2
<1>2. ASSUME NEW w \in Workers, NEW K \in SUBSET Keys, Take(w, K), now' = now PROVE Goal
  <2>1. pending'[k] = pending[k]
    BY <1>2 DEF Take, NoEntry
  <2> QED
    BY <1>2, <2>1 DEF RipensInTime
<1>3. CASE DispatchReady
  BY <1>2, <1>3 DEF DispatchReady, Workers
<1>4. ASSUME NEW w \in Workers, FlushAll(w) PROVE Goal
  BY <1>2, <1>4 DEF FlushAll
<1>5. CASE Tick
  BY <1>5 DEF Tick, RipensInTime
<1>6. ASSUME UNCHANGED <<now, pending>> PROVE Goal
  BY <1>6 DEF RipensInTime
<1>7. ASSUME NEW w \in Workers, NEW j \in Keys, AddToBatch(w, j) \/ FillBatch(w, j) PROVE Goal
  BY <1>6, <1>7 DEF AddToBatch, FillBatch
<1>8. ASSUME NEW w \in Workers, ForceFlush(w) \/ ForceNothing(w) \/ AcquireSlot(w) \/ Requeue(w)
      PROVE Goal
  BY <1>6, <1>8 DEF ForceFlush, ForceNothing, AcquireSlot, Requeue
<1>9. ASSUME NEW w \in Workers, WriteSucceeds(w) \/ WriteDeadlocks(w) \/ WriteFails(w) PROVE Goal
  BY <1>6, <1>9 DEF WriteSucceeds, WriteDeadlocks, WriteFails
<1>10. ASSUME NEW t \in Timers, TimerFires(t) PROVE Goal
  BY <1>6, <1>10 DEF TimerFires
<1>11. CASE DispatchDone \/ Cancel \/ UNCHANGED vars
  BY <1>6, <1>11 DEF DispatchDone, Cancel, vars
<1> QED
  BY <1>1, <1>3, <1>4, <1>5, <1>7, <1>8, <1>9, <1>10, <1>11
     DEF Next, Serve, Shutdown, Work, DispatchNothing

-----------------------------------------------------------------------------
(* The theorems.                                                           *)

\* The invariant that is preserved by every step; each part needs the others.
Invariant ==
    /\ TypeOK /\ Control /\ SlotsBalanced /\ BatchIsWatched
    /\ SavedOnly /\ PipelineOrder /\ NewestIsKept /\ RipensInTime
    /\ EntityIsKept /\ Drained /\ FlightsDiffer

THEOREM InvariantHolds == Spec => []Invariant
<1>1. Init => Invariant
  <2>1. Init => EntityIsKept /\ Drained /\ FlightsDiffer
    BY DEF Init, EntityIsKept, Drained, FlightsDiffer, Nothing
  <2> QED
    BY <2>1, InitType, InitControl, InitSlots, InitWatched, InitOrder, InitTime DEF Invariant
<1>2. Invariant /\ [Next]_vars => Invariant'
  BY NextType, NextControl, NextSlots, NextWatched, NextSavedOnly, NextOrder, NextNewest,
     NextTime, NextEntity, NextDrained, NextFlights DEF Invariant
<1> QED
  BY <1>1, <1>2, PTL DEF Spec

\* Every variable keeps its type: among other things the retries after a
\* deadlock stay below deadlockRetries and the parallel batch writes below
\* write_behind_worker_count.
THEOREM TypeCorrect == Spec => []TypeOK
<1>1. Invariant => TypeOK
  BY DEF Invariant
<1> QED
  BY <1>1, InvariantHolds, PTL

\* flushBatchLocked takes and gives back the limiter's slots in pairs.
THEOREM LimiterCorrect == Spec => []SlotsBalanced
<1>1. Invariant => SlotsBalanced
  BY DEF Invariant
<1> QED
  BY <1>1, InvariantHolds, PTL

\* A batch is never left behind, not even by the requeue at shutdown.
THEOREM NoBatchIsOrphaned == Spec => []BatchIsWatched
<1>1. Invariant => BatchIsWatched
  BY DEF Invariant
<1> QED
  BY <1>1, InvariantHolds, PTL

\* Entries of a key reach the batch, and leave it, in the order of the saves.
THEOREM EntriesStayInOrder == Spec => []PipelineOrder
<1>1. Invariant => PipelineOrder
  BY DEF Invariant
<1> QED
  BY <1>1, InvariantHolds, PTL

\* No save is lost on its way through pending map, batch and flight.
THEOREM NewestIsNeverLost == Spec => []NewestIsKept
<1>1. Invariant => NewestIsKept
  BY DEF Invariant
<1> QED
  BY <1>1, InvariantHolds, PTL

\* A save is never delayed by what is already pending, nor does it delay it.
THEOREM SavesArePrompt == Spec => SaveIsPrompt
<1>1. Invariant /\ [Next]_vars =>
        [\A k \in Keys, d \in Delays :
            Enqueue(k, d) => /\ pending'[k].readyAt <= now + d
                             /\ pending[k].data # 0 =>
                                   pending'[k].readyAt <= pending[k].readyAt]_vars
  BY SquashIsPrompt DEF Invariant
<1> QED
  BY <1>1, InvariantHolds, PTL DEF Spec, SaveIsPrompt

\* No interleaving of the shutdown loses an entity altogether, though requeued
\* entries may replace newer ones.
THEOREM NoEntityIsForgotten == Spec => []EntityIsKept
<1>1. Invariant => EntityIsKept
  BY DEF Invariant
<1> QED
  BY <1>1, InvariantHolds, PTL

\* ProcessLoop's Flush and main's leave no entry in the batch or in their hands.
THEOREM TheFlushesDrain == Spec => []FlushesDrain
<1>1. Invariant => FlushesDrain
  <2> SUFFICES ASSUME Invariant, task["loop"] = "stopped", task["main"] = "flushed"
               PROVE  /\ batch = Nothing
                      /\ \A w \in {"loop", "main"} : todo[w] = Nothing /\ flight[w] = Nothing
    BY DEF FlushesDrain
  <2>1. batch = Nothing
    BY DEF Invariant, Drained
  <2>2. \A w \in {"loop", "main"} : todo[w] = Nothing /\ flight[w] = Nothing
    BY DEF Invariant, Control, Workers
  <2> QED
    BY <2>1, <2>2
<1> QED
  BY <1>1, InvariantHolds, PTL

\* Until the shutdown the queue, with all its goroutines, is a WriteBehindStore.
THEOREM QueueImplementsStore == Spec => ImplementsStore
<1>1. Init => Store!Init
  BY InitStore
<1>2. Invariant /\ [Next]_vars => [cancelled' \/ [Store!Next]_(Store!vars)]_vars
  BY NextStore DEF Invariant
<1> QED
  BY <1>1, <1>2, InvariantHolds, PTL DEF Spec, ImplementsStore
=============================================================================
