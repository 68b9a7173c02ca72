----------------------------- MODULE TypedQueue -----------------------------
(***************************************************************************)
(* One write-behind queue of Golbat (decoder/writebehind/typed_queue.go)   *)
(* with the goroutines that work on it:                                    *)
(*                                                                         *)
(*   "loop"   the queue's ProcessLoop, which moves ripe entries from the   *)
(*            pending map into the batch every 100 ms;                     *)
(*   Timers   the goroutines in which time.AfterFunc runs the callback of  *)
(*            a batch timer;                                               *)
(*   "main"   the program's main goroutine, which calls Flush once on the  *)
(*            way out (main.go) and then lets the process die.             *)
(*                                                                         *)
(* A save of the entity with key k is the Enqueue of a snapshot.  Only the *)
(* age of a snapshot matters here, so the n-th snapshot of k is the number *)
(* n, and 0 stands for "no entry".  An action is one critical section of   *)
(* mu or batchMu (neither lock is ever held across something that blocks), *)
(* one step of the flush that runs with no lock held, or a passage of time.*)
(***************************************************************************)
EXTENDS Integers, FiniteSets

CONSTANTS
    Keys,             \* keys of the entities saved through this queue
    Delays,           \* the delays callers pass to Enqueue
    BatchSize,        \* write_behind_batch_size
    Limit,            \* write_behind_worker_count: slots of the SharedLimiter
    DeadlockRetries,  \* the constant deadlockRetries
    StartupDelay,     \* write_behind_startup_delay
    Timers,           \* bound: goroutines running timer callbacks
    MaxWrites,        \* bound: saves of one entity
    MaxTime           \* bound: the clock

ASSUME KeysAssumption == IsFiniteSet(Keys)
ASSUME TimersAssumption == IsFiniteSet(Timers) /\ {"loop", "main"} \cap Timers = {}
ASSUME NumbersAssumption ==
    /\ Delays \subseteq Nat
    /\ BatchSize \in Nat \ {0}
    /\ Limit \in Nat \ {0}
    /\ DeadlockRetries \in Nat
    /\ StartupDelay \in Nat
    /\ MaxWrites \in Nat
    /\ MaxTime \in Nat

Workers == {"loop", "main"} \cup Timers

VARIABLES
    now,        \* the (monotonic) clock
    saved,      \* saved[k]: number of snapshots of k enqueued so far
    pending,    \* q.pending
    batch,      \* q.batchPending
    batchTimer, \* q.batchTimer: "nil", "armed", or "fired" (and not yet reset)
    task,       \* task[w]: the function w is in
    todo,       \* todo[w]: entries w took from pending, not yet in the batch
    flight,     \* flight[w]: entries w took from the batch
    io,         \* io[w]: where w is inside flushBatchLocked
    attempt,    \* attempt[w]: retries after a MySQL deadlock
    slots,      \* slots taken from the limiter (the length of its channel)
    row,        \* row[k]: snapshot in the database, 0 if there is no row
    landed,     \* landed[k]: newest snapshot ever written (history)
    failed,     \* failed[k]: newest snapshot given up after an error (history)
    cancelled   \* ctx.Done() is closed: shutdown has begun

queueVars  == <<pending, batch, batchTimer>>
workerVars == <<task, todo, flight, io, attempt, slots>>
dbVars     == <<row, landed, failed>>
vars == <<now, saved, queueVars, workerVars, dbVars, cancelled>>

Versions == 0 .. MaxWrites
Entry    == [data : Versions, readyAt : 0 .. MaxTime, delay : Delays \cup {0}]
NoEntry  == [data |-> 0, readyAt |-> 0, delay |-> 0]
Slots    == [Keys -> Versions]
Nothing  == [k \in Keys |-> 0]

Held(f) == {k \in Keys : f[k] # 0}
-----------------------------------------------------------------------------
(* Operators named Slip_... are plausible slips in the definition that      *)
(* follows them; nothing uses them, and each breaks a property below.      *)

\* Squashes without taking the newer data.
Slip_KeepData(e, v, d) ==
    IF e.data = 0 THEN [data |-> v, readyAt |-> now + d, delay |-> d] ELSE e

\* Lowers the delay and restarts it, later than what was promised before.
Slip_Restart(e, v, d) ==
    IF e.data = 0 \/ d < e.delay THEN [data |-> v, readyAt |-> now + d, delay |-> d]
    ELSE [e EXCEPT !.data = v]

\* The squash of a snapshot v, saved with delay d, into what is pending.
Squash(e, v, d) ==
    IF e.data = 0
    THEN [data |-> v, readyAt |-> now + d, delay |-> d]
    ELSE IF d < e.delay
    THEN [data    |-> v,
          readyAt |-> IF now + d < e.readyAt THEN now + d ELSE e.readyAt,
          delay   |-> d]
    ELSE [e EXCEPT !.data = v]

\* What entity handlers do, under the lock of the entity: snapshots of one key
\* arrive in the order in which they were taken.
Enqueue(k, d) ==
    /\ saved[k] < MaxWrites
    /\ now + d <= MaxTime
    /\ saved' = [saved EXCEPT ![k] = @ + 1]
    /\ pending' = [pending EXCEPT ![k] = Squash(@, saved[k] + 1, d)]
    /\ UNCHANGED <<now, batch, batchTimer, workerVars, dbVars, cancelled>>

\* checkWarmup: time never runs backwards, so the latch is the comparison.
WarmupComplete == now >= StartupDelay

Ripe(k) == pending[k].data # 0 /\ pending[k].readyAt <= now

\* Dispatches without deleting from the pending map.
Slip_TakeCopy(w, K) ==
    /\ todo' = [todo EXCEPT ![w] = [k \in Keys |-> IF k \in K THEN pending[k].data ELSE 0]]
    /\ pending' = pending

\* What w has to carry from pending to the batch, if it takes the keys of K.
Take(w, K) ==
    /\ todo' = [todo EXCEPT ![w] = [k \in Keys |-> IF k \in K THEN pending[k].data ELSE 0]]
    /\ pending' = [k \in Keys |-> IF k \in K THEN NoEntry ELSE pending[k]]

\* A tick of ProcessLoop: dispatchReady up to the release of mu.  The select
\* may choose the ticker although ctx is done.
DispatchReady ==
    /\ task["loop"] = "idle"
    /\ WarmupComplete
    /\ \E k \in Keys : Ripe(k)
    /\ Take("loop", {k \in Keys : Ripe(k)})
    /\ task' = [task EXCEPT !["loop"] = "dispatch"]
    /\ UNCHANGED <<now, saved, batch, batchTimer, flight, io, attempt, slots, dbVars, cancelled>>

\* A tick that finds the queue still warming up, or nothing ripe.
DispatchNothing ==
    /\ task["loop"] = "idle"
    /\ WarmupComplete => \A k \in Keys : ~Ripe(k)
    /\ UNCHANGED vars

\* Flush, up to the release of mu: by ProcessLoop when it sees ctx.Done(), and
\* by main at the end of the shutdown sequence.
FlushAll(w) ==
    /\ w \in {"loop", "main"}
    /\ cancelled
    /\ task[w] = "idle"
    /\ Take(w, Keys)
    /\ task' = [task EXCEPT ![w] = "flush"]
    /\ UNCHANGED <<now, saved, batch, batchTimer, flight, io, attempt, slots, dbVars, cancelled>>
-----------------------------------------------------------------------------
\* Stops the timer of the batch but does not clear it.
Slip_KeepTimer(w, b) ==
    /\ flight' = [flight EXCEPT ![w] = b]
    /\ batch' = Nothing
    /\ batchTimer' = batchTimer
    /\ io' = [io EXCEPT ![w] = "acquire"]
    /\ attempt' = [attempt EXCEPT ![w] = 0]

(* flushBatchLocked, up to the release of batchMu: the batch b becomes the *)
(* worker's, and the timer is stopped (a callback that has fired already   *)
(* cannot be recalled).                                                    *)
SwapOut(w, b) ==
    /\ flight' = [flight EXCEPT ![w] = b]
    /\ batch' = Nothing
    /\ batchTimer' = "nil"
    /\ io' = [io EXCEPT ![w] = "acquire"]
    /\ attempt' = [attempt EXCEPT ![w] = 0]

Slip_FirstWins(w, k) == [batch EXCEPT ![k] = IF @ # 0 THEN @ ELSE todo[w][k]]

\* The batch after addToBatch put w's entry for k into it: the entry that
\* comes later replaces the one already there.
Added(w, k) == [batch EXCEPT ![k] = todo[w][k]]

Carrying(w, k) ==
    /\ task[w] \in {"dispatch", "flush"}
    /\ io[w] = "none"
    /\ todo[w][k] # 0

\* Never starts a timer.
Slip_NoTimer(w, k) ==
    /\ Carrying(w, k)
    /\ Cardinality(Held(Added(w, k))) < BatchSize
    /\ batch' = Added(w, k)
    /\ todo' = [todo EXCEPT ![w][k] = 0]
    /\ UNCHANGED <<now, saved, pending, batchTimer, task, flight, io, attempt, slots, dbVars, cancelled>>

\* addToBatch when the batch stays below its size.
AddToBatch(w, k) ==
    /\ Carrying(w, k)
    /\ Cardinality(Held(Added(w, k))) < BatchSize
    /\ batch' = Added(w, k)
    /\ batchTimer' = IF batchTimer = "nil" THEN "armed" ELSE batchTimer
    /\ todo' = [todo EXCEPT ![w][k] = 0]
    /\ UNCHANGED <<now, saved, pending, task, flight, io, attempt, slots, dbVars, cancelled>>

\* addToBatch when the entry fills the batch.
FillBatch(w, k) ==
    /\ Carrying(w, k)
    /\ Cardinality(Held(Added(w, k))) >= BatchSize
    /\ SwapOut(w, Added(w, k))
    /\ todo' = [todo EXCEPT ![w][k] = 0]
    /\ UNCHANGED <<now, saved, pending, task, slots, dbVars, cancelled>>

\* What a worker does when its function returns.
Ended(w) == CASE w = "loop" -> "stopped"
              [] w = "main" -> "flushed"
              [] OTHER      -> "idle"

\* dispatchReady returns to the select of ProcessLoop.
DispatchDone ==
    /\ task["loop"] = "dispatch"
    /\ io["loop"] = "none"
    /\ todo["loop"] = Nothing
    /\ task' = [task EXCEPT !["loop"] = "idle"]
    /\ UNCHANGED <<now, saved, queueVars, todo, flight, io, attempt, slots, dbVars, cancelled>>

\* The runtime starts the callback of the batch timer in a goroutine.
TimerFires(t) ==
    /\ batchTimer = "armed"
    /\ task[t] = "idle"
    /\ batchTimer' = "fired"
    /\ task' = [task EXCEPT ![t] = "fire"]
    /\ UNCHANGED <<now, saved, pending, batch, todo, flight, io, attempt, slots, dbVars, cancelled>>

\* Flush forces the batch out before it has added everything.
Slip_ForceEarly(w) ==
    \/ task[w] = "fire"
    \/ task[w] = "flush" /\ io[w] = "none"

\* A worker that is about to flush whatever the batch holds: a timer callback,
\* or Flush after its last addToBatch.
Forcing(w) ==
    \/ task[w] = "fire"
    \/ task[w] = "flush" /\ io[w] = "none" /\ todo[w] = Nothing

ForceFlush(w) ==
    /\ Forcing(w)
    /\ batch # Nothing
    /\ SwapOut(w, batch)
    /\ task' = [task EXCEPT ![w] = "force"]
    /\ UNCHANGED <<now, saved, pending, todo, slots, dbVars, cancelled>>

ForceNothing(w) ==
    /\ Forcing(w)
    /\ batch = Nothing
    /\ task' = [task EXCEPT ![w] = Ended(w)]
    /\ UNCHANGED <<now, saved, queueVars, todo, flight, io, attempt, slots, dbVars, cancelled>>
-----------------------------------------------------------------------------
(* flushBatchLocked with batchMu released.                                 *)

\* Only dispatchReady passes ProcessLoop's ctx on; every other caller uses
\* context.Background().
CtxDone(w) == cancelled /\ task[w] = "dispatch"

SlotFree == slots < Limit

AcquireSlot(w) ==
    /\ io[w] = "acquire"
    /\ SlotFree
    /\ slots' = slots + 1
    /\ io' = [io EXCEPT ![w] = "exec"]
    /\ UNCHANGED <<now, saved, queueVars, task, todo, flight, attempt, dbVars, cancelled>>

\* flushBatchLocked returns: its caller goes on, or was about to return too.
Return(w) ==
    /\ flight' = [flight EXCEPT ![w] = Nothing]
    /\ io' = [io EXCEPT ![w] = "none"]
    /\ task' = [task EXCEPT ![w] = IF @ = "force" THEN Ended(w) ELSE @]

Slip_DropOnCancel(w) == batch

\* The entries go back into the batch, over whatever it holds for their keys by now.
Requeued(w) == [k \in Keys |-> IF flight[w][k] # 0 THEN flight[w][k] ELSE batch[k]]

\* Acquire sees the cancelled context.  No timer is started.
Requeue(w) ==
    /\ io[w] = "acquire"
    /\ CtxDone(w)
    /\ batch' = Requeued(w)
    /\ Return(w)
    /\ UNCHANGED <<now, saved, pending, batchTimer, todo, attempt, slots, dbVars, cancelled>>

MaxOf(a, b) == IF a > b THEN a ELSE b

Slip_LeakSlot(w) == Return(w) /\ slots' = slots

Release(w) == Return(w) /\ slots' = slots - 1

\* flushFunc is one INSERT ... ON DUPLICATE KEY UPDATE for the whole batch.
Upsert(w) ==
    /\ row' = [k \in Keys |-> IF flight[w][k] # 0 THEN flight[w][k] ELSE row[k]]
    /\ landed' = [k \in Keys |-> MaxOf(landed[k], flight[w][k])]

WriteSucceeds(w) ==
    /\ io[w] = "exec"
    /\ Upsert(w)
    /\ Release(w)
    /\ UNCHANGED <<now, saved, queueVars, todo, attempt, failed, cancelled>>

\* A MySQL deadlock with retries left: the same entries are tried again.
WriteDeadlocks(w) ==
    /\ io[w] = "exec"
    /\ attempt[w] < DeadlockRetries
    /\ attempt' = [attempt EXCEPT ![w] = @ + 1]
    /\ UNCHANGED <<now, saved, queueVars, task, todo, flight, io, slots, dbVars, cancelled>>

\* Any other error, the cancelled context included: counted, logged and dropped.
WriteFails(w) ==
    /\ io[w] = "exec"
    /\ failed' = [k \in Keys |-> MaxOf(failed[k], flight[w][k])]
    /\ Release(w)
    /\ UNCHANGED <<now, saved, queueVars, todo, attempt, row, landed, cancelled>>
-----------------------------------------------------------------------------
(* The environment: time, and the signal that starts the shutdown.  Once    *)
(* main has flushed, the process may end at any moment: nothing waits for   *)
(* ProcessLoop or for a timer callback.  That needs no action: a behaviour  *)
(* of Spec may stop anywhere, and a safety property holds wherever it does. *)
Tick ==
    /\ now < MaxTime
    /\ now' = now + 1
    /\ UNCHANGED <<saved, queueVars, workerVars, dbVars, cancelled>>

Cancel ==
    /\ ~cancelled
    /\ cancelled' = TRUE
    /\ UNCHANGED <<now, saved, queueVars, workerVars, dbVars>>

Init ==
    /\ now = 0
    /\ saved = Nothing
    /\ pending = [k \in Keys |-> NoEntry]
    /\ batch = Nothing
    /\ batchTimer = "nil"
    /\ task = [w \in Workers |-> "idle"]
    /\ todo = [w \in Workers |-> Nothing]
    /\ flight = [w \in Workers |-> Nothing]
    /\ io = [w \in Workers |-> "none"]
    /\ attempt = [w \in Workers |-> 0]
    /\ slots = 0
    /\ row = Nothing
    /\ landed = Nothing
    /\ failed = Nothing
    /\ cancelled = FALSE

Work(w) ==
    \/ \E k \in Keys : AddToBatch(w, k) \/ FillBatch(w, k)
    \/ ForceFlush(w) \/ ForceNothing(w)
    \/ AcquireSlot(w)
    \/ WriteSucceeds(w) \/ WriteDeadlocks(w) \/ WriteFails(w)

\* The queue in service.
Serve ==
    \/ \E k \in Keys, d \in Delays : Enqueue(k, d)
    \/ DispatchReady
    \/ DispatchNothing
    \/ DispatchDone
    \/ \E t \in Timers : TimerFires(t)
    \/ \E w \in Workers : Work(w)
    \/ Tick

\* What the shutdown adds to it.
Shutdown ==
    \/ Cancel
    \/ \E w \in Workers : FlushAll(w) \/ Requeue(w)

Next == Serve \/ Shutdown

Spec == Init /\ [][Next]_vars

\* The queue until the shutdown begins.
ServiceSpec == Init /\ [][Serve]_vars

(***************************************************************************)
(* Fairness.  ProcessLoop's ticker, the runtime's timers and runnable      *)
(* goroutines are served, time passes, and the database answers (with a    *)
(* result or an error; it cannot report a deadlock forever, the retries    *)
(* are counted).  The limiter is a Go channel, whose blocked senders are   *)
(* served in turn: a worker that can get a slot again and again gets one.  *)
(***************************************************************************)
Fairness ==
    /\ WF_vars(Tick)
    /\ WF_vars(DispatchReady)
    /\ WF_vars(DispatchDone)
    /\ \A t \in Timers : WF_vars(TimerFires(t))
    /\ \A w \in Workers :
          /\ WF_vars(\E k \in Keys : AddToBatch(w, k) \/ FillBatch(w, k))
          /\ WF_vars(ForceFlush(w) \/ ForceNothing(w))
          /\ SF_vars(AcquireSlot(w))
          /\ WF_vars(WriteSucceeds(w) \/ WriteDeadlocks(w) \/ WriteFails(w))

LiveSpec == ServiceSpec /\ Fairness
-----------------------------------------------------------------------------
(* Correctness.                                                            *)

\* Every variable holds a value of its type.
TypeOK ==
    /\ now \in 0 .. MaxTime
    /\ saved \in Slots
    /\ pending \in [Keys -> Entry]
    /\ batch \in Slots
    /\ batchTimer \in {"nil", "armed", "fired"}
    /\ task \in [Workers -> {"idle", "dispatch", "flush", "fire", "force", "stopped", "flushed"}]
    /\ todo \in [Workers -> Slots]
    /\ flight \in [Workers -> Slots]
    /\ io \in [Workers -> {"none", "acquire", "exec"}]
    /\ attempt \in [Workers -> 0 .. DeadlockRetries]
    /\ slots \in 0 .. Limit
    /\ row \in Slots
    /\ landed \in Slots
    /\ failed \in Slots
    /\ cancelled \in BOOLEAN

\* Which function of a worker may hold entries or be inside flushBatchLocked:
\* entries in flight belong to a flush, entries to be added to a dispatch or a
\* Flush, and until the shutdown begins only ProcessLoop and the timers work.
Control ==
    /\ \A w \in Workers :
          /\ io[w] = "none" => flight[w] = Nothing
          /\ task[w] \in {"idle", "fire", "stopped", "flushed"} => io[w] = "none"
          /\ task[w] \notin {"dispatch", "flush"} => todo[w] = Nothing
    /\ \A t \in Timers : task[t] \in {"idle", "fire", "force"}
    /\ task["loop"] \in {"idle", "dispatch", "flush", "force", "stopped"}
    /\ task["main"] \in {"idle", "flush", "force", "flushed"}
    /\ ~cancelled => task["main"] = "idle" /\ task["loop"] \in {"idle", "dispatch"}

\* The snapshots of k that are somewhere on their way to the database.
Carried(k) ==
    ({pending[k].data, batch[k]}
        \cup {todo[w][k] : w \in Workers} \cup {flight[w][k] : w \in Workers}) \ {0}

\* Until the shutdown begins, the entries of a key are in order along the way
\* from Enqueue to the database: what is pending is newer than what ProcessLoop
\* carries, that is newer than what is in the batch, and that is newer than
\* anything in flight, written or given up.  This is why "the entry that comes
\* later wins" in addToBatch is the same as "the newer snapshot wins".
Below(k, v) ==
    /\ landed[k] < v /\ failed[k] < v
    /\ \A w \in Workers : flight[w][k] < v

PipelineOrder ==
    ~cancelled => \A k \in Keys :
        LET p == pending[k].data  t == todo["loop"][k]  b == batch[k] IN
        /\ p # 0 => t < p /\ b < p /\ Below(k, p)
        /\ t # 0 => b < t /\ Below(k, t)
        /\ b # 0 => Below(k, b)

\* Until the shutdown begins, the newest snapshot of every entity is on its way
\* to the database, was written, or was given up after a database error: no
\* squash, merge, flush or retry loses it.
NewestIsKept ==
    ~cancelled => \A k \in Keys :
        saved[k] \in Carried(k) \cup {0, landed[k], failed[k]}

\* Even the shutdown, where older entries do replace newer ones, never forgets
\* an entity altogether: some snapshot of it is written, given up or carried.
EntityIsKept ==
    \A k \in Keys : saved[k] # 0 =>
        landed[k] # 0 \/ failed[k] # 0 \/ Carried(k) # {}

\* A batch is never left without anybody who will flush it: its timer is armed,
\* or has fired and its callback has not run yet, or (after a Requeue, which
\* starts no timer) ProcessLoop still has its final Flush before it.  And a
\* timer is never set without a batch to flush.
BatchIsWatched ==
    /\ batchTimer # "nil" => batch # Nothing
    /\ batchTimer = "fired" => \E t \in Timers : task[t] = "fire"
    /\ batch # Nothing /\ batchTimer = "nil" =>
          cancelled /\ task["loop"] \in {"idle", "dispatch", "flush"}

\* The limiter's slots are exactly those of the workers that are writing: none
\* leaks and none is given back twice, on any path out of flushBatchLocked.
SlotsBalanced == slots = Cardinality({w \in Workers : io[w] = "exec"})

\* A pending entry becomes ripe no later than its smallest delay from now: part
\* of the inductive invariant, from which SaveIsPrompt follows.
RipensInTime ==
    \A k \in Keys : pending[k].data # 0 => pending[k].readyAt <= now + pending[k].delay

\* A save never waits longer than the delay it asked for, whatever is already
\* pending for the entity, and it never puts off what is already pending.
SaveIsPrompt ==
    [][\A k \in Keys, d \in Delays :
          Enqueue(k, d) => /\ pending'[k].readyAt <= now + d
                           /\ pending[k].data # 0 =>
                                 pending'[k].readyAt <= pending[k].readyAt]_vars

\* When ProcessLoop has stopped and main's Flush has returned, neither left
\* anything in the batch or in its hands.
FlushesDrain ==
    task["loop"] = "stopped" /\ task["main"] = "flushed" =>
        /\ batch = Nothing
        /\ \A w \in {"loop", "main"} : todo[w] = Nothing /\ flight[w] = Nothing

\* Every snapshot is settled in the end: it, or a newer one of the same entity,
\* is written or given up after an error.
SavesSettle ==
    \A k \in Keys : \A n \in 1 .. MaxWrites :
        saved[k] >= n ~> (landed[k] >= n \/ failed[k] >= n)

\* What the queue carries, as the store that it promises to be.
Store == INSTANCE WriteBehindStore WITH held <- [k \in Keys |-> Carried(k)]

\* Until the shutdown begins the queue keeps what the store promises: it forgets
\* a snapshot only for a newer one it holds, and writes each at most once.
ImplementsStore ==
    Store!Init /\ [][cancelled' \/ [Store!Next]_(Store!vars)]_vars
=============================================================================
