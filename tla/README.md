# Golbat in TLA+

Golbat receives raw protocol messages that scanners collected from the game
servers, decodes them, keeps the entities they describe (gyms, pokestops,
pokemon, spawnpoints, weather, stations, ...) in memory, writes them behind to
MySQL, announces changes by webhook and answers API queries. This directory
holds TLA+ models of the parts of it that are hard to get right, the TLC
configurations that check them, and TLAPS proofs of what matters most.

Names in the modules are those of the source where TLA+ allows it; `map` in
`PROJECT.json` names the lines each definition stands for.

## 1. Inventory

### 1.1 The components

| component | source | state it keeps | operations |
|---|---|---|---|
| raw intake | `routes.go`, `grpc_server_raw.go`, `decode.go`, `deviceList.go` | a TTL cache of devices | `Raw` (HTTP) and `SubmitRawProto` (gRPC) answer at once and decode in a new goroutine; each proto gets 5 s (30 s for GMOs) |
| write-behind queues | `decoder/writebehind/*.go`, `decoder/writebehind_batch.go` | per entity type: `pending`, `batchPending`, `batchTimer`; one shared limiter | `Enqueue`, `ProcessLoop`, batch timer callback, `Flush` |
| record caches | `decoder/*_state.go`, `sharded_cache.go`, `spawnpoint.go`, `weather.go`, `tracked_mutex.go` | per entity type: a (sharded) TTL cache of pointers to records, each with its own mutex | `peek`, `getReadOnly`, `getForUpdate`, `getOrCreate`, `save`, eviction, `ClearPokestopCache` |
| fort tracker | `decoder/fort_tracker.go`, `preload.go`, `gmo_decode.go` | per S2 cell: last GMO time and the sets of gyms and pokestops; per fort: cell, last seen, misses, kind | `ProcessCellUpdate`, `RegisterFort`, `RestoreFort`, `RemoveFort`, `clearFortWithLock` |
| GMO decoding | `decoder/gmo_decode.go`, `fort.go` | none of its own | fort, pokemon, weather and cell batches; copies shared fields between a gym and a pokestop of one id |
| pokemon decoding | `decoder/pokemon_decode.go`, `pokemon_process.go`, `pokemon.go` | the record; `diskEncounterCache` | wild, nearby, map, disk encounter, encounter, tappable sightings; ditto detection; expiry |
| spawnpoints | `decoder/spawnpoint.go` | the record cache | learns a despawn second, `spawnpointSeen` |
| weather | `decoder/weather.go`, `weather_consensus.go`, `weather_iv.go` | per cell: the votes of an hour | `applyObservation`, `UpdateClientWeatherBatch`, proactive IV switching |
| fort lookup and R-trees | `decoder/fortRtree.go`, `pokemonRtree.go`, `api_pokemon_scan_*.go`, `api_fort.go` | a tree, a lookup map, counts per form | insert, move, remove on eviction, snapshot scans |
| pokestops, gyms, stations, incidents, routes, tappables, S2 cells | `decoder/pokestop*.go`, `gym*.go`, ... | the records | decode a proto into a record; quests, lures, showcases, raids, battles |
| players | `decoder/player.go` | a TTL cache | decode profile protos |
| webhooks | `webhooks/*.go` | per type the collection being filled | `AddMessage`, `Flush` every interval and at exit |
| statistics | `decoder/stats.go`, `encounter_cache/` | counters per area, `encounter_cache` | updated on save, written to the database every few minutes |
| archiver and tickers | `stats.go` | none | delete or archive expired pokemon, expire quests, incidents, stats |
| preload and preserve | `decoder/preload.go`, `pokemon_preserve.go` | none of their own | fill the caches at start, write memory-only pokemon at exit |
| geofences, scan areas | `geo/*.go`, `decoder/geography.go`, `scanarea.go` | feature collection, S2 lookup | match a point to areas; reload |
| masterfile | `decoder/masterfile.go` | the game master data | load, watch, save |
| configuration, logging, metrics | `config/`, `logsetup.go`, `stats_collector/`, `external/` | - | - |
| generated code | `pogo/`, `grpc/*.pb.go` | - | protobuf |

### 1.2 How they interact

Every raw message is decoded by a goroutine of its own. A handler locks one
record (`getOrCreate...` returns the record with its mutex held), changes it,
calls its `save...`, which enqueues a snapshot on the entity's write-behind
queue, fills the R-tree or fort lookup, queues webhooks and counts statistics,
and unlocks. Handlers of one entity are serialised by that mutex, handlers of
different entities run in parallel, and the structures behind the records (the
queues, the tracker, the trees, the webhook collections) have locks of their
own, taken inside the record's. The tracker is the exception that sets the lock
order: `ProcessCellUpdate` releases `ft.mu` before the stale forts are locked,
because un-deleting a fort takes `ft.mu` with the record locked.

Background goroutines: nine `ProcessLoop`s, the timers of their batches, the
caches' eviction loops, the webhook sender, the tickers of `stats.go`, the file
watcher. Shutdown cancels one context; the `ProcessLoop`s flush, the HTTP server
and the webhook loop stop, main flushes the queues once more, preserves
memory-only pokemon if asked to, flushes the webhooks and exits. Nothing waits
for the gRPC server, for decoding goroutines, for the `ProcessLoop`s or for
batches in flight.

### 1.3 What is hard, and what would make it correct

| component | hard behaviour | correct means |
|---|---|---|
| write-behind queues | four parties hand entries along while new ones arrive; batch timers cannot be recalled; retries; two flushes race at shutdown | no newest snapshot is lost; entries of a key stay in order; nothing waits forever; no slot leaks; quiet time and delays are kept |
| record caches | a record is visible before it is loaded; eviction while somebody holds it; reload while a write is queued | one record and one mutex per id; no save of a record that was not loaded; no lost update |
| fort tracker | verdicts are acted on after the lock is gone; conversions, moves between cells, restarts from preload | a fort is in the set of its own cell and kind only; no fort is dropped that was seen less than the threshold ago; a removed fort leaves nothing behind |
| weather consensus | votes change sides, ties, hours change, late messages | counts equal the votes; what is published was a leader; order of votes does not matter |
| GMO and fort decoding | a record is locked while another one is, the other record of a converted fort is read after its lock is released | no goroutines wait for each other; a gym made from a pokestop keeps name and image |
| pokemon decoding | sightings of several kinds in any order, several accounts, reloads; a disk encounter before its GMO; ditto | the values given fit the boost given; a verified time is never a guess; a known time is not replaced by one; nothing is taken for a ditto that is none |
| spawnpoints | seconds on a circle, times on a line | the second does not flap; a verified time is the true one |
| R-trees | lookup, tree and counts are updated one after another, by eviction callbacks too | what is cached is in the index once, where and as what the record says; nothing else is |
| webhooks | messages arrive while a collection is being sent, flushes overlap, receivers do not answer | there is one attempt to post a message to each receiver that wants it, whatever the others do |
| archiver | a queued write of a pokemon lands after its row was deleted | the index does not depend on it, and the row is deleted again |
| statistics | the kind of a sighting changes back and forth | a pokemon counts once |

## 2. Plan

### 2.1 Modules, in order

Done:

1. `TypedQueue` with its abstract specification `WriteBehindStore` - every
   entity goes through it, and it has the most intricate concurrency.
2. `FortTracker` - the second structure shared by all GMO goroutines - and
   `FortLifecycle`, which EXTENDS it with the goroutines that use it.
3. `RecordCache` with its abstract specification `AtomicRecord` - the scheme
   that all record types share.
4. `WeatherConsensus` - the vote, the record and the changes that are reported.
5. `PokemonLife` - one pokemon: the kinds of sighting in any order, the disk
   encounter that comes first, the scans and the values given out, the despawn
   time and its verification, the proactive switch, the counting.
6. `Despawn` - the arithmetic of despawn seconds around the end of an hour.
7. `Ditto` - `detectDitto` and the history of scans, against what the pokemon is.
8. `PokemonTree`, `FortTree` - the indexes against saves and evictions.
9. `LockOrder` - which lock is taken while which is held.
10. `WebhookSender` - collections, overlapping flushes, lazy receivers, exit.

Left:

11. `SharedFields` - the fields copied between a gym and a stop of one id, with
    the `getMapForts` cache; would compose with `FortLifecycle`.
12. `Expiry` - quest expiry against queued writes; would compose with
    `TypedQueue` through `WriteBehindStore`.

Composition: a module that saves records uses what `WriteBehindStore` and
`AtomicRecord` promise, not the modules below them, so that state spaces do not
multiply: `RecordCache` has the queue as `WriteBehindStore` promises it, a set of
snapshots that are merged, written in any order or given up, and in `PokemonLife`, `PokemonTree` and `FortTree` a handler is one
step of the atomic record. Parts that share no state are run together, one per
behaviour: a variable `part` says which, and the others stay as they began
(`MC_Pokemon`, `MC_Services`).

### 2.2 Theorems worth proving, beyond those of section 5

Every safety property and every action property that a run expects to hold is
stated by a theorem. Left are those of the modules still to be written (11, 12):
that no copied field is older than the record it came from, and that a quest
that was renewed in between is not cleared.

## 3. The modules

In each module operators named `Slip_...` stand before the definition they
belong to. Nothing uses them: each is that definition as a plausible slip would
have made it, and each breaks a property, which shows that the property can be
broken by the code. An `MC_...` module names the model values and the symmetry;
the `.cfg` files give the bounds.

### 3.1 TypedQueue (`decoder/writebehind/`)

One queue; the other eight appear only as an arbitrary delay at the limiter
they share. The n-th save of an entity is the number n, and 0 stands for "no
entry": what matters of a snapshot is which of two is newer.

| state | code |
|---|---|
| `pending`, `batch`, `batchTimer` | `pending`, `batchPending`, `batchTimer` of `TypedQueue` |
| `task`, `todo`, `flight`, `io`, `attempt` | where the goroutines are and which local slices they hold |
| `slots` | the channel of `SharedLimiter` |
| `row` | the database; `landed` and `failed` are history |
| `cancelled` | `ctx.Done()` |

| action | code |
|---|---|
| `Enqueue` | `Enqueue` with its squash and delay rule |
| `DispatchReady`, `DispatchNothing` | a tick of `ProcessLoop`: `checkWarmup`, and taking the ripe entries under `mu` |
| `AddToBatch`, `FillBatch` | one `addToBatch` (under `batchMu`), the second when it fills the batch |
| `DispatchDone` | the loop ends |
| `TimerFires`, `ForceFlush`, `ForceNothing` | the timer goroutine, and its callback or `Flush` under `batchMu` |
| `AcquireSlot`, `Requeue` | `Acquire` in `flushBatchLocked`: a slot, or the context is done |
| `WriteSucceeds`, `WriteDeadlocks`, `WriteFails` | `flushFunc` and the retry loop |
| `FlushAll` | `Flush`, by `ProcessLoop` after the cancel and by main |
| `Cancel`, `Tick` | shutdown; the clock |

Left out: metrics, `IsNewRecord`, the status loop, `Stop` (main never calls it).
A batch timer may fire at any time after it is armed. A statement that is
applied although its error comes back is covered by `WriteSucceeds`: for what
follows only the row matters. The process may end at any point after main has
flushed.

`WriteBehindStore` says what a queue promises to those who save: a set of
snapshots per key, of which one may be forgotten only for a newer one that is
held, each written at most once or given up. It does not promise the order of
the writes, because the code does not keep one: `flushBatchLocked` writes with no
lock held (`typed_queue.go:288`), so a batch that waits for a slot or retries may
land after a later one. `ImplementsStore` maps its `held` to everything `pending`, `batch`
or a goroutine carries.

Runs:

- `queue` - two keys, batches of two, two slots, one retry, two timer
  goroutines, two saves per key, shutdown included. Two of each is enough for a
  batch to fill up, to be flushed by timer, loop and main at once, and for a
  second batch to overtake a first; a third save adds nothing the two-save run
  lacks (it was run once: 11 million states, no error).
- `queue_live` - that saves are prompt and settle: a clock, three delays, a quiet
  time at start, one slot, one timer goroutine; no shutdown. The smallest
  setting in which a later save has a shorter delay than an earlier one and a
  retry or an early entry could wait for ever.

Fairness (`queue_live`): the ticker and the timers of the runtime go on, a
runnable goroutine runs, the database answers. `AcquireSlot` is strongly fair
because Go serves the senders that block on a channel first come first served.
Nothing is assumed of the callers of `Enqueue`. Deadlock is left unchecked in
`queue`, where the process really ends.

### 3.2 FortTracker and FortLifecycle (`decoder/fort_tracker.go`, `gmo_decode.go`, `preload.go`)

Every method of the tracker runs under `ft.mu` and is one action: `Load`
(`loadFortKindFromDB`), `Gmo` (`ProcessCellUpdate`), `Undelete` (`RestoreFort`),
`Forget` (`RemoveFort`). `cells` and `forts` are its two maps, `result` is what
`ProcessCellUpdate` returned; `condemned`, `sighted` and `absent` are history.
The callers are arbitrary: any GMO at any time within the tolerance, late, early
or repeated. The run `tracker` has two forts and two cells, so that forts move,
meet and are shown as both kinds; three time units and two misses are the least
in which one can be given up too early or too late. `tracker_strict` asks when exactly: a fort
goes when the threshold is reached, where a comment has it exceeded (section 6).

`FortLifecycle` EXTENDS it with the goroutines that decode GMOs and with the
records. `Receive` starts a GMO; `SaveFort` and `SaveFails` are the turns of
`UpdateFortBatch`; `CheckCell` is one call of `ProcessCellUpdate` in
`CheckRemovedForts`; `Clear`, `ClearFails` and `RemoveCleared` are
`clearFortWithLock` before and after the unlock; `LoadRow`, `StartServing` and
`Restart` are the start. `Convert` and `Move` are the game's. Simplifications:
no two GMOs bear the same millisecond; forts are shown, and cells checked, in
any order (both are loops over maps); the scan filters that skip gyms or stops
are left out; a restart finds the goroutines idle and the queues flushed.

The run `forts` has two goroutines, two cells, one fort that may move once and
change its kind once, loads that fail, and one restart. One fort is enough: in
the tracker forts share nothing but a cell's time, which the second cell and the
second GMO already move. It shows that the goroutines call the tracker only in
ways that `FortTracker` allows (`UsesTracker`), that a fort the tracker gave up
is always about to be removed (`CondemnedIsHandled`), and that tracker and
records agree between GMOs as long as these come one after another, no fort moves and
none is converted back
(`TrackerAgrees`, where `disturbed` records that they did not, or that a load
failed). `UsesTracker` stops at the first restart: it may load two rows of one
fort, which section 6 explains. Deadlock is left unchecked: the clock is bounded.

### 3.3 RecordCache (`decoder/*_state.go`, `sharded_cache.go`, `tracked_mutex.go`)

One entity. `Creators` call `getOrCreate...Record`: `Create` (`GetOrSetFunc` with
an empty stub), `LockNew`, `Fill` or `FillFails`. `Loaders` call
`get...RecordReadOnly` or `...ForUpdate`: `Get`, on a miss `Query` and `Publish`
(`GetOrSetFunc` with the loaded instance), `Lock`. Both then `Save` and `Finish`,
or `Leave`. `inst` are the structs that are alive, `cached` the one in the
cache, `holder` their mutexes. Of the queue there is what `WriteBehindStore`
promises: `queue` is the set of snapshots it holds; a newer one may replace an
older one (`Merge`), any may be written at any time (`WriteRow`), also after a
newer one, and if the database fails one may be given up (`GiveUp`). `spoiled`
says that the last save was given up or overtaken, so that the row will not get
it. `Expire` needs an entry that nobody has touched for its time to live: an
access prolongs it, and an hour is far longer than a call or than the queue's
delay, so that nobody works on the record and its queue is empty. The pokemon
cache has another rule and is not this module's. The contents of a record are the
set of the changes made to it, so that a lost change shows.

`AtomicRecord` is the promise: a value and changes made to it one at a time, which
falls back to an earlier value only if the last save was spoiled. `IsAtomic` maps
its value to `newest`, what the last save left, or the row once the entry has
expired; a fall back can therefore be seen at an expiry and never before.

The run `cache` has three goroutines: one calls `getOrCreate...`, one
`...ReadOnly` or `...ForUpdate`, one either; so that one works while one waits for
the lock and one loads. Queries and writes fail. `stubbed` says that somebody has
locked a record as a stub, nobody having looked it up: `cache_stub` shows that
this happens (section 6), and nothing is claimed then of what is read or saved
until the entry expires. The run also checks that every call returns, with this
fairness: a goroutine that was called runs on, queries end, and `sync.Mutex` hands
itself over to a waiter after a millisecond, which is why locking is strongly
fair. That a caller may always start another call is not assumed. Deadlock is left
unchecked: the changes are bounded.

### 3.4 WeatherConsensus (`decoder/weather_consensus.go`, `weather.go`, `gmo_decode.go`)

One cell. `Observe` is a whole turn of `UpdateClientWeatherBatch` under the
record's lock: the load of a new record, the timestamp guard, the hour's state,
the vote, `bestCounts` over the map in any order, the publication, the direct
write (which may fail) and the report of a change, which is an entry of the list
that the caller gets (`told` is the last one). `Ignore`, `LoadFails` are its early
returns. `ExpireRecord`, `ExpireState` and `Restart` lose what is in memory. The
row keeps the time in seconds, rounded, the record in milliseconds: a record that
comes back has another time than the one that was saved (`InSeconds`). Display
fields and webhooks are left out; that an observation differs from the last in
them is a free choice (`differs`).

What becomes of a report is not in this module: if pokemon are processed in the
scan and proactive switching is on, the caller starts a goroutine for each
(`decode.go:540-549`), which waits for a semaphore; two of them are not ordered,
and both are lost at exit. One pokemon's part of it is `ProactiveIVSwitch` (3.5).

The run `weather` has three accounts and three conditions - the least with a
leader, a runner-up and a tie among three - seconds of three ticks, so that a time
is rounded up and down, hours of as many, reports up to four ticks late and seven
ticks, so that reports meet the next hour's state and both caches expire. Deadlock
is left unchecked: the clock is bounded.

### 3.5 One pokemon (`decoder/pokemon_decode.go`, `pokemon_process.go`, `spawnpoint.go`, `weather_iv.go`, `stats.go`, `pokemonRtree.go`)

Four modules, each with the part of the state that its hazard is about; the run
`pokemon` (`MC_Pokemon`) has them side by side.

`PokemonLife` - the record `p` as sightings change it. One action per handler,
from its look-up to its save under the record's lock: `WildSighting`,
`NearbySighting`, `Encounter`, `TappableEncounter`, `MapSighting`,
`DiskEncounter`. The parts of the handlers are functions of the record that
bear the names of the code (`SetPokemonDisplay`, `RepopulateIv`,
`RecomputeCp`, `SetExpireTimestamp`, `SetUnknownTimestamp`, `AddEncounter`), in
the order in which the handler calls them. What is not one step of the code is
not one action: a disk encounter that finds no record (`DiskEncounterMisses`)
is kept later (`DiskEncounterKept`), and the proactive switch looks at the
lookup entry (`SwitchLooks`) before it locks the record (`ProactiveIVSwitch`,
`SwitchSkips`). `Reload` gives back what was written: the scans only if
`golbat_internal` is configured. `Forget` is the expiry of a record that has no
row, because pokemon are kept in memory only or the write failed: the pokemon is
new again. (The older row that a failed update leaves is not given back.) Values
are abstracted to the category of the scan they come from, the despawn time to
none, guessed or known, and over or not.

What `detectDitto` decides is `Ditto`'s subject; here `AddEncounter` may leave any
of the records that its verdicts lead to: no ditto (`NoDitto`); a ditto, with the
values of the scan or, where it is boosted unseen, those of an older one or none
at all (`ADitto`, `pokemon_decode.go:722`); or a contradiction that drops the
older scans (`Unexpected`). A ditto has a boost of its own, in partly cloudy weather only.
`odd` marks a record whose values may not be those of what it is now taken for:
after a contradiction, or once it is displayed as another pokemon. A tappable may
name a spawnpoint, a stop, or neither. In the run `pokemon` there are two weathers
that boost, one of them partly cloudy, in `iv_switch` also one that does not: the
code compares weathers and asks whether they boost.

`Despawn` - the same despawn time as arithmetic: `Measure` is
`spawnpointUpdateFromWild`, `WildSighting` and `Encounter` set a time from the
second of the spawnpoint, `NextPokemon` comes after the last one. `ends` is the
truth that Golbat does not know, a measurement is off by up to `Jitter`. In the
run an hour has 14 seconds, the client knows the time for the last 3, and the
clock goes to 46, past the third hour, so that a pokemon follows another twice;
the seconds are those on both sides of the hour's end and the middle.

`Ditto` - `detectDitto`, its history of scans, and what `repopulateIv` gives
out, for one pokemon that really is a ditto or not (`truth`) and is encountered
and seen in any weathers. Where no boost is displayed, the weather of the cell is what
its cached record says (`told`): none, the right one, or one out of date. A scan
that is kept under a wrong one is not what the history takes it for, and counts as
`lost`. The cases of the code stand in its order, with its
names for the transitions (`B0>PP`). The run has levels below, between and above
the two that prove something (5 and 30), values with and without one below 4,
two species, a reroll and reloads. Strong pokemon are left out: the code never
takes them for dittos.

`PokemonTree` - tree, lookup and form counts of one pokemon against saves, loads,
the archiver, expiries of the cache and the callbacks of these, which run in a
goroutine of their own. Two places and two forms: an entry is right or wrong.

`iv_switch` is `PokemonLife` alone, see section 6. Deadlock is left unchecked:
clock and index are bounded.

### 3.6 What handlers share (`decoder/tracked_mutex.go`, `webhooks/`, `decoder/fortRtree.go`)

Three modules, side by side in the run `services` (`MC_Services`).

`LockOrder` - every place in the code that locks a record while it holds another
is an action, named for the two (`PokestopOfPokemon`, `SpawnpointOfTappable`,
...); below the records come the shards of the caches and the mutexes of trees,
tracker, queues, statistics and webhooks. `ConvertFort` locks a gym and a
pokestop of one id in turn, never both. The run has two goroutines and two ids
of each kind, so that two may come crosswise; the proof has any number.

`WebhookSender` - `AddMessage`, a `Tick` that starts a flush nobody waits for,
`GetCurrentCollection`, a `Send` and an `Answer` per receiver, the end of `Run`
and main's `FinalFlush`. A `Send` is the one attempt there is: a request that
cannot be made, or a payload that cannot be marshalled, which takes all messages of
that flush for that receiver with it (`webhook.go:113-116`), is an attempt without
a POST. Two messages, two receivers of which one wants less,
and three flushes: one more than there are messages, since a flush that has
something to send may wait for its receiver for ever.

`FortTree` - one fort in the index, with a record as gym and one as pokestop:
`Load`, `Shown`, `Marked`, `Expire` and its callback `Evicted`, and `Restart`
with the preload.

Fairness (`services`, of the webhooks only): the ticker ticks, a runnable
goroutine runs, `main` goes on once `Run` has returned. No receiver has to
answer: the HTTP client knows no timeout. Deadlock is left unchecked: the
program may end, and messages are bounded.

## 4. What each property is about

| property | a violation would mean |
|---|---|
| `PipelineOrder`, `NewestIsKept` | a squash, merge or flush put an older snapshot over a newer one and lost it |
| `ImplementsStore` | a snapshot vanished, came back or was written twice |
| `EntityIsKept`, `FlushesDrain` | the shutdown lost an entity altogether, or a Flush returned with entries of its own |
| `BatchIsWatched`, `SavesSettle` | entries sit in a batch that nobody will flush |
| `SlotsBalanced` | a path out of `flushBatchLocked` keeps or doubles a slot |
| `SaveIsPrompt` | a save waits longer than it was told |
| `NoOrphans`, `NothingForgotten` | the tracker's maps disagree after a move or conversion |
| `NoHaste`, `NoOverstay`, `NeverWedged` | a live fort is deleted, a dead one stays, a bad time blocks a cell |
| `CondemnedIsHandled`, `TrackerAgrees`, `UsesTracker` | tracker and records drift apart |
| `SameMutex`, `ReadsNewest`, `IsAtomic`, `CallsReturn` | two instances of an entity, a stale read, a change that is lost though its write was neither given up nor overtaken, or lost before the entry expired, a kept lock |
| `CountsAreVotes`, `MajorityIsPublished`, `NoChangeOnTie` | tallies that drift, a majority that is not published, weather that flaps on a tie |
| `RecordIsPublished`, `NeverOlder` | the record, the vote and the last reported change part from each other; the time of the row goes back |
| `IvFitsBoost` | a pokemon, ditto or not, is given out with values it does not have in this weather, or as encountered without any (but for a ditto that is boosted unseen) |
| `VerifiedIsKnown`, `KnownEndIsKept` | a guess is sold as verified, or replaces what was known |
| `VerifiedIsTrue`, `SecondIsStable` | times that are an hour off or a second that flaps, at the end of the hour |
| `CountedOnce` | statistics count a pokemon again when its sighting or weather changes |
| `NoFalseDitto`, `DittoIvIsRight` | a pokemon is announced as a ditto, or a ditto with the values of another boost |
| `IndexAgrees`, `FortIsFound` | a search misses what is there, finds it twice, or finds what has gone |
| `NoWaitCycle` | handlers of related records wait for each other for ever |
| `Conserved`, `AllPosted` | a webhook message is not tried, tried twice, or held up by a receiver that hangs |

## 5. What is proved

For every value of the constants within the modules' named assumptions, among
them the bounds (`MaxWrites`, `MaxTime`, `Timers`, `Instances`, `MaxUpdates`),
which are therefore no restriction. That what a module writes for "none" is not
one of the values (`CellsAssumption` and the like) is all that is assumed of
cells, conditions and places.

`TypedQueue_proofs` - `TypeCorrect`, `LimiterCorrect` (`SlotsBalanced`),
`NoBatchIsOrphaned` (`BatchIsWatched`), `EntriesStayInOrder` (`PipelineOrder`),
`NewestIsNeverLost` (`NewestIsKept`), `SavesArePrompt` (`SaveIsPrompt`),
`NoEntityIsForgotten` (`EntityIsKept`), `TheFlushesDrain` (`FlushesDrain`),
`QueueImplementsStore` (`ImplementsStore`). The invariant is `TypeOK`, `Control` (which goroutine may hold what), the limiter's
balance, `BatchIsWatched`, `SavedOnly` (nothing is carried that was not saved),
`PipelineOrder`, `NewestIsKept`, `RipensInTime`, `EntityIsKept`, `Drained` (who
is past its last look at the batch left it empty) and `FlightsDiffer` (no two
goroutines write the same snapshot). `NewestIsKept` needs
`PipelineOrder`: a merge keeps the later entry, which is the newer one only
because the entries of a key are in order along the way, and that in turn needs
`Control`, which says that before the shutdown only `ProcessLoop` carries
entries from `pending` to the batch. The refinement needs that a snapshot is in
one place only (`OnePlace`, from `PipelineOrder` and `FlightsDiffer`), or a
snapshot would still be held after it was written. The limiter's balance counts a finite set
and uses the library's cardinality theorems.

`FortTracker_proofs` - `TypeCorrect`, `NoFortIsOrphaned`, `NoFortIsForgotten`,
`NoCellIsWedged`, `NoFortGoesInHaste` (an action property) and `StaleFortsGo`.
Every method is first described by what it does to the members of a cell, to a
cell's time and to what is known of a fort; the invariants are shown from these
descriptions. `NoHaste` needs `Accounts` (what the tracker knows of a fort
agrees with its history) and `LoadedUnmissed`.

The second part is about `FortLifecycle`. `StaleIsDealtWith`
(`CondemnedIsHandled`) needs only that a worker has one fort at a time in hand
(`OneByOne`), and holds across restarts. `WorkersUseTracker` (`UsesTracker`) is
a refinement: until a restart every step of the workers is one of the tracker or
leaves it alone. Its invariant `Sound` is that of the tracker with: who works
has a GMO and the load is over, and a fort is loaded once, because until a
restart it has one row. `WorkersKeepTrackerRight` is what follows for the whole
program: until a restart no fort is orphaned, forgotten or overstays, and no
cell is wedged.

`RecordsAgreeWithTracker` (`TrackerAgrees`) holds across restarts. While GMOs
come one after another, no load fails, no fort moves and none is converted back
(`Quiet`), the invariant is `Sound` and `Steady`: at most one worker is at work,
and each fort is where that worker's GMO has brought it. Between GMOs it is
`Settled`: live as just what the tracker knows it as, and not left as what it
was. A fort that the GMO shows is settled until it is saved, then live as it is
shown, and once its cell is scanned tracked as that, with the other record on
the worker's list if it is still live (`SeenAs`); one that the GMO does not show
is settled, or stale and on its way out (`Unseen`). A restart is covered
because, with one conversion and no move, of two rows of one fort at most one is
live (`Single`).

`RecordCache_proofs` - for any mix of callers. `TypeCorrect` and `MutexIsShared`:
who works on an instance works on the one in the cache (`Placed`).
`ReadersSeeTheNewest` (`ReadsNewest`) and `CacheIsAtomic` (`IsAtomic`), with failing
queries and writes, and writes in any order. The invariant says who is past the
lock has it (`Held`), an uncached entity has nothing queued and is what its row
says (`Clean`), a new record is blank and nothing was saved of it (`Blank`), any
other is current unless it was used as a stub (`Settled`, `Reads`), what a loader
read is still the row while nothing is cached (`Published`); snapshots are no
newer than the record and the last save (`Grown`, `Behind`), and the last save is
on its way or in the row unless it was spoiled (`Landed`), which the row never
overtakes (`RowBehind`). `CacheIsAtomic` is a refinement: every step is an update
of the abstract record, a fall back to an earlier value after a spoiled write, or
leaves it as it is.

`PokemonLife_proofs` - `SpecTypeOK`, `SpecIvFitsBoost`, `SpecVerifiedIsKnown`,
`SpecCountedOnce` and `SpecKnownEndIsKept`, for any weathers. Each function of
the record is shown to keep the fit of values and boost (`Fits`, `ValuesFit`, of
dittos too), the time and the kind of sighting; each verdict of an encounter to
give such a record (`Given`); and a handler, which composes them, to save a record
that is `Acceptable`. The invariant adds that the row fits as well (`RowFits`), and that a record whose place is known stays so,
which is why a nearby sighting never guesses over a verified time, and that only
such a record was counted. A record that is forgotten starts anew, and so does its
count.

Its later parts are about `Despawn`, `PokemonTree` and `Ditto` as `MC_Pokemon`
has them. `SecondDoesNotFlap` (`SecondIsStable`) for every length of the hour,
3600 among them: what `Tolerated` lets pass is far away on the circle.
`VerifiedTimeIsTrue` (`VerifiedIsTrue`) for every hour that is longer than twice
the tolerance (`Off`): the stored second is `Near` that of the pokemon that is
there, if it was measured, and `SecondAfter` says what second a step over the
hour's end leads to. `NoneIsMistaken` (`NoFalseDitto`) if levels without a boost
end at 30: the history of a pokemon that is no ditto has one scan at its level
and one five levels above, so that no branch of `detectDitto` that finds a ditto
is taken. `DittoGetsItsIv` (`DittoIvIsRight`) under the same assumption: a scan
of a ditto is low or high (`LowScan`, `HighScan`) by the ditto's boost and is
kept under it (`RightScan`) or, as long as no level and no value tells, under
the disguise's (`WrongScan`). The history has right scans only, or a single
wrong one; in each of the four states of the encounter (00, B0, 0P, PP) and with
each such history `detectDitto` finds no contradiction, and when it calls the
pokemon a ditto it puts the old scan and the new one under the ditto's boost
(`DittoFound`). This is why the branches that guess, and those that say
"must have rerolled", are not taken for a ditto that has not rerolled. The
theorem leaves out, as the property does, a pokemon that has rerolled, one whose
scans were lost by a reload, and one of which a scan was kept under a weather that
was not the cell's: that makes a boosted scan one without a boost.
`IndexFollowsCache`
(`IndexAgrees`) for any places and forms, if "none" is neither: the index
`Holds` the cached record or, until the callback, the one that has expired, and
each of `Add`, `Remove` and `UpdateLookup` leads from one record held to
another.

`WeatherConsensus_proofs` - for any accounts, conditions and hours.
`VotesAreCounted` (`CountsAreVotes`): a vote moves one account from the voters
of one condition to those of another, whose numbers follow by the library's
cardinality theorems; nothing else touches the tally, whatever `BestCounts`
elects. `RowIsNeverOlder` (`NeverOlder`): a record that has been loaded is, in whole
seconds, no older than the row, which survives the rounding (`SecondsRound`), and a
new one is loaded before it is saved. `MajorityWins`
(`MajorityIsPublished`) and `TieChangesNothing` (`NoChangeOnTie`, an action
property) need what `bestCounts` returns, in whatever order the map is run
through (`Elects`): the condition that has most votes, and how many the next
one has. The induction over the order is on a set of numbers: the prefixes of
the order for which the loop's invariant holds contain 0 and with each number
the next, so that there is no least one for which it fails (`NatInductive`).
`RecordShowsConsensus` (`RecordIsPublished`): while no write fails, the record has
what was published, and the last change reported to the caller is to what the
record has; that the pokemon were recomputed is not claimed. `SpecTypeOK`
(`TypeOK`). The conditions are assumed not to include the model's "none", the condition of a state that has
published nothing.

`Services_proofs` - `SpecTypeOK`, `SpecWaitsUpward` and `SpecNoWaitCycle`
(`NoWaitCycle`) for any number of goroutines and records. Locks have ranks
(pokemon, incidents and tappables; other records; shards; mutexes), and a
goroutine waits only for a rank above all that it holds. In a cycle every lock
waited for is held by somebody who waits for a higher one, which four ranks do
not allow. `SpecConserved` (`Conserved`) and `SpecFortIsFound` (`FortIsFound`)
carry the theorems of the next two modules over to `MC_Services`, whose steps
are steps of theirs or leave their variables alone.

`WebhookSender_proofs` - `SpecTypeOK` and `SpecConserved` for any messages,
receivers and number of overlapping flushes, if main's flush is none of a tick's
(`Final \notin Ticks`). A message is for each receiver in one place; the
invariant adds that a flush starts with nothing to send and that a message not
yet added is nowhere.

`FortTree_proofs` - `SpecFortIsFound` for any places (`None \notin Places`). The
invariant says that the index is that of one record (`IsOf`): the cached one, or
the one that has expired and whose callback is to come.

Type correctness of `TypedQueue`, `FortTracker`, `RecordCache`, `PokemonLife`,
`LockOrder`, `WebhookSender` and `Despawn` is proved and not run again. The
theorems of `WebhookSender` and `FortTree` are about each module alone; the run
`services` checks their properties of `MC_Services`, for which `Services_proofs`
states them.

Only model-checked: liveness (`SavesSettle`, `CallsReturn`, `AllPosted`), which
the prover cannot do; and what the four runs that expect a violation refute
(`tracker_strict`, `forts_twins`, `cache_stub`, `iv_switch`).

## 6. Where code and comments part

| run | what happens |
|---|---|
| `tracker_strict` | a fort is given up when its cell's last GMO is just the threshold later than its own (`>=`, `fort_tracker.go:330`); the comment above the function has it later than that (`>`, `:213`), another one (`:317`) agrees with the code |
| `forts_twins` | un-deleting the record of a fort that changed its kind tells the tracker the new kind before the cell is checked, so the conversion is not noticed and the record of the old kind stays live, although `fort_tracker.go:208` says it is marked as deleted. A restart then loads both |
| `cache_stub` | `getOrCreate...` caches an empty stub before it has locked and loaded it; a `...ReadOnly` or `...ForUpdate` call may lock it first and gets a record nobody has looked up, although its comment promises a lookup |
| `iv_switch` | `boostedWeathers&uint8(1)<<NewWeather` (`weather_iv.go:81`) is `(boostedWeathers&1)<<NewWeather` in Go and always 0, so the switch takes a pokemon that the new weather boosts for one that it does not, although `protos.md:44` has the switch follow the weather. What the switch saves is consistent in itself (`IvFitsBoost` holds) |

Limits that were met while modelling, of which no comment promises otherwise.
The properties leave them out, as their comments and the hazards say:

- The verdict "stale" is carried out after the tracker's lock is gone and not
  looked at again: a fort that a newer GMO has shown meanwhile is marked as
  deleted (`fort_tracker.go:646`), until the next GMO. The cells of a GMO are
  checked in map order (`:638`): a fort that moved while nobody looked may be
  deleted before the cell that shows it is checked.
- main's last `Flush` of the queues returns while other goroutines have entries
  in flight, and the process then ends; main's last flush of the webhooks may not
  return at all if a receiver does not answer.
- Batches are written with no lock held, so an older snapshot may land after a
  newer one (`typed_queue.go:288`), and a batch that fails is given up (`:331`).
  The row then lacks the last changes until the next save, or for good once the
  record has left the cache.
- A webhook payload that cannot be marshalled takes with it all that the flush has
  for that receiver (`webhook.go:113`).
- An encounter of a ditto that looks up a weather out of date is kept under the
  wrong boost and its values are given out (`pokemon_decode.go:698`).
- A ditto that is boosted unseen is saved as encountered without values if no scan
  without a boost is known (`pokemon_decode.go:722`).
- A pokemon that has no row, because it was never written, is counted again when it
  comes back.
- A pokemon's cache entry expires at a fixed time even if a goroutine is using it
  (`decoder/main.go:168`).
- A gym and a pokestop of one id share an entry of the index: when the record of
  the old kind is marked or evicted, the entry of the new one goes
  (`fortRtree.go:78`, `:255`). A deleted fort that is loaded on a cache miss
  enters the index (`:117`). A callback of an expiry that comes after the entity
  was got again removes it from the index.
- An encounter counts again once the encounter cache has dropped its entry
  (`stats.go:310`).
- A sighting in the first or last few seconds of the hour in which a pokemon is
  there may be given a despawn time of the wrong hour.
- A weather that could not be written is written when it is published again
  (`weather.go:418`), and a publication that changes no other field is not written
  (`:379`): the row's time is then behind, and once the record was forgotten a
  report older than the last publication may change it; a late report of an account replaces its newer vote
  (`weather_consensus.go:60`).
- PvP ranks stay in the lookup of a pokemon whose values were cleared
  (`pokemon_state.go:179`).

## 7. What is not modelled, and why

`components` in `PROJECT.json` lists every part with the reason. In short:

- Decoding field by field (pokestops, gyms, stations, incidents, routes,
  tappables, players, S2 cells) translates protos into records. A record's life
  is in `RecordCache`, its locks are in `LockOrder`; the fields have no life of
  their own, but for quests (`Expiry`, 2.1) and those that a gym and a pokestop
  of one id share (`SharedFields`).
- Raw intake parses requests and dispatches by method number; its concurrency, a
  goroutine per proto, is what the modules take as given. The API copies records
  into responses.
- The nine batch writers are nine SQL statements: a write of a batch succeeds,
  fails or deadlocks.
- Geofences are geometry on floating point numbers, which TLC does not have. The
  masterfile and `pokemon_preserve.go` are I/O while nothing is served, or one
  swap of a pointer.
- Configuration, logging, metrics, utilities and generated code have no state
  that a model could go wrong on. The generated protobuf code in `pogo/` and
  `grpc/` is about nine tenths of the lines of the repository.
- Where a modelled part is left incomplete, its note says so: PvP ranks, sizes and
  moves of a pokemon, display fields of weather, the status loop of the queues,
  the scan filters, the tables of the statistics.
