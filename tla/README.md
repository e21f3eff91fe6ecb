# VMemKV: TLA+ models, model checking and proofs

This directory holds TLA+ specifications of VMemKV, an embedded two-tier
key-value store (`src/implementation/vmemkv`). T1 is an in-memory,
range-sharded index from keys to 64-bit payloads; T2 is an append-only,
memory-mapped flat file of records; a write-ahead log (WAL) makes single
operations durable; a checkpoint makes T1 and T2 durable and lets the WAL be
cut; a defragmenter moves live records out of sparse T2 segments and punches
holes. All of it runs concurrently with client threads.

Paths below are relative to `src/implementation/vmemkv`.

## 1. The parts of the system

| Part | Source | State | Operations | Shared with |
|---|---|---|---|---|
| T2 flat file | `src/t2_flat_file` | `bytes_used`, `base_boundary`, the mapping | append, in-place update, read | checkpoint, defrag |
| Writer gate | `t2_flat_file.hpp` `WriterGate` | `stop_`, `writers_` | acquire, stop_and_wait, resume | appends, checkpoint |
| T2 ownership | `src/vmemkv/t2_ownership.hpp`, `hooks.hpp` | watermark, in-place barrier, live bytes per segment | claim, drain, enter, note_replace | in-place updates, checkpoint, defrag |
| Write path | `src/vmemkv/write_path.hpp`, `vmemkv_impl.hpp` | 256 key stripes | insert, update, remove, bulk_load | everything |
| Read path | `src/vmemkv/read_path.hpp`, `vmemkv_impl.hpp` | none | get, scan | T1, T2 |
| T1 shard | `src/t1_index/t1_index.hpp` | sorted region, append regions, freeze flags, epochs | put, lookup, scan, reorganize | writers, readers, maintenance |
| Sharded T1 | `src/t1_index/sharded_t1_index.hpp` | shard directory, maintenance queue | put, resolve, split, checkpoint_all_shards | writers, checkpoint, workers |
| Reference tracking | `src/core/reference_tracker.hpp` | one slot per thread | acquire, release, wait | gate, barrier, epochs |
| WAL | `src/wal` | pending ring, leader flag, two segments | reserve, await_durable, rotate, replay | writers, checkpoint, recovery |
| Checkpoint files | `src/checkpoint` | T1 checkpoint, manifest | write via temp and rename, read | checkpoint, recovery |
| Checkpoint coordinator | `src/vmemkv/checkpoint_coordinator.hpp` | single-flight flag, counters | checkpoint, reorganize, wait | all |
| Defragmenter | `src/vmemkv/defrag_controller.hpp` | queued victims | select, relocate, punch | writers, readers, checkpoint |
| Recovery | `vmemkv_impl.hpp` | none | load checkpoint, replay | all files |
| Background workers | `vmemkv_impl.hpp` | two threads | reorganize, defragment | coordinator, defrag |

## 2. Modules and the code they model

Each action stands for one atomic step of the code: what lies between two
accesses to shared state that another thread can tell apart. Variables carry
the name of the member they stand for; `PROJECT.json` ("map") gives the source
lines of every definition. Definitions whose comment begins with "Mutant" are
no part of a specification: each is a plausible bug that some property must
catch.

| Module | Models | Composed with |
|---|---|---|
| `T2Capture` | appends through the writer gate, in-place updates behind watermark and barrier, removes, `checkpoint_internal()` | |
| `T2Read` | `get_impl()`: base read without protection, seqlock read | extends `T2Capture` |
| `T1Index` | one shard: put, get, scan, reorganize | |
| `ShardedT1` | directory, routing, maintenance queue, split, dump | abstracts `T1Index` |
| `DurableLog` | what callers may rely on of the log | |
| `Wal` | group commit, failure, rotation, crash and reopening | implements `DurableLog` |
| `Recovery` | what is on disk after each step of a put and a checkpoint, and what the constructor makes of it | relies on `DurableLog`, `T2Capture` |
| `Defrag` | cycles of relocation and hole punching | relies on `T2Capture`, `Recovery` |
| `ReorgFlight` | who runs a cycle, and when | abstracts the cycle |
| `T2CaptureProofs`, `T2StoreProofs` | proofs about `T2Capture` and `T2Read` | |
| `T1IndexProofs` | proofs about `T1Index` | |
| `WalProofs`, `WalLogProofs`, `WalTheorems` | proofs about `Wal` and `DurableLog` | |
| `RecoveryProofs` | proofs about `Recovery` | |
| `ReorgFlightProofs` | proofs about `ReorgFlight` | |
| `MC*` | instances for TLC | |

All models assume sequentially consistent memory.

**T2Capture.** A writer takes the key's stripe, looks the key up, and either
appends (`gate`, `register`, `check`, `reserve`, `write`, `publish`, `release`,
`log`) or updates in place (enter the barrier, compare with `base_boundary` and
the watermark, version odd, two words, version even, log), falling back to an
append when the record is frozen or too small. The checkpoint thread raises
`stop_`, walks over the registered slots, captures the target, lets writers go,
claims the watermark, drains the barrier, msyncs record by record, publishes T1 and
manifest, advances `base_boundary`; `msync()` and the publish can fail and
then revert the watermark. The kernel writes back any page at any time. The
walk over the slots takes them in any order, and may leave out those that
were empty when it began: their chunk may not have existed. T1 is an atomic map, the log is the last
record reserved for a key, a stripe is the lock of one key. Taking the lock
and the lookup are one step; writing a fresh record is one step, separate from
reserving its space and from publishing it. Values small enough for T1 itself
never reach T2 and are left out.

**T2Read.** A reader looks up, reads `base_boundary`, and then reads two words,
unprotected below the boundary, under the version above it. Below the
boundary the code may read from either mapping or by `pread`; all of them show
the same file, so they are one action, and a fall-back to the seqlock is always
possible. A scan reads each record of a batch the same way.

**T1Index.** The n-th `reorganize()` replaces regions n by n + 1. A put
resolves (active, then the frozen and sorted regions with their bypass), stores
inside the slot's seqlock, resolves again, and appends when it finds nothing. Two puts
of one key never overlap because callers hold the stripe, so the CAS succeeds
and the hash index displaces nothing (`NoDuplicateSlot`). Loading a region
pointer and searching that region is one step, a reader's seqlock two, the
walk of a scan one per region. `reorganize()` freezes, drains, merges entry by
entry, publishes, drains and deletes. No two keys share their 16-byte prefix,
by which the code's scan tells keys apart (section 6).

**ShardedT1.** The n-th put stores n, the tombstone of a delete -n. A call
takes a routing guard, resolves (spinning on a closing shard if it writes),
acts, and re-checks `superseded`. A get loads the sorted region first
(`LoadRegions`) and then looks into the active, the immutable and that sorted
region one after the other, as `lookup()` does; `passed` notes whether a merge
froze or published meanwhile. A merge keeps the sorted copy of a key whose
tombstone it drops, as `collect_live_entries()` and the merge loop do. A worker
dequeues a shard, merges it, and splits it when it is large: Closing, purge the
queue, merge once more, publish the Split (or abort, when too few entries are
left), swap the directory, drain the routing epochs, wait for references,
delete. The checkpoint pauses splits and merges each shard it references; what
its dump writes is the matter of `Recovery`. Directory load and binary search
are one step.

**Wal.** A record is its LSN, a segment a sequence of LSNs with 0 for torn
bytes. Reservation (fetch-add, CAS into the ring), election by exchange,
collection slot by slot, write and sync (and truncation after a failure),
settling, retiring, release with re-check, the time-out of a follower, the
sweep of a failed leader and the steps of `rotate_segment()` are actions. When
the truncation after a failed round fails, too, any part of the round stays in
the file, up to all of it, with or without a torn record behind it. A writer
is an outstanding record: a thread that reserves several before it awaits them
counts once for each.
`Crash` combines a crash at any step with `Wal::Wal()`: the valid prefix of
each segment is kept, the next LSN follows the last record of the newest
non-empty segment, and a torn tail in a retired segment makes the constructor
throw (`"down"`). `home` remembers the segment each durable record was synced in;
a crash removes from it, and from `acked`, the records of deleted segments and,
when there are torn bytes, those younger than a record that failed.

**Recovery.** T2 holds records by offset; a crash loses any subset of those
not yet synced and any suffix of the reserved WAL records. The T1 checkpoint and
the manifest are each written to a temporary file, synced, and renamed, in
three steps; a file that took its name unsynced is torn by a crash, and one that
was never written is absent. `Restart` reads the manifest, adopts the T1
checkpoint and T2 up to `t2_bytes_used`, and replays all segments one record at
a time, in the order of their positions (generation, then place in the
segment); a second crash may fall into the replay. The shards of the T1 dump
are keys, dumped one at a time while writers and merges go on: a shard has a
sorted entry and, while a merge is in progress, a frozen one. `DumpShard` writes
the sorted entry if the append region is empty, and so without what a merge in
progress has frozen; otherwise it waits for that merge and merges itself. In-place
updates never touch what a checkpoint covers (`T2Capture`) and are left out.

**Defrag.** Space is counted in blocks; a record may start in one segment and
end in the next. Append with `note_replace()` is one step, the T1 put with
the WAL reservation the next, and for a remove the other way round, as in the
code. A cycle punches what the last one queued, decides, selects, collects,
relocates under the stripe, waits for its log records, and queues what is
empty. The scan of T1 that collects a victim's records is one complete look.
The checkpoint renames the T1 file and then writes the manifest, with a step in
between. An append that finds no room has already taken its space: the call
throws, `bytes_used` stays past the end, a cycle that was relocating unwinds, and
a checkpoint is given up from then on. There is no crash action: `Recovered(k)`
is what a crash in this state would leave, and the properties compare it with
the present.

**ReorgFlight.** A cycle is capture, dump, commit, rotate; a `merge_t1()` only
dumps. T1 is one shard: `dirty` is `append_size() # 0`, the active region only,
and `merge` says whose merge has frozen a region and not yet published: one of
T1's own workers, the cycle's, or one that an exception left unfinished. The
dump passes over a shard that is not dirty and otherwise spins until the merge
is its own. `Write` is a write that runs the check of the WAL's size,
`WriteQuiet` an in-place update or a remove, which does not. `owed` holds the
calls that no cycle of their own time has served.

## 3. Runs

| Run | Instance | What it shows |
|---|---|---|
| `t2_capture` | 2 writers, 2 keys, records of 1 and 2 units, capacity 3 | `CaptureQuiescent`: the captured target is a fully written frontier. `NoInPlaceBelowTarget`: msync reads nothing that is being rewritten. `BaseDurable`, `BaseImmutable`, `BoundaryMonotone`: what manifest and boundary vouch for is on disk, untorn, and never changes, across aborted cycles. `LogFollowsStore`: log order and store order agree per key. `NoDanglingOffset`: T1 names only complete records. `TypeOK`. |
| `t2_read` | a writer and a reader of 1 key, endless cycles | `GetAtomic`: no torn value, and none that the key did not have during the call. `CycleEnds`: both drains of a checkpoint end, whatever step a writer has reached. |
| `t1_index` | 2 writers, 2 keys, deletes, 2 reorganizations, regions of 1 slot | `LastPutWins`: no returned put is lost to a merge that had read its slot. `NoUseAfterFree`: epochs protect every region in use. |
| `t1_read` | a writer, a reader, 1 key, 1 reorganization | `RegularRead`, `NoUseAfterFree` with readers, `NoDuplicateSlot`, and `CallsEnd`: every call and both drains end. |
| `sharded` | a writer, 2 workers (symmetric), a checkpoint; 2 keys, 2 puts; regions of 1 slot; one split | `NoUseAfterFree` of shards between the workers, `LastPutWins`, `RangeOwned`, `NoLostMaintenance`. |
| `sharded_live` | a writer, a reader, a worker, a checkpoint; 2 keys | `ReadFresh`: a get that looks at the regions one by one. `PutsEnd`, `SplitsEnd`: spinning writers and the waiting split do not block each other. |
| `wal` | 2 writers, a rotator, a ring of 2, 3 records, 3 segments, failing write, truncate and open, 1 crash | `OneLeader`, `RingMatches`: a leader or a sweep finds the record it looks for in its slot, `LogOrdered`, `AckedRecoverable`; `PromiseKept` is the refinement of `DurableLog`; `AppendsEnd`: no follower is stranded. |
| `recovery` | 2 keys, 2 puts, 3 cycles, merges, 2 crashes | `AckedSurvives`: acknowledged values survive, with the exceptions of section 6. `ManifestDurable`: the manifest promises synced bytes only. `Reopens`: no crash, between the write, sync and rename of a file either, leaves a manifest with a T1 file that the constructor refuses. |
| `recovery_segment` | a crash also inside `rotate_segment()` | violated, see section 6. |
| `defrag` | a writer, 2 keys with a record over two segments, 3 cycles, 2 checkpoints | `Accounting` is exact, `LiveIntact`: nothing live is punched, `Quarantine`: nor anything named since the cycle began, `CrashKeepsValue`. |
| `defrag_move` | the same | violated, see section 6. |
| `flight` | 2 callers, a worker, writers, merges of T1's workers, 3 calls, 1 failure | `OneCycle`, `ReturnMeansDone`: a checkpoint is served by a cycle that began after the call, and a merge leaves nothing of before the call in the active region; `CallsReturn`, `PressureResolved`. |

Every property of a passing run has a mutant of the modelled code that TLC must
find to violate it.

**Why the bounds are enough.** They are named in the guards ("bound, not in the
code"). Each protocol is between one background thread and any number of
clients that do not wait for each other except through a stripe, so two
clients give every pair of steps; two cycles are needed for state that one
leaves to the next (frozen regions, a reverted watermark, a quarantined
segment, segments two generations back), and the runs have two or more, except
`t1_read` and the split of `sharded`, whose state is fresh each time. A ring of
2 with 3 records wraps around. Capacity 3 with records of 1 and 2 lets updates
grow out of their place and appends fail. `MaxVersion` and `VersionMod` let a
version wrap in `t2_capture`; `t2_read` has versions that do not wrap, as a
64-bit one never does during a read. It has one key, whose stripe admits one
writer at a time, so its one writer makes all the calls that several would make
one after the other; `GetAtomicCorrect` is about any number. `Wal` is checked
with as many outstanding records as slots and `Defrag` with a budget no cycle
exhausts (section 6). `sharded` has two workers, so that one may meet the shard the
other splits, and no reader; a get takes the same routing guard as a put, and
`sharded_live` has one. `flight` has three calls: that a caller loses again and
again is bounded by them.

`CHECK_DEADLOCK FALSE` is set where a bound, a poisoned log or a store that
refuses to open really ends the behaviour; `t2_capture`, `t2_read` and
`flight` run for ever and are checked for deadlock.

**Fairness.** Weak fairness for each thread that is inside a call, for the
checkpoint once begun, and for workers, which poll: the operating system
schedules runnable threads and nothing else is assumed. Nothing obliges a
client to make a call. Of the merges of T1's workers only the end is assumed,
not that they begin. `CallsReturn` has as premises a worker that becomes idle,
no merge left unfinished by an exception (`NeverStuck`), and that the cycle wins
its shard at last from T1's workers (`SpinWins`, strong fairness of a spin that
can lose every time); `PressureResolved` has the last two, and writes that run
the check going on. The code needs all of them (section 6). `sharded_live` has
regions that never fill.

## 4. Proofs

TLAPS checks the following for every value of the constants: any numbers of
writers, keys, values and callers, any record lengths and capacity, any ring
size, and any numbers of records, segments, reorganizations, cycles and crashes.

| Theorem | Module | Statement |
|---|---|---|
| `TypeCorrect` | `T2CaptureProofs` | `Spec => []TypeOK` |
| `CaptureCorrect` | `T2CaptureProofs` | `Spec => []CaptureQuiescent` |
| `DrainCorrect` | `T2CaptureProofs` | `Spec => []NoInPlaceBelowTarget` |
| `BoundaryCorrect` | `T2CaptureProofs` | `Spec => BoundaryMonotone` |
| `BaseImmutableCorrect` | `T2CaptureProofs` | `Spec => BaseImmutable` |
| `LogFollowsStoreCorrect` | `T2StoreProofs` | `Spec => []LogFollowsStore` |
| `NoDanglingOffsetCorrect` | `T2StoreProofs` | `Spec => []NoDanglingOffset` |
| `BaseDurableCorrect` | `T2StoreProofs` | `Spec => []BaseDurable` |
| `GetAtomicCorrect` | `T2StoreProofs` | `SpecRead => []GetAtomic`, if the version of a record does not wrap |
| `NoUseAfterFreeCorrect` | `T1IndexProofs` | `Spec => []NoUseAfterFree` |
| `NoDuplicateSlotCorrect` | `T1IndexProofs` | `Spec => []NoDuplicateSlot` |
| `TypeCorrect` | `ReorgFlightProofs` | `Spec => []TypeOK` |
| `OneCycleAtATime` | `ReorgFlightProofs` | `Spec => []OneCycle` |
| `ReturnIsService` | `ReorgFlightProofs` | `Spec => []ReturnMeansDone` |
| `OneLeaderCorrect` | `WalProofs` | `Spec => []OneLeader` |
| `RingMatchesCorrect` | `WalTheorems` | `Spec => []RingMatches` |
| `LogOrderedCorrect` | `WalTheorems` | `Spec => []LogOrdered` |
| `AckedRecoverableCorrect` | `WalTheorems` | `Spec => []AckedRecoverable` |
| `PromiseCorrect` | `WalTheorems` | `Spec => PromiseKept` |
| `AckedSurvivesCorrect` | `RecoveryProofs` | `Spec => []AckedSurvives`, if no crash falls between the steps of `rotate_segment()` |
| `ManifestDurableCorrect` | `RecoveryProofs` | `Spec => []ManifestDurable` |
| `ReopensCorrect` | `RecoveryProofs` | `Spec => []Reopens` |

**Assumptions.** Those the modules declare: record lengths are positive, the
capacity is a natural number, `Nil` is no key, value or writer, the worker is no
caller, a thread of `T1Index` is a writer or a reader, and the bounds are natural
numbers. `Wal` adds `RingAssumption`: there are no more outstanding records than
ring slots. The capacity is 4096; a client has one record outstanding and the
defragmenter up to 1024 (`defrag_controller.hpp:354`). Without it the slot check
can fire (section 6); all theorems of `WalTheorems` rest on it,
`OneLeaderCorrect` does not.
TLC evaluates the assumptions in every run. `AckedSurvivesCorrect` has the
hypothesis `"unlink" \notin CrashSteps`: the process does not die after
`rotate_segment()` has opened the new segment and before it has unlinked the
old one. Without it the statement is false, which is what `recovery_segment`
shows (section 6); the other two theorems of `RecoveryProofs` do without.
`GetAtomicCorrect` has the hypothesis `MaxVersion < VersionMod`: a version that
returned to an earlier value during a read would hide the updates in between,
and a 64-bit one does not.

**T2Capture.** None of the properties is inductive. `TypeInv` adds to `TypeOK`
what a writer's locals are at each step. `CaptureInv` has four parts.
`GateInv`: a thread holds a handle only while registered, and during the walk
every holder is still to be visited; a thread that registers behind the walk sees
`stop_` in its second look and never becomes a holder. `AppendInv`: what is
reserved lies between `base_boundary` and `bytes_used`, and from the capture on
nothing unpublished lies below the target. `OwnInv`: the barrier names the
offset from before the boundaries are read until the update is logged, and
during the drain every writer below the target is still to be visited.
`BoundaryInv`: manifest and boundary differ only between the publish and the
advance, and an abort reverts to the boundary in force. From these follow
`CaptureQuiescent`, `NoInPlaceBelowTarget` and `BoundaryMonotone`. `SyncInv`
says which records below the target are already equal on disk during the msync;
with `CaptureInv` it gives `BaseImmutable`. `ContentInv` follows the contents:
`LockInv` (one writer per stripe), `FreshInv` (an
unpublished append owns its offset alone), `NameInv` (T1 names records of the
key, inside what is used), `ProgressInv` (what a
writer has written so far), `UntornInv` (a half-written record has a writer in
it) and `LogFollowsStore`. It gives `NoDanglingOffset` and, with `SyncInv`,
`BaseDurable`. The step lemmas have one step per action.

**T2Read.** `VersionInv`: the version of a record is odd exactly while one writer
rewrites it. On top of it and of the invariants of `T2Capture`, `ReadInv` says for
each get what it relies on: the record it found stays the key's and nobody
appends there again, and while the version is even its value is one the key has had
since the lookup (`Located`); the words copied so far are the record's as long as
the version is the one read first, versions only grow, and a record read without
protection lies below `base_boundary`, where `BaseImmutable` and `UntornInv`
keep its words as they are (`Copied`).

**T1Index.** Two inductive invariants.

- `ReclaimInv` is about reclamation. `PhaseInv`: which generation each region
  pointer names at each step of `reorganize()`. `EpochInv`: a thread inside a call
  is registered under the epoch it read on entry, which may be an old one by then,
  and one outside is not registered. `HoldInv`: a thread holds only pointers to
  regions that are not deleted, and one that the second drain has passed (`Passed`)
  only pointers above `oldest`, so that the deletion leaves it nothing to lose.
  Registering (`Enter`) is the step that needs care: it may put a thread with an
  old epoch behind the walk, but such a thread holds no pointer yet (`Bare`) and
  takes those that are in place, which are above `oldest` from the publish on.
- `ShardInv` is about slots. `Putting`: a put has the key's stripe, and once it has
  missed the key in the active append region, the key is not in the region's index,
  nor in that of the region it appends to, until the put enters it there; a swap
  in between does no harm, since the index of a fresh region is empty.
  `NumberInv`: no slot number is given out twice. `SlotInv`: each slot of an append
  region is the one its index names for the key, or belongs to a put about to
  enter it. The two exclude each other, and the stripe admits one such put, so
  there is one slot per key.

**ReorgFlight.** `FlagInv`: at most one thread is in a cycle, and only while
`running` is set. `ServedInv`: a caller that dumps for a checkpoint was captured
by its own cycle, and one past the commit is owed nothing; with an empty active
region no merge is owed, nor to a caller that has frozen it. So what
`ReturnIsService` says of `merge_t1()` is about the active region, as far as the
code goes (section 6).

**Wal.** The invariant is `LeaderInv /\ RingInv /\ LogInv`, and every step of it
is a lemma per action.

- `LeaderInv` is `OneLeader` with the types of `flushing` and `pc`; it is
  inductive by itself.
- `RingInv` accounts for every LSN. `Done` is the first one not yet retired:
  next_to_flush_ less the batch, or all of it once the batch is settled and its
  slots are being freed. `OwnerInv`: each LSN from `Done` to `nextLsn` belongs
  to a writer inside its call, so with `RingAssumption` there are at most
  `RingCap` of them (`Outstanding`, a pigeonhole argument over cardinalities).
  `SlotInv`: a slot holds a record of this window. Two records of one slot are a
  multiple of the capacity apart (`SlotGap`), so the next record's slot is free
  or its own, for a leader that collects and for a sweep, whose batch is empty:
  `RingMatches`. `BatchInv` and `WriterOK` say what the batch
  and a writer's locals are at each step.
- `LogInv` follows the files. `Tried` is the first LSN no round was tried for.
  `HomeInv`: what is durable or failed lies below `Tried`, nothing is both, later
  records are in later segments, a writer past its round has its record durable
  or failed, and what is acknowledged is durable. `SegInv`: a segment holds
  tried records only (failed ones may be among them, when the truncation failed),
  and torn bytes only after a failure. `LocatedInv`: each
  durable record is in its segment, before any torn bytes unless an older one
  failed. With `LogOrdered` these are inductive; a round writes the LSNs from
  `Tried` on, above everything in the files.
- The crash is one step that changes everything.
  `ValidLength` and `NextLsnBound` say what `scan_and_validate()` and the choice
  of the next LSN return: the prefix before the first torn bytes, and a number
  above every record kept. `KeptFound` shows that each record the history keeps is
  in such a prefix on disk, `CrashRing` and `CrashLog` that the invariant holds
  again, also in a log whose constructor threw.
- `PromiseCorrect` maps `durable` to the records with a `home` and `failed` to
  `error`. A written round is `Commit`, a failed round or a swept record `Fail`,
  a normal return `Ack`, the constructor after a crash `Reopen` from the oldest
  record whose segment is not deleted (`FirstKept`); all other steps stutter.

**Recovery.** `AckedSurvives` speaks of memory while the store is up and of
what the replay has built at its end; the invariant says for each key that is
not `risky` where its value is in between. A key becomes risky when a crash finds
a put of it in flight, when it is deleted while its shard is being merged, and
when a dump misses its frozen entry although no record of it will outlive the
rotation; a dump that misses an entry the log still has keeps the invariant.

- While the store is up (`UpInv`): what a get answers is the latest put,
  whatever stage it has reached (`MemInv`); if the log has records of the key,
  the last one is the value acknowledged last (`LogInv`); if it has none, and no
  put is in flight, the checkpoint names the key's present record and covers it
  (`CoverInv`). A rotation removes records, so `CycleInv` prepares `CoverInv` from
  the capture on: a key without a record in the active segment is below the
  target, then in the dump, and at the unlink a key without a record in the last
  two segments is in the checkpoint. A cycle that fails leaves the segments alone,
  so the next one starts from `CoverInv` again. `PendingInv` says that a key with
  reserved records has a last one, for every prefix a round or a crash may
  take.
- While it is down (`DownInv`): the last record of the key says a value the
  crash allowed, or there is none and the checkpoint says one. A crash puts what
  the invariant of a running store gives into `may`; a crash during the replay
  changes nothing in the log, and in T2 nothing below the manifest.
- During the replay (`ReplayInv`, `OrderInv`): what was replayed comes before
  all that is left, and a key has the value of its last record that was
  replayed, or the checkpoint's. At the end no record is left, so this is the
  log's last record (`AllReplayed`).

`SegType` bounds the generations on disk: two, and three only between the steps
of `rotate_segment()`. This is the only place where the hypothesis on
`CrashSteps` is used: a crash there would leave the third behind. `FilesInv`,
which does not need it, follows the temporary file through write, sync and rename:
what takes a name is synced (`temp`), the T1 file has its name when the manifest
is written, and the manifest is never above what was synced. So no file with a
name is ever unsynced, and a manifest is never without its T1 file, also after
a cycle that failed half-way; this gives the other two theorems. `RegionInv`
types the regions, which all other conjuncts do without.

**Only model-checked.** Liveness (fairness and ENABLED are out of the prover's
reach): `CycleEnds`, `CallsEnd`, `PutsEnd`, `SplitsEnd`, `AppendsEnd`,
`CallsReturn`, `PressureResolved`. Of the safety of a shard, `LastPutWins` and
`RegularRead`; the safety of the sharded index and of the defragmenter. Nothing
there is out of reach in principle, but each needs an invariant of its own that
has not been worked out. TLC also checked the conjuncts of `LogInv` with two
crashes on the instance of `wal`, and those of the invariant of `Recovery` on
the instance of `recovery`, before they were proved.

## 5. Reading the results together

A checkpoint captures a complete frontier (`T2Capture`), which stays as it is
for ever; so `Recovery` and `Defrag` may treat records below the manifest's
boundary as constants. The log keeps its promise (`Wal`), so they may treat a
round of group commit as one step. One cycle runs at a time (`ReorgFlight`), so
every other module has one checkpoint thread. Two puts of a key do not overlap
(`LogFollowsStore` needs the stripe), so `T1Index` has one put per key. A shard
behaves as three maps (`T1Index`), so `ShardedT1` has them as maps. These links
are arguments about the interfaces, not proofs; that the log implements
`DurableLog`, that the stores of two writers follow the log, and that recovery
finds what was acknowledged, are proved.

## 6. Where code and documentation disagree

Two disagreements are runs of their own; TLC shows the behaviour.

- `recovery_segment`: `rotate_segment()` unlinks exactly the generation two
  back. If the process dies after the new segment is opened and before the
  unlink, no later rotation looks at that generation again, and a replay much
  later reverts a key to its record. `wal.cpp:596` says it is safe when the
  generation "was already deleted by an interrupted prior cycle".
- `defrag_move`: a T1 dump can name the copy of a record that is being moved,
  above the manifest's boundary and before the move is logged; a crash then
  loses an acknowledged value that nobody was writing. The comment in
  `defrag_controller.hpp` says that replay "rebuilds T1 against the intact old
  bytes".

The following were met while modelling. The passing runs leave them out, in
the way each item says.

- `t2_flat_file.cpp:85`: an append that fails on capacity keeps its space in
  `bytes_used`; a later target lies past the mapping and its msync fails, while
  `checkpoint_coordinator.hpp:124` calls the target a fully written frontier.
  `CaptureQuiescent` speaks of appends that go on.
- `t1_index.hpp:243`: a get loads the sorted region first and the immutable one
  last, while `reorganize()` publishes in that order; it may miss a key or
  return the payload before the last (`t1_index.hpp:273` promises the latest). `RegularRead`
  leaves out reads over a publication, `ReadFresh` the answers of a sorted region
  that was replaced after the get had loaded it.
- `t1_index.hpp:1045`: a tombstone put while the key is in a frozen region is
  dropped by the next merge, and the copy in the sorted region returns
  (`t1_index.hpp:1149`). `LastPutWins`, of a shard and of the sharded index,
  leaves out deleted keys, and so do `ReadFresh` and `AckedSurvives` where a merge
  was in progress.
- `t1_index.hpp:537`: a scan that meets entries in an append region tells
  candidates apart by their 16-byte prefix alone and reports one of several keys
  that share it, while the walk of a sorted region (`:432`) reports all. The
  defragmenter collects what it moves with such a scan. In `T1Index` and
  `Defrag` no two keys share a prefix.
- `t1_index.hpp:686`: if the checkpoint writer throws inside `reorganize()`, nothing
  resets `reorg_in_progress_` and the frozen pointers: the shard is never
  merged again, and a later checkpoint that finds entries in its active region
  spins for ever in `reorganize_until_captured()`. The handler of the exception
  (`checkpoint_coordinator.hpp:232`) reverts the watermark only. `CallsReturn` and
  `PressureResolved` have `NeverStuck` as a premise.
- `t1_index.hpp:386`: a put turned away from a frozen slot ends the seqlock with
  the new payload and the old hash (`t1_index.hpp:345`). Properties look at
  payloads only.
- `sharded_t1_index.hpp:689`: entries on both sides of the middle may share the
  16-byte prefix that becomes the boundary (`:480`). The instances have
  distinct prefixes.
- `sharded_t1_index.hpp:361`: a shard whose entries a merge in progress has in
  the immutable region is dumped without them. The comment there (`:352`) says that
  this is "WAL-covered"; it is not when the records were logged before the
  previous rotation, as those of a merge that lasts over two cycles are. Without
  the exception in `AckedSurvives`, TLC finds an acknowledged value lost this
  way within the bounds of `recovery`.
- `sharded_t1_index.hpp:683`: an aborted split touches its slot after another
  worker may split and delete it (`:614`). `NoUseAfterFree` is checked with two
  workers and leaves out a worker at this step (`"unpend"`).
- `sharded_t1_index.hpp:133`: a put that retries on a full region inside its
  guard and the only worker, which waits for that guard, block each other
  (`:107`). `PutsEnd` is checked with regions that never fill.
- `wal.cpp:266`: with more outstanding records than ring slots, two producers
  compete for one slot, the later record may get it, and the check of the slot's
  LSN fires and poisons the log. `wal.cpp:243` says that the bound of
  `collect_batch()` makes reuse safe, and `wal.hpp:178` that the capacity is "NOT
  what makes wraparound safe". It is the other way round: with records that fit
  the ring the bound never cuts a round short, and beyond that it does not help.
- `wal.cpp:281`: when `fstat()` fails, a failed round truncates the segment to
  length 0, with all acknowledged records in it (`wal.cpp:276`: "back to the batch's
  starting length"). `fstat()` does not fail in the model.
- `wal.cpp:308`: when `fdatasync()` and the truncation both fail, records that were
  reported as failed stay in the file and come back at the next start
  (`wal.cpp:276`: "a failed record can never resurface"). The model has this;
  `DurableLog` promises nothing of failed records after a restart.
- `wal.cpp:351`: when `collect_batch()` throws, records already collected are
  settled without an error and acknowledged (`wal.hpp:202`). Allocation
  failures are not modelled.
- `wal.cpp:347`: after a failed write and a failed truncation, records already
  reserved may be written behind the torn bytes and acknowledged
  (`wal.hpp:65`). `AckedRecoverable` and `DurableLog` leave out records after a
  failed one.
- `vmemkv_impl.hpp:618`: replay ignores `checkpoint_lsn`, so a bulk-loaded key
  with an older record in a retained segment is reverted
  (`low_level_design.md:416`). The instances bulk-load keys without one.
- `checkpoint_coordinator.hpp:178`: the dump runs after writers were let go; a
  key with a put in flight at the crash may lose its acknowledged value
  (`why_vmemkv_does_not_need_undo_log.md:48`). `AckedSurvives` leaves out keys
  with a put in flight at a crash.
- `checkpoint_coordinator.hpp:328`: `merge_t1()` returns at once when every active
  region is empty, and its dump passes over such a shard, while a merge of T1's
  workers still has entries of before the call in the immutable region; `:292`
  promises "every shard fully merged before this call returns".
  `ReturnMeansDone` speaks of the active region.
- `checkpoint_coordinator.hpp:84`: the delay past the threshold is "bounded by
  kWalCheckStride writes' worth of bytes", but in-place updates and removes
  (`vmemkv_impl.hpp:412`, `:438`) grow the WAL without the check; a load of only
  these is never checkpointed. `PressureResolved` has as a premise that writes
  with the check go on.
- `defrag_controller.hpp:244`, `:361`: a cycle that ends on its budget has not
  waited for the stripes of all it collected, and a record that ends in a
  queued segment may stay. The run's budget is never exhausted.
- `defrag_controller.hpp:419`: one cycle of quarantine does not bound a reader
  that takes longer than until the next cycle's punch. `Quarantine` speaks of
  one cycle.
- `vmemkv_impl.hpp:239`: `defragment()` may loop for ever when the worker finds
  punching unsupported after the call's first look.
- `vmemkv_impl.hpp:693`: the worker clears a request before it tries the flag,
  and loses it if a caller's cycle runs; the next sampled write asks again
  (`PressureResolved`). A caller may starve behind a worker that always has
  requests (`CallsReturn`), and a cycle that spins for a shard behind T1's workers
  (`SpinWins`).
- `read_path.hpp:305`: a scan calls back inline values before the batched T2
  records between them, and counts before the full-key filter.

## 7. Not modelled

- The batching and callback order of scans, statistics, construction and
  shutdown of threads, the suppression of background cycles.
- The hash index and Bloom filter inside a shard, sorting and binary search:
  algorithms on one thread's data, or covered by one put per key.
- File layouts and checksums (a file is whole or torn), `mmap` and `pread`
  wrappers, the memory-pressure throttle, environment and swap checks.
- The public wrappers, serializers and configuration; the rival stores and the
  benchmarks, which are no part of the store.
- Relaxed memory orders: all models are sequentially consistent.
- Losing a rename or an unlink: the code syncs no directory, and `Recovery`
  assumes that the file system keeps their order.
- A put whose log record failed stays in T1 and T2, and a later checkpoint may
  make it durable; no document says otherwise.
