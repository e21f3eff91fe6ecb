----------------------------- MODULE ShardedT1 ------------------------------
(***************************************************************************)
(* ShardedT1Index: the directory of shards, the split of a shard (Closing, *)
(* then Split), the maintenance queue and its workers, and the dump of all *)
(* shards for a checkpoint.                                                *)
(*                                                                         *)
(* A shard is what T1Index gives it: an active append region of AppendCap  *)
(* entries, an immutable one while it is merged, and a sorted region.  The *)
(* payload of the n-th put is n, the tombstone of a delete -n, and 0 is no *)
(* entry.  A key is a number in the order of (prefix, hash); routing looks *)
(* at the prefix only.                                                     *)
(*                                                                         *)
(* reorganize() is two steps here: the freeze of both regions, and the     *)
(* publication, each of which waits for gets as the code's drains do.      *)
(* T1Index has all of its steps.                                           *)
(***************************************************************************)
EXTENDS Integers, Sequences, FiniteSets, FiniteSetsExt, SequencesExt

CONSTANTS Keys,
          Prefix,               \* prefix of a key, 16 bytes in the code
          Writers, Readers,
          Workers,              \* threads of worker_loop()
          Checkpointer,         \* checkpoint threads: one or none
          AppendCap,            \* append_cap_
          TargetShardSize,      \* target_shard_size_
          SplitPercent,         \* T1ShardSplitThresholdPercent
          LoadedEntries,        \* keys of each shard of the loaded checkpoint,
          LoadedBoundaries,     \* << {} >> and << >> for a new store
          CallKeys,             \* keys each writer and reader calls for
          MaxPuts, MaxSlots     \* bounds

Mergers == Workers \cup Checkpointer
Threads == Writers \cup Readers \cup Mergers
Slots == 1 .. MaxSlots
SplitThreshold == (TargetShardSize * SplitPercent) \div 100
SoftThreshold == (AppendCap * 50) \div 100

\* superseded: null, the Closing sentinel, or a Split.
Null == [state |-> "null"]
Closing == [state |-> "closing"]
SplitInto(b, l, h) == [state |-> "split", boundary |-> b, low |-> l, high |-> h]

ASSUME ShardedAssumption ==
  /\ Keys \subseteq Nat /\ Prefix \in [Keys -> Nat]
  /\ \A j, k \in Keys : j < k => Prefix[j] <= Prefix[k]
  /\ AppendCap \in Nat \ {0} /\ TargetShardSize \in Nat \ {0} /\ SplitPercent \in Nat
  /\ LoadedEntries \in Seq(SUBSET Keys) /\ LoadedBoundaries \in Seq(Nat)
  /\ Len(LoadedEntries) = Len(LoadedBoundaries) + 1
  /\ CallKeys \in [Writers \cup Readers -> SUBSET Keys]
  /\ MaxPuts \in Nat /\ MaxSlots \in Nat /\ MaxSlots >= Len(LoadedEntries)

VARIABLES
  active, immutable, sorted,    \* the regions of a slot's T1Index
  merging,                      \* reorg_in_progress_
  superseded,
  pending,                      \* maintenance_pending
  tombstones,                   \* tombstones_since_maintenance
  refs,                         \* outside_refs
  freed,                        \* slots that were deleted
  slots,                        \* number of slots ever allocated
  dir,                          \* directory_: shards and boundaries
  epoch, guard,                 \* routing_epoch_, routing_epochs_: 0 without a guard
  queue, paused,                \* queue_, splits_paused_
  pc, slot,                     \* of every thread
  seen,                         \* the epoch a thread loaded or waits for
  key, val,                     \* of a put or a get
  merged,                       \* merged_entries of a thread
  todo,                         \* threads or slots still to visit
  held,                         \* what a checkpoint references
  passed,                       \* what a get's shard did since the get entered it:
                                \* nothing, "freeze" or "publish"
  view,                         \* the sorted region a get has loaded, once it is replaced
  puts, last, may               \* history: number of puts begun, the last put of a
                                \* key that returned, what a get may return

regionVars == <<active, immutable, sorted, merging, passed, view>>
slotVars == <<superseded, pending, tombstones, refs, freed, slots>>
dirVars == <<dir, epoch>>
callVars == <<key, val, puts, last, may>>
splitVars == <<merged, todo>>
vars == <<regionVars, slotVars, dirVars, guard, queue, paused, pc, slot, seen, callVars,
          splitVars, held>>

NoEntries == [k \in Keys |-> 0]

\* load_sorted_region_from_checkpoint(); key k was loaded with payload MaxPuts + k.
LoadSorted(keys) == [k \in Keys |-> IF k \in keys THEN MaxPuts + k ELSE 0]

\* The constructor, then load_from_checkpoint().
Init ==
  /\ active = [s \in Slots |-> NoEntries] /\ immutable = active
  /\ sorted = [s \in Slots |->
       LoadSorted(IF s \in DOMAIN LoadedEntries THEN LoadedEntries[s] ELSE {})]
  /\ merging = [s \in Slots |-> FALSE]
  /\ superseded = [s \in Slots |-> Null]
  /\ pending = [s \in Slots |-> FALSE] /\ freed = [s \in Slots |-> FALSE]
  /\ refs = [s \in Slots |-> 0] /\ tombstones = refs
  /\ slots = Len(LoadedEntries)
  /\ dir = [shards |-> [i \in 1 .. slots |-> i], boundaries |-> LoadedBoundaries]
  /\ epoch = 1 /\ guard = [t \in Threads |-> 0]
  /\ queue = << >> /\ paused = FALSE
  /\ pc = [t \in Threads |-> "idle"] /\ slot = [t \in Threads |-> 1]
  /\ seen = [t \in Threads |-> 0]
  /\ key = [t \in Writers \cup Readers |-> 0] /\ val = [w \in Writers |-> 0]
  /\ merged = [t \in Mergers |-> NoEntries] /\ todo = [t \in Mergers |-> {}]
  /\ held = << >>
  /\ puts = 0 /\ last = LoadSorted(UNION ToSet(LoadedEntries)) /\ may = [r \in Readers |-> {}]
  /\ passed = [r \in Readers |-> "nothing"] /\ view = [r \in Readers |-> NoEntries]

At(t, l) == pc[t] = l
Goto(t, l) == pc' = [pc EXCEPT ![t] = l]

\* A call's local variables end with it.
Leave(t) == Goto(t, "idle") /\ slot' = [slot EXCEPT ![t] = 1]
Forget(u) == merged' = [merged EXCEPT ![u] = NoEntries]

\* What a payload means to a caller: a tombstone is a miss.
Value(p) == IF p < 0 THEN 0 ELSE p

-----------------------------------------------------------------------------
(* A shard's T1Index.                                                      *)

\* What lookup_by_prefix_hash() finds at rest: the newest region that knows the key.
Get(s, k) ==
  IF active[s][k] # 0 THEN active[s][k]
  ELSE IF immutable[s][k] # 0 THEN immutable[s][k]
  ELSE sorted[s][k]

AppendSize(s) == Cardinality({k \in Keys : active[s][k] # 0})

\* put(): in place, unless the entry is in a region that is being merged.
InPlace(s, k) == active[s][k] # 0 \/ (sorted[s][k] # 0 /\ ~merging[s])
AppendRegionFull(s, k) == AppendSize(s) = AppendCap /\ ~InPlace(s, k)
PutAt(s, k, v) ==
  IF active[s][k] = 0 /\ InPlace(s, k)
    THEN sorted' = [sorted EXCEPT ![s][k] = v] /\ UNCHANGED active
    ELSE active' = [active EXCEPT ![s][k] = v] /\ UNCHANGED sorted

\* Gets inside the shard, under its active_epochs_, and those a drain waits for.
Inside(s) == {r \in Readers : slot[r] = s /\ pc[r] \in {"active", "immutable", "sorted"}}
Drained(s, what) == \A r \in Inside(s) : passed[r] # what
Pass(s, what) == passed' = [r \in Readers |-> IF r \in Inside(s) THEN what ELSE passed[r]]

\* collect_live_entries() drops the tombstones of the append region, and the merge
\* takes the sorted copy of a key that is not among the appended ones.
MergedEntry(s, k) == IF active[s][k] > 0 THEN active[s][k] ELSE Value(sorted[s][k])

\* reorganize(): both regions are frozen and merged ...
MergeBegins(t, s) ==
  /\ ~merging[s] /\ Drained(s, "publish")
  /\ merging' = [merging EXCEPT ![s] = TRUE]
  /\ immutable' = [immutable EXCEPT ![s] = active[s]]
  /\ active' = [active EXCEPT ![s] = NoEntries]
  /\ merged' = [merged EXCEPT ![t] = [k \in Keys |-> MergedEntry(s, k)]]
  /\ Pass(s, "freeze")
  /\ UNCHANGED <<sorted, view>>

\* ... and the result is published.
MergeEnds(t, s) ==
  /\ Drained(s, "freeze") /\ Pass(s, "publish")
  /\ merging' = [merging EXCEPT ![s] = FALSE]
  /\ sorted' = [sorted EXCEPT ![s] = merged[t]]
  /\ immutable' = [immutable EXCEPT ![s] = NoEntries]
  /\ view' = [r \in Readers |-> IF r \in Inside(s) THEN sorted[s] ELSE view[r]]
  /\ UNCHANGED active

Entries(f) == {k \in Keys : f[k] # 0}

-----------------------------------------------------------------------------
(* Routing: with_routing_guard(), resolve() and resolve_for_write().       *)

\* Directory::shard_for().
ShardFor(k) ==
  dir.shards[1 + Cardinality({i \in DOMAIN dir.boundaries :
                                dir.boundaries[i] <= Prefix[k]})]

\* Mutant: the keys of the boundary stay in the low shard.
RedirectBelowOrAt(split, k) ==
  IF Prefix[k] <= split.boundary THEN split.low ELSE split.high

Redirect(split, k) ==
  IF Prefix[k] < split.boundary THEN split.low ELSE split.high

Live(s) == superseded[s] = Null
Splitting(s) == superseded[s] = Closing

Register(t) ==
  /\ At(t, "register") /\ Goto(t, "route")
  /\ guard' = [guard EXCEPT ![t] = seen[t]] /\ seen' = [seen EXCEPT ![t] = 0]
  /\ UNCHANGED <<regionVars, slotVars, dirVars, queue, paused, slot, callVars,
                 splitVars, held>>

Route(t) ==
  /\ At(t, "route") /\ Goto(t, "chase")
  /\ slot' = [slot EXCEPT ![t] = ShardFor(key[t])]
  /\ UNCHANGED <<regionVars, slotVars, dirVars, guard, queue, paused, seen, callVars,
                 splitVars, held>>

\* Mutant: a put waits for the slot itself to become normal.
ChaseNoRedirect(t) ==
  /\ At(t, "chase")
  /\ Live(slot[t]) \/ t \in Readers
  /\ Goto(t, IF t \in Readers THEN "load" ELSE "request")
  /\ UNCHANGED <<regionVars, slotVars, dirVars, guard, queue, paused, slot, seen, callVars,
                 splitVars, held>>

\* A get reads a shard that is closing, a put waits for its Split.
Chase(t) ==
  /\ At(t, "chase")
  /\ Splitting(slot[t]) => t \in Readers
  /\ IF Live(slot[t]) \/ Splitting(slot[t])
       THEN Goto(t, IF t \in Readers THEN "load" ELSE "request") /\ UNCHANGED slot
       ELSE /\ slot' = [slot EXCEPT ![t] = Redirect(superseded[slot[t]], key[t])]
            /\ UNCHANGED pc
  /\ UNCHANGED <<regionVars, slotVars, dirVars, guard, queue, paused, seen, callVars,
                 splitVars, held>>

-----------------------------------------------------------------------------
(* put(), of a value or of a tombstone.                                    *)

\* The caller holds the key's stripe, and removes only a key it has found.
StartPut(w, k) ==
  /\ At(w, "idle") /\ Goto(w, "register")
  /\ \A v \in Writers : key[v] = k => At(v, "idle")
  /\ puts < MaxPuts                            \* bound, not in the code
  /\ puts' = puts + 1
  /\ key' = [key EXCEPT ![w] = k]
  /\ \E v \in {puts + 1, -(puts + 1)} :
       /\ v < 0 => last[k] > 0
       /\ val' = [val EXCEPT ![w] = v]
       /\ may' = [r \in Readers |-> IF key[r] = k /\ ~At(r, "idle")
                                      THEN may[r] \cup {v} ELSE may[r]]
  /\ seen' = [seen EXCEPT ![w] = epoch]
  /\ UNCHANGED <<regionVars, slotVars, dirVars, guard, queue, paused, slot, last,
                 splitVars, held>>

\* request_maintenance_if_needed(), before the put and after a delete;
\* push_if_live() first claims the slot's flag ...
RequestMaintenance(w) ==
  /\ pc[w] \in {"request", "again"}
  /\ LET wanted == \/ AppendSize(slot[w]) >= SoftThreshold
                   \/ tombstones[slot[w]] >= TargetShardSize
     IN IF wanted /\ ~pending[slot[w]]
          THEN /\ pending' = [pending EXCEPT ![slot[w]] = TRUE]
               /\ Goto(w, IF At(w, "request") THEN "push" ELSE "pushAgain")
          ELSE /\ Goto(w, IF At(w, "request") THEN "put" ELSE "return")
               /\ UNCHANGED pending
  /\ UNCHANGED <<regionVars, superseded, tombstones, refs, freed, slots, dirVars, guard,
                 queue, paused, slot, seen, callVars, splitVars, held>>

\* ... and then, under the queue's mutex, queues a slot that is not superseded.
Push(w) ==
  /\ pc[w] \in {"push", "pushAgain"}
  /\ Goto(w, IF At(w, "push") THEN "put" ELSE "return")
  /\ queue' = IF Live(slot[w]) THEN Append(queue, slot[w]) ELSE queue
  /\ UNCHANGED <<regionVars, slotVars, dirVars, guard, paused, slot, seen, callVars,
                 splitVars, held>>

\* T1Index::put(); a full region sends the put back to routing.
Put(w) ==
  /\ At(w, "put")
  /\ IF AppendRegionFull(slot[w], key[w])
       THEN Goto(w, "route") /\ UNCHANGED <<active, sorted>>
       ELSE Goto(w, "recheck") /\ PutAt(slot[w], key[w], val[w])
  /\ UNCHANGED <<immutable, merging, passed, view, slotVars, dirVars, guard, queue, paused, slot,
                 seen, callVars, splitVars, held>>

\* Mutant: whatever happened to the slot meanwhile, the put is done.
RecheckNot(w) ==
  /\ At(w, "recheck")
  /\ Goto(w, IF val[w] < 0 THEN "again" ELSE "return")
  /\ UNCHANGED <<regionVars, slotVars, dirVars, guard, queue, paused, slot, seen,
                 callVars, splitVars, held>>

\* The slot may have been superseded meanwhile: then the put is done again.
Recheck(w) ==
  /\ At(w, "recheck")
  /\ IF ~Live(slot[w])
       THEN Goto(w, "route") /\ UNCHANGED tombstones
     ELSE IF val[w] < 0
       THEN /\ tombstones' = [tombstones EXCEPT ![slot[w]] = @ + 1]
            /\ Goto(w, "again")
     ELSE Goto(w, "return") /\ UNCHANGED tombstones
  /\ UNCHANGED <<regionVars, superseded, pending, refs, freed, slots, dirVars, guard,
                 queue, paused, slot, seen, callVars, splitVars, held>>

\* Mutant: the guard outlives the call.
ReturnGuarded(w) ==
  /\ At(w, "return") /\ Leave(w)
  /\ last' = [last EXCEPT ![key[w]] = val[w]]
  /\ key' = [key EXCEPT ![w] = 0] /\ val' = [val EXCEPT ![w] = 0]
  /\ UNCHANGED <<regionVars, slotVars, dirVars, guard, queue, paused, seen, puts, may,
                 splitVars, held>>

Return(w) ==
  /\ At(w, "return") /\ Leave(w)
  /\ guard' = [guard EXCEPT ![w] = 0]
  /\ last' = [last EXCEPT ![key[w]] = val[w]]
  /\ key' = [key EXCEPT ![w] = 0] /\ val' = [val EXCEPT ![w] = 0]
  /\ UNCHANGED <<regionVars, slotVars, dirVars, queue, paused, seen, puts, may,
                 splitVars, held>>

-----------------------------------------------------------------------------
(* get_with_hash(); its guard is taken at once.                            *)

StartGet(r, k) ==
  /\ At(r, "idle") /\ Goto(r, "route")
  /\ key' = [key EXCEPT ![r] = k]
  /\ guard' = [guard EXCEPT ![r] = epoch]
  /\ may' = [may EXCEPT ![r] = {last[k]} \cup
       {val[w] : w \in {w \in Writers : key[w] = k /\ ~At(w, "idle")}}]
  /\ UNCHANGED <<regionVars, slotVars, dirVars, queue, paused, slot, seen, val, puts, last,
                 splitVars, held>>

\* lookup_by_prefix_hash(): the sorted region is loaded first ...
LoadRegions(r) ==
  /\ At(r, "load") /\ Goto(r, "active")
  /\ UNCHANGED <<regionVars, slotVars, dirVars, guard, queue, paused, slot, seen, callVars,
                 splitVars, held>>

\* The get returns ...
ReturnGet(r) ==
  /\ Leave(r)
  /\ guard' = [guard EXCEPT ![r] = 0]
  /\ key' = [key EXCEPT ![r] = 0] /\ may' = [may EXCEPT ![r] = {}]
  /\ passed' = [passed EXCEPT ![r] = "nothing"] /\ view' = [view EXCEPT ![r] = NoEntries]

\* ... or looks further.
LookInto(r, l) == Goto(r, l) /\ UNCHANGED <<guard, slot, key, may, passed, view>>

\* Mutant: the immutable region comes before the active one.
AnswerImmutableFirst(r) ==
  CASE At(r, "active") -> immutable[slot[r]][key[r]]
    [] At(r, "immutable") -> active[slot[r]][key[r]]
    [] At(r, "sorted") -> IF passed[r] = "publish" THEN view[r][key[r]]
                          ELSE sorted[slot[r]][key[r]]

\* What the look at hand finds: in the active append region, in the immutable one unless
\* its merge has been published, in the sorted region that was loaded.
Answer(r) ==
  CASE At(r, "active") -> active[slot[r]][key[r]]
    [] At(r, "immutable") -> immutable[slot[r]][key[r]]
    [] At(r, "sorted") -> IF passed[r] = "publish" THEN view[r][key[r]]
                          ELSE sorted[slot[r]][key[r]]

\* ... then come the active region, the immutable one and the sorted one.
Look(r) ==
  /\ \/ At(r, "active") /\ Answer(r) = 0 /\ LookInto(r, "immutable")
     \/ At(r, "immutable") /\ Answer(r) = 0 /\ LookInto(r, "sorted")
     \/ pc[r] \in {"active", "immutable"} /\ Answer(r) # 0 /\ ReturnGet(r)
     \/ At(r, "sorted") /\ ReturnGet(r)
  /\ UNCHANGED <<active, immutable, sorted, merging, slotVars, dirVars, queue, paused, seen,
                 val, puts, last, splitVars, held>>

-----------------------------------------------------------------------------
(* run_maintenance().                                                      *)

\* Under the guard a slot leaves the queue ...
Pop(u) ==
  /\ At(u, "idle") /\ queue # << >> /\ Goto(u, "claim")
  /\ guard' = [guard EXCEPT ![u] = epoch]
  /\ slot' = [slot EXCEPT ![u] = Head(queue)]
  /\ queue' = Tail(queue)
  /\ pending' = [pending EXCEPT ![Head(queue)] = FALSE]
  /\ UNCHANGED <<regionVars, superseded, tombstones, refs, freed, slots, dirVars, paused,
                 seen, callVars, splitVars, held>>

\* ... and is referenced, unless it is superseded.
Claim(u) ==
  /\ At(u, "claim")
  /\ IF Live(slot[u])
       THEN /\ refs' = [refs EXCEPT ![slot[u]] = @ + 1]
            /\ Goto(u, "merge") /\ UNCHANGED slot
       ELSE Leave(u) /\ UNCHANGED refs
  /\ guard' = [guard EXCEPT ![u] = 0]
  /\ UNCHANGED <<regionVars, superseded, pending, tombstones, freed, slots, dirVars, queue,
                 paused, seen, callVars, splitVars, held>>

\* reorganize() does nothing while another one runs.
Merge(u) ==
  /\ At(u, "merge")
  /\ \/ MergeBegins(u, slot[u]) /\ Goto(u, "merging")
     \/ /\ merging[slot[u]] /\ Goto(u, "check")
        /\ merged' = [merged EXCEPT ![u] = NoEntries]
        /\ UNCHANGED regionVars
  /\ UNCHANGED <<slotVars, dirVars, guard, queue, paused, slot, seen, callVars, todo,
                 held>>

\* The merge of maintenance ends, or the one of a split.
FinishMerge(u) ==
  /\ \/ /\ At(u, "merging") /\ Goto(u, "check")
        /\ tombstones' = [tombstones EXCEPT ![slot[u]] = 0]
     \/ /\ At(u, "capturing") /\ Goto(u, "captured")
        /\ UNCHANGED tombstones
  /\ MergeEnds(u, slot[u])
  /\ UNCHANGED <<superseded, pending, refs, freed, slots, dirVars, guard, queue, paused,
                 slot, seen, callVars, splitVars, held>>

\* Bound, not in the code: there are slots for the splits under way and one more.
RoomForSplit ==
  slots + 2 * Cardinality({s \in Slots : Splitting(s)}) + 2 <= MaxSlots

\* Under the guard again, the size and the pause are looked at ...
CheckSplit(u) ==
  /\ At(u, "check")
  /\ Goto(u, IF Cardinality(Entries(merged[u])) >= SplitThreshold /\ ~paused
               THEN "close" ELSE "release")
  /\ guard' = [guard EXCEPT ![u] = epoch]
  /\ UNCHANGED <<regionVars, slotVars, dirVars, queue, paused, slot, seen, callVars,
                 splitVars, held>>

\* ... Closing is set if nobody has superseded the slot, and the reference dropped.
Close(u) ==
  /\ pc[u] \in {"close", "release"}
  /\ IF At(u, "close") /\ Live(slot[u]) /\ RoomForSplit
       THEN /\ superseded' = [superseded EXCEPT ![slot[u]] = Closing]
            /\ Goto(u, "purge") /\ UNCHANGED <<slot, merged>>
       ELSE Leave(u) /\ Forget(u) /\ UNCHANGED superseded
  /\ refs' = [refs EXCEPT ![slot[u]] = @ - 1]
  /\ guard' = [guard EXCEPT ![u] = 0]
  /\ UNCHANGED <<regionVars, pending, tombstones, freed, slots, dirVars, queue, paused,
                 seen, callVars, todo, held>>

\* The leaf a key resolves to.
Resolve(k) ==
  LET leaf[s \in Slots] == IF Live(s) \/ Splitting(s) THEN s
                           ELSE leaf[Redirect(superseded[s], k)]
  IN leaf[ShardFor(k)]

-----------------------------------------------------------------------------
(* continue_split().                                                       *)

\* ShardQueue::purge().
Purge(u) ==
  /\ At(u, "purge") /\ Goto(u, "capture")
  /\ queue' = SelectSeq(queue, LAMBDA s : s # slot[u])
  /\ UNCHANGED <<regionVars, slotVars, dirVars, guard, paused, slot, seen, callVars,
                 splitVars, held>>

\* reorganize_until_captured(): waits while another reorganize() runs.
Capture(u) ==
  /\ At(u, "capture") /\ Goto(u, "capturing")
  /\ MergeBegins(u, slot[u])
  /\ UNCHANGED <<slotVars, dirVars, guard, queue, paused, slot, seen, callVars, todo,
                 held>>

\* Too small: first the slot is normal again ...
AbortSplit(u) ==
  /\ At(u, "captured") /\ Cardinality(Entries(merged[u])) < 2 /\ Goto(u, "unpend")
  /\ superseded' = [superseded EXCEPT ![slot[u]] = Null]
  /\ UNCHANGED <<regionVars, pending, tombstones, refs, freed, slots, dirVars, guard, queue,
                 paused, slot, seen, callVars, splitVars, held>>

\* Mutant: the flag of the request that was purged stays set.
UnpendNot(u) ==
  /\ At(u, "unpend") /\ Leave(u) /\ Forget(u)
  /\ tombstones' = [tombstones EXCEPT ![slot[u]] = 0]
  /\ UNCHANGED <<regionVars, superseded, pending, refs, freed, slots, dirVars, guard, queue,
                 paused, seen, callVars, todo, held>>

\* ... then it may be queued again.
Unpend(u) ==
  /\ At(u, "unpend") /\ Leave(u) /\ Forget(u)
  /\ pending' = [pending EXCEPT ![slot[u]] = FALSE]
  /\ tombstones' = [tombstones EXCEPT ![slot[u]] = 0]
  /\ UNCHANGED <<regionVars, superseded, refs, freed, slots, dirVars, guard, queue, paused,
                 seen, callVars, todo, held>>

\* The merged entries are halved by number, and the boundary is a prefix.
Split(u) ==
  /\ At(u, "captured") /\ Cardinality(Entries(merged[u])) >= 2 /\ Goto(u, "publish")
  /\ LET list == SetToSortSeq(Entries(merged[u]), <)
         mid == Len(list) \div 2
         Part(keys) == [k \in Keys |-> IF k \in keys THEN merged[u][k] ELSE 0]
     IN /\ sorted' = [sorted EXCEPT ![slots + 1] = Part(ToSet(SubSeq(list, 1, mid))),
                                    ![slots + 2] = Part(ToSet(SubSeq(list, mid + 1, Len(list))))]
        /\ superseded' = [superseded EXCEPT ![slot[u]] =
                            SplitInto(Prefix[list[mid + 1]], slots + 1, slots + 2)]
  /\ slots' = slots + 2
  /\ UNCHANGED <<active, immutable, merging, passed, view, pending, tombstones, refs, freed, dirVars,
                 guard, queue, paused, slot, seen, callVars, splitVars, held>>

\* publish_directory_after_split(): the loop ends with one successful exchange.
PublishDirectory(u) ==
  /\ At(u, "publish") /\ Goto(u, "bump")
  /\ LET split == superseded[slot[u]]
         i == CHOOSE j \in DOMAIN dir.shards : dir.shards[j] = slot[u]
     IN dir' = [shards |-> SubSeq(dir.shards, 1, i - 1) \o <<split.low, split.high>>
                             \o SubSeq(dir.shards, i + 1, Len(dir.shards)),
                boundaries |-> InsertAt(dir.boundaries, i, split.boundary)]
  /\ UNCHANGED <<regionVars, slotVars, epoch, guard, queue, paused, slot, seen, callVars,
                 splitVars, held>>

\* The epoch advances; wait_until_epoch() passes over the threads without a guard,
\* at the earliest moment it can look at them, ...
Bump(u) ==
  /\ At(u, "bump") /\ Goto(u, "drain")
  /\ epoch' = epoch + 1
  /\ seen' = [seen EXCEPT ![u] = epoch + 1]
  /\ todo' = [todo EXCEPT ![u] = {t \in Threads : guard[t] # 0}]
  /\ UNCHANGED <<regionVars, slotVars, dir, guard, queue, paused, slot, callVars, merged,
                 held>>

\* ... and waits for each of the others.
Drain(u, t) ==
  /\ At(u, "drain") /\ t \in todo[u]
  /\ guard[t] = 0 \/ guard[t] >= seen[u]
  /\ todo' = [todo EXCEPT ![u] = @ \ {t}]
  /\ UNCHANGED <<regionVars, slotVars, dirVars, guard, queue, paused, pc, slot, seen,
                 callVars, merged, held>>

\* The slot and its T1Index are gone.
Delete(s) ==
  /\ freed' = [freed EXCEPT ![s] = TRUE]
  /\ active' = [active EXCEPT ![s] = NoEntries] /\ sorted' = [sorted EXCEPT ![s] = NoEntries]
  /\ pending' = [pending EXCEPT ![s] = FALSE]
  /\ tombstones' = [tombstones EXCEPT ![s] = 0]

\* Mutant: the references are not waited for.
FreeReferenced(u) ==
  /\ At(u, "drain") /\ todo[u] = {} /\ Leave(u) /\ Forget(u)
  /\ Delete(slot[u])
  /\ seen' = [seen EXCEPT ![u] = 0]
  /\ UNCHANGED <<immutable, merging, passed, view, superseded, refs, slots, dirVars, guard, queue,
                 paused, callVars, todo, held>>

Free(u) ==
  /\ At(u, "drain") /\ todo[u] = {} /\ Leave(u) /\ Forget(u)
  /\ refs[slot[u]] = 0
  /\ Delete(slot[u])
  /\ seen' = [seen EXCEPT ![u] = 0]
  /\ UNCHANGED <<immutable, merging, passed, view, superseded, refs, slots, dirVars, guard, queue,
                 paused, callVars, todo, held>>

-----------------------------------------------------------------------------
(* checkpoint_all_shards().                                                *)

\* No new split begins while the shards are dumped; one under way goes on.
Pause(c) ==
  /\ At(c, "idle") /\ Goto(c, "snapshot")
  /\ paused' = TRUE
  /\ UNCHANGED <<regionVars, slotVars, dirVars, guard, queue, slot, seen, callVars,
                 splitVars, held>>

\* Under the guard the directory is copied and its slots are referenced.
Snapshot(c) ==
  /\ At(c, "snapshot") /\ Goto(c, "reference")
  /\ guard' = [guard EXCEPT ![c] = epoch]
  /\ held' = dir.shards
  /\ UNCHANGED <<regionVars, slotVars, dirVars, queue, paused, slot, seen, callVars,
                 splitVars>>

Reference(c) ==
  /\ At(c, "reference") /\ Goto(c, "dump")
  /\ refs' = [s \in Slots |-> IF s \in ToSet(held) THEN refs[s] + 1 ELSE refs[s]]
  /\ todo' = [todo EXCEPT ![c] = DOMAIN held]
  /\ guard' = [guard EXCEPT ![c] = 0]
  /\ UNCHANGED <<regionVars, superseded, pending, tombstones, freed, slots, dirVars, queue,
                 paused, slot, seen, callVars, merged, held>>

\* In the order of the directory; without appended entries the sorted region is
\* written as it is, else reorganize_until_captured() merges first.
DumpShard(c) ==
  /\ At(c, "dump") /\ todo[c] # {}
  /\ slot' = [slot EXCEPT ![c] = held[Min(todo[c])]]
  /\ todo' = [todo EXCEPT ![c] = @ \ {Min(@)}]
  /\ LET s == held[Min(todo[c])]
     IN IF AppendSize(s) = 0
          THEN UNCHANGED <<regionVars, merged, pc>>
          ELSE MergeBegins(c, s) /\ Goto(c, "dumping")
  /\ UNCHANGED <<slotVars, dirVars, guard, queue, paused, seen, callVars, held>>

FinishDump(c) ==
  /\ At(c, "dumping") /\ Goto(c, "dump")
  /\ MergeEnds(c, slot[c])
  /\ tombstones' = [tombstones EXCEPT ![slot[c]] = 0]
  /\ Forget(c)
  /\ UNCHANGED <<superseded, pending, refs, freed, slots, dirVars, guard, queue, paused,
                 slot, seen, callVars, todo, held>>

\* RefRelease, then the end of the pause.  One checkpoint is a bound.
Resume(c) ==
  /\ At(c, "dump") /\ todo[c] = {} /\ Goto(c, "done")
  /\ refs' = [s \in Slots |-> IF s \in ToSet(held) THEN refs[s] - 1 ELSE refs[s]]
  /\ held' = << >> /\ paused' = FALSE
  /\ UNCHANGED <<regionVars, superseded, pending, tombstones, freed, slots, dirVars, guard,
                 queue, slot, seen, callVars, splitVars>>

-----------------------------------------------------------------------------
PutStep(w) ==
  \/ Register(w) \/ Route(w) \/ Chase(w) \/ RequestMaintenance(w) \/ Push(w)
  \/ Put(w) \/ Recheck(w) \/ Return(w)

GetStep(r) ==
  Route(r) \/ Chase(r) \/ LoadRegions(r) \/ Look(r)

SplitStep(u) ==
  \/ Purge(u) \/ Capture(u) \/ FinishMerge(u) \/ AbortSplit(u) \/ Unpend(u) \/ Split(u)
  \/ PublishDirectory(u) \/ Bump(u) \/ (\E t \in Threads : Drain(u, t)) \/ Free(u)

MaintenanceStep(u) ==
  \/ Pop(u) \/ Claim(u) \/ Merge(u) \/ CheckSplit(u) \/ Close(u) \/ SplitStep(u)

DumpStep(c) ==
  \/ Snapshot(c) \/ Reference(c) \/ DumpShard(c) \/ FinishDump(c) \/ Resume(c)

Next ==
  \/ \E w \in Writers : PutStep(w) \/ \E k \in CallKeys[w] : StartPut(w, k)
  \/ \E r \in Readers : GetStep(r) \/ \E k \in CallKeys[r] : StartGet(r, k)
  \/ \E u \in Workers : MaintenanceStep(u)
  \/ \E c \in Checkpointer : DumpStep(c) \/ Pause(c)

Spec == Init /\ [][Next]_vars

\* A thread that is inside a call goes on; workers poll.
FairSpec ==
  /\ Spec
  /\ \A w \in Writers : WF_vars(PutStep(w))
  /\ \A r \in Readers : WF_vars(GetStep(r))
  /\ \A u \in Workers : WF_vars(MaintenanceStep(u))
  /\ \A c \in Checkpointer : WF_vars(DumpStep(c))

-----------------------------------------------------------------------------
\* A slot is deleted (continue_split) only when no routed call, no maintenance
\* or checkpoint in progress, also one of another worker, and no later reader of the
\* queue can name it.  A worker that ends an aborted split is left out: once
\* it has reset superseded the slot is no longer its own.
NoUseAfterFree ==
  /\ \A t \in Threads \ Checkpointer :
       pc[t] \notin {"idle", "register", "route", "unpend"} => ~freed[slot[t]]
  /\ \A s \in ToSet(held) \cup ToSet(queue) \cup ToSet(dir.shards) : ~freed[s]

Quiet(k) == \A w \in Writers : key[w] = k => At(w, "idle")

\* "every returned put is already in a live shard": routing leads to the last put
\* of a key that returned, whatever splits and merges are under way.  A deleted key
\* is left out: a merge drops its tombstone and may bring an older value back.
LastPutWins ==
  \A k \in Keys : Quiet(k) /\ last[k] >= 0 => Value(Get(Resolve(k), k)) = last[k]

\* A get answers with a value the key had between its beginning and its end.  Left
\* out are keys with a delete in that time or before it, as above, and the answers
\* of a sorted region that a publication replaced after the get had loaded it.
ReadFresh ==
  \A r \in Readers :
    /\ pc[r] \in {"active", "immutable", "sorted"}
    /\ Answer(r) # 0 \/ At(r, "sorted")
    /\ ~(At(r, "sorted") /\ passed[r] = "publish")
    /\ \A v \in may[r] : v >= 0
    => Value(Answer(r)) \in may[r]

\* The leaves of the directory, as for_each_leaf_in_range() collects them.
Leaves ==
  LET under[s \in Slots] == IF Live(s) \/ Splitting(s) THEN {s}
                            ELSE under[superseded[s].low] \cup under[superseded[s].high]
  IN UNION {under[s] : s \in ToSet(dir.shards)}

\* "shards[i] owns [boundaries[i-1], boundaries[i])": an entry is found only in
\* the shard its key is routed to, so that a scan meets it once.
RangeOwned ==
  \A s \in Leaves, k \in Keys : Value(Get(s, k)) # 0 => Resolve(k) = s

\* maintenance_pending does not stay set on a normal shard that nobody will
\* dequeue: such a shard would never be maintained again.
NoLostMaintenance ==
  \A s \in Slots : pending[s] /\ Live(s) =>
    \/ s \in ToSet(queue)
    \/ \E w \in Writers : pc[w] \in {"push", "pushAgain"} /\ slot[w] = s
    \/ \E u \in Workers : At(u, "unpend") /\ slot[u] = s

\* A put returns.
PutsEnd == \A w \in Writers : ~At(w, "idle") ~> At(w, "idle")

\* A split ends: the puts it stopped go on and the old shard is deleted.
SplitsEnd == \A u \in Workers : At(u, "purge") ~> At(u, "idle")
=============================================================================
