------------------------------ MODULE T1Index ------------------------------
(***************************************************************************)
(* One T1 shard: an append region with its hash index, a sorted region,    *)
(* and reorganize(), which freezes the append region, merges it with the   *)
(* sorted region into a new one and reclaims both by epochs, while put(),  *)
(* get() and scan() go on.                                                 *)
(*                                                                         *)
(* The n-th reorganize() replaces append region n and sorted region n by   *)
(* n+1, so a region is named by its generation.  A key stands for a prefix *)
(* with its clean hash, and no two keys share the prefix; a slot's raw     *)
(* hash tells whether the payload is an inline value or a T2 offset.  Two  *)
(* puts of one key never overlap: every caller holds the key's stripe, so  *)
(* a put's CAS succeeds and the hash index displaces no slot               *)
(* (NoDuplicateSlot).  Reading a region pointer and searching that region  *)
(* is one step: a region changes no more once the drain that waits for the *)
(* thread is over.  Memory is sequentially consistent.                     *)
(***************************************************************************)
EXTENDS Integers, FiniteSetsExt

CONSTANTS Writers, Readers,   \* threads in put(), and in get() or scan()
          Keys,               \* a finite set of naturals, in key order
          Payloads,           \* payload words a put() may store
          HashOf,             \* HashOf[p]: the raw hash that belongs to p
          Operations,         \* what readers do: a subset of {"get", "scan"}
          AppendCap,          \* append_cap_
          MaxPuts,            \* bound: put() calls
          MaxGen,             \* bound: reorganize() calls
          Nil

NotFound == "notFound"        \* STORE_NOT_FOUND, the payload of a deleted key

ASSUME KeysAssumption == Keys \subseteq Nat /\ IsFiniteSet(Keys)
ASSUME HashAssumption == Payloads \cup {NotFound} \subseteq DOMAIN HashOf
ASSUME CapAssumption == AppendCap \in Nat /\ MaxPuts \in Nat /\ MaxGen \in Nat
ASSUME OperationsAssumption == Operations \subseteq {"get", "scan"}
ASSUME ThreadAssumption == Writers \cap Readers = {} /\ Nil \notin Writers

VARIABLES sorted, active,     \* generation of sorted_region_, append_active_
          imm, frozen,        \* append_immutable_, sorted_write_frozen_, or Null
          slot,               \* the slots of all regions, by reference
          tail,               \* AppendRegion::tail_ of each generation
          index,              \* AppendIndex: key -> slot number, 0 if none
          oldest,             \* generations below are deleted
          epoch,              \* reorg_epoch_
          registered,         \* active_epochs_: a thread's epoch, 0 if none
          lock, last, puts,   \* stripes; payload last put; put() calls so far
          pc, key, entryEpoch, ref, gen,          \* per thread
          val, num,                               \* per writer
          op, sortedSeen, immSeen, ver, best, allowed,  \* per reader
          rpc, scan, todo, merged                 \* the thread in reorganize()

regionVars == <<sorted, active, imm, frozen>>
slotVars == <<slot, tail, index>>
histVars == <<lock, last, puts>>
threadVars == <<key, entryEpoch, ref, gen>>
writerVars == <<val, num>>
readerVars == <<op, sortedSeen, immSeen, ver, best, allowed>>
reorgVars == <<rpc, scan, todo, merged, oldest, epoch>>
vars == <<regionVars, slotVars, histVars, pc, registered, threadVars,
          writerVars, readerVars, reorgVars>>

Threads == Writers \cup Readers
Null == -1                                  \* a null region pointer
NoRef == <<>>                               \* ResolvedSlot{}
AppendRef(g, i) == <<"append", g, i>>
SortedRef(g, k) == <<"sorted", g, k>>
Slot(k, h, p) == [key |-> k, hash |-> h, payload |-> p, version |-> 0]
None == [gen |-> 0, hash |-> Nil, payload |-> NotFound]
Even(n) == n % 2 = 0
Extend(f, g) ==                             \* f, and g where f is not defined
  [x \in DOMAIN f \cup DOMAIN g |-> IF x \in DOMAIN f THEN f[x] ELSE g[x]]

\* find_with_index() and find_sorted(): neither looks at the payload.
FindAppend(g, k) == IF index[g][k] = 0 THEN NoRef ELSE AppendRef(g, index[g][k])
FindSorted(g, k) ==
  IF SortedRef(g, k) \in DOMAIN slot THEN SortedRef(g, k) ELSE NoRef

Init ==
  /\ sorted = 0 /\ active = 0 /\ imm = Null /\ frozen = Null
  /\ slot = << >> /\ tail = [g \in 0 .. MaxGen |-> 0]
  /\ index = [g \in 0 .. MaxGen |-> [k \in Keys |-> 0]]
  /\ oldest = 0 /\ epoch = 1 /\ registered = [t \in Threads |-> 0]
  /\ lock = [k \in Keys |-> Nil] /\ last = [k \in Keys |-> NotFound] /\ puts = 0
  /\ pc = [t \in Threads |-> "idle"] /\ key = [t \in Threads |-> Nil]
  /\ entryEpoch = [t \in Threads |-> 0]
  /\ ref = [t \in Threads |-> NoRef] /\ gen = [t \in Threads |-> 0]
  /\ val = [t \in Writers |-> Nil] /\ num = [t \in Writers |-> 0]
  /\ op = [t \in Readers |-> Nil]
  /\ sortedSeen = [t \in Readers |-> 0] /\ immSeen = [t \in Readers |-> Null]
  /\ ver = [t \in Readers |-> 0] /\ best = [t \in Readers |-> None]
  /\ allowed = [t \in Readers |-> {}]
  /\ rpc = "idle" /\ scan = {} /\ todo = {} /\ merged = << >>

Goto(t, step) == pc' = [pc EXCEPT ![t] = step]

-----------------------------------------------------------------------------
(* put_with_stored_hash(), inside with_epoch_guard().                      *)

\* The call, and the load of reorg_epoch_ in with_epoch_guard().  A running
\* get of the key may from now on return the new payload.
Put(w, k, p) ==
  /\ pc[w] = "idle" /\ lock[k] = Nil
  /\ puts < MaxPuts                            \* bound, not in the code
  /\ puts' = puts + 1
  /\ lock' = [lock EXCEPT ![k] = w]
  /\ key' = [key EXCEPT ![w] = k] /\ val' = [val EXCEPT ![w] = p]
  /\ entryEpoch' = [entryEpoch EXCEPT ![w] = epoch]
  /\ allowed' = [r \in Readers |->
                   IF key[r] = k THEN allowed[r] \cup {p} ELSE allowed[r]]
  /\ Goto(w, "enter")
  /\ UNCHANGED <<regionVars, slotVars, last, registered, ref, gen, num,
                 op, sortedSeen, immSeen, ver, best, reorgVars>>

\* T1ReadHandle: the slot is stored after the epoch was loaded.
Enter(t) ==
  /\ pc[t] = "enter"
  /\ registered' = [registered EXCEPT ![t] = entryEpoch[t]]
  /\ Goto(t, IF t \in Writers THEN "active" ELSE "loadSorted")
  /\ UNCHANGED <<regionVars, slotVars, histVars, threadVars, writerVars,
                 readerVars, reorgVars>>

\* The put was applied: the guard and the stripe are released.
ReturnPut(w) ==
  /\ registered' = [registered EXCEPT ![w] = 0]
  /\ lock' = [lock EXCEPT ![key[w]] = Nil]
  /\ last' = [last EXCEPT ![key[w]] = val[w]]
  /\ key' = [key EXCEPT ![w] = Nil] /\ val' = [val EXCEPT ![w] = Nil]
  /\ ref' = [ref EXCEPT ![w] = NoRef]
  /\ gen' = [gen EXCEPT ![w] = 0] /\ num' = [num EXCEPT ![w] = 0]
  /\ entryEpoch' = [entryEpoch EXCEPT ![w] = 0]
  /\ Goto(w, "idle")

\* resolve() has an answer: the first time it is the slot to write, or none;
\* after the write it is compared with the slot that was written.
Resolved(w, r) ==
  IF ref[w] = NoRef
    THEN /\ ref' = [ref EXCEPT ![w] = r]
         /\ Goto(w, IF r = NoRef THEN "loadActive" ELSE "begin")
    ELSE /\ Goto(w, IF r = ref[w] THEN "storeHash"
                   ELSE IF r # NoRef THEN "retire" ELSE "retry")
         /\ UNCHANGED ref

ResolveUnchanged ==
  UNCHANGED <<regionVars, slotVars, histVars, registered, key, entryEpoch, gen,
              writerVars, readerVars, reorgVars>>

\* Mutant: a frozen region turns the put away before the active one is
\* searched.
ResolveActiveBypassed(w) ==
  /\ pc[w] = "active"
  /\ LET r == FindAppend(active, key[w])
     IN IF r # NoRef /\ imm = Null THEN Resolved(w, r)
        ELSE Goto(w, "imm") /\ UNCHANGED ref
  /\ ResolveUnchanged

\* resolve(): the active append region ...
ResolveActive(w) ==
  /\ pc[w] = "active"
  /\ LET r == FindAppend(active, key[w])
     IN IF r # NoRef THEN Resolved(w, r) ELSE Goto(w, "imm") /\ UNCHANGED ref
  /\ ResolveUnchanged

\* Mutant: a put waits, inside its epoch guard, for the region to be unfrozen.
ResolveImmWaiting(w) ==
  /\ pc[w] = "imm"
  /\ imm # Null => FindAppend(imm, key[w]) = NoRef
  /\ Goto(w, "frozen") /\ UNCHANGED ref
  /\ ResolveUnchanged

\* ... a key of the frozen append region is not to be written there ...
ResolveImm(w) ==
  /\ pc[w] = "imm"
  /\ IF imm # Null /\ FindAppend(imm, key[w]) # NoRef
       THEN Resolved(w, NoRef)
       ELSE Goto(w, "frozen") /\ UNCHANGED ref
  /\ ResolveUnchanged

\* Mutant: the sorted region is not frozen for writers.
ResolveFrozenIgnored(w) ==
  /\ pc[w] = "frozen"
  /\ Goto(w, "sorted") /\ UNCHANGED ref
  /\ ResolveUnchanged

\* ... nor one of the frozen sorted region ...
ResolveFrozen(w) ==
  /\ pc[w] = "frozen"
  /\ IF frozen # Null THEN Resolved(w, NoRef)
                       ELSE Goto(w, "sorted") /\ UNCHANGED ref
  /\ ResolveUnchanged

\* ... and the sorted region.
ResolveSorted(w) ==
  /\ pc[w] = "sorted"
  /\ Resolved(w, FindSorted(sorted, key[w]))
  /\ ResolveUnchanged

Resolve(w) ==
  ResolveActive(w) \/ ResolveImm(w) \/ ResolveFrozen(w) \/ ResolveSorted(w)

\* A step of the in-place update on the slot that was resolved.
WriteSlot(w, from, new, to) ==
  /\ pc[w] = from
  /\ slot' = [slot EXCEPT ![ref[w]] = new]
  /\ Goto(w, to)
  /\ UNCHANGED <<regionVars, tail, index, histVars, registered, threadVars,
                 writerVars, readerVars, reorgVars>>

Bump(s) == [s EXCEPT !.version = @ + 1]

\* begin_write(), the CAS of the payload, and the second resolve().
BeginWrite(w) == WriteSlot(w, "begin", Bump(slot[ref[w]]), "tryStore")
TryStore(w) ==
  WriteSlot(w, "tryStore", [slot[ref[w]] EXCEPT !.payload = val[w]], "active")
StoreHash(w) ==
  WriteSlot(w, "storeHash", [slot[ref[w]] EXCEPT !.hash = HashOf[val[w]]],
            "endWrite")

\* Another slot answers for the key now: retire the one that was written.
RetireSlot(w) ==
  WriteSlot(w, "retire", [slot[ref[w]] EXCEPT !.payload = NotFound], "retry")

EndWrite(w) ==
  /\ pc[w] = "endWrite"
  /\ slot' = [slot EXCEPT ![ref[w]] = Bump(@)]
  /\ ReturnPut(w)
  /\ UNCHANGED <<regionVars, tail, index, puts, readerVars, reorgVars>>

\* end_write() and once more from the top.
Retry(w) ==
  /\ pc[w] = "retry"
  /\ slot' = [slot EXCEPT ![ref[w]] = Bump(@)]
  /\ ref' = [ref EXCEPT ![w] = NoRef]
  /\ Goto(w, "active")
  /\ UNCHANGED <<regionVars, tail, index, histVars, registered, key, entryEpoch,
                 gen, writerVars, readerVars, reorgVars>>

\* No slot to write: a new one in the active region, loaded once more.
LoadActive(w) ==
  /\ pc[w] = "loadActive"
  /\ gen' = [gen EXCEPT ![w] = active]
  /\ Goto(w, "reserve")
  /\ UNCHANGED <<regionVars, slotVars, histVars, registered, key, entryEpoch,
                 ref, writerVars, readerVars, reorgVars>>

\* AppendRegion::reserve(), or AppendRegionFull.
Reserve(w) ==
  /\ pc[w] = "reserve"
  /\ IF tail[gen[w]] >= AppendCap
       THEN /\ registered' = [registered EXCEPT ![w] = 0]
            /\ Goto(w, "full")
            /\ UNCHANGED <<tail, num>>
       ELSE /\ tail' = [tail EXCEPT ![gen[w]] = @ + 1]
            /\ num' = [num EXCEPT ![w] = tail[gen[w]] + 1]
            /\ Goto(w, "publish")
            /\ UNCHANGED registered
  /\ UNCHANGED <<regionVars, slot, index, histVars, threadVars, val, readerVars,
                 reorgVars>>

\* The caller, ShardedT1Index::put(), calls again until there is room.
CallAgain(w) ==
  /\ pc[w] = "full"
  /\ entryEpoch' = [entryEpoch EXCEPT ![w] = epoch]
  /\ Goto(w, "enter")
  /\ UNCHANGED <<regionVars, slotVars, histVars, registered, key, ref, gen,
                 writerVars, readerVars, reorgVars>>

\* AppendRegion::publish(): the slot is visible to walks of the region.
Publish(w) ==
  /\ pc[w] = "publish"
  /\ slot' = Extend(slot, [s \in {AppendRef(gen[w], num[w])} |->
                             Slot(key[w], HashOf[val[w]], val[w])])
  /\ Goto(w, "index")
  /\ UNCHANGED <<regionVars, tail, index, histVars, registered, threadVars,
                 writerVars, readerVars, reorgVars>>

\* publish_append_index(): and now to searches by key.
PublishIndex(w) ==
  /\ pc[w] = "index"
  /\ index' = [index EXCEPT ![gen[w]][key[w]] = num[w]]
  /\ ReturnPut(w)
  /\ UNCHANGED <<regionVars, slot, tail, puts, readerVars, reorgVars>>

WriterStep(w) ==
  \/ Enter(w) \/ Resolve(w) \/ BeginWrite(w) \/ TryStore(w) \/ StoreHash(w)
  \/ RetireSlot(w) \/ EndWrite(w) \/ Retry(w)
  \/ LoadActive(w) \/ Reserve(w) \/ CallAgain(w) \/ Publish(w) \/ PublishIndex(w)

-----------------------------------------------------------------------------
(* get_with_hash() and scan() of one key, inside with_epoch_guard().       *)

\* The payloads the call may return: the last one put, one whose put is
\* running, and (Put) one whose put starts before the call ends.
Read(r, k, o) ==
  /\ pc[r] = "idle"
  /\ key' = [key EXCEPT ![r] = k] /\ op' = [op EXCEPT ![r] = o]
  /\ entryEpoch' = [entryEpoch EXCEPT ![r] = epoch]
  /\ allowed' = [allowed EXCEPT ![r] =
                   {last[k]} \cup {val[w] : w \in {w \in Writers : key[w] = k}}]
  /\ Goto(r, "enter")
  /\ UNCHANGED <<regionVars, slotVars, histVars, registered, ref, gen, writerVars,
                 sortedSeen, immSeen, ver, best, reorgVars>>

\* Both load sorted_region_ first.
LoadSorted(r) ==
  /\ pc[r] = "loadSorted"
  /\ sortedSeen' = [sortedSeen EXCEPT ![r] = sorted]
  /\ Goto(r, IF op[r] = "get" THEN "getActive" ELSE "scanActive")
  /\ UNCHANGED <<regionVars, slotVars, histVars, registered, threadVars, writerVars,
                 op, immSeen, ver, best, allowed, reorgVars>>

\* lookup_by_prefix_hash(): the first region that has a slot of the key ...
Lookup(r, from, found, next) ==
  /\ pc[r] = from
  /\ ref' = [ref EXCEPT ![r] = found]
  /\ Goto(r, IF found = NoRef THEN next ELSE "getHash")
  /\ UNCHANGED <<regionVars, slotVars, histVars, registered, key, entryEpoch, gen,
                 writerVars, readerVars, reorgVars>>

GetActive(r) == Lookup(r, "getActive", FindAppend(active, key[r]), "getImm")

\* Mutant: the frozen append region is not searched.
GetImmSkipped(r) == Lookup(r, "getImm", NoRef, "getSorted")

GetImm(r) ==
  Lookup(r, "getImm", IF imm = Null THEN NoRef ELSE FindAppend(imm, key[r]),
         "getSorted")
GetSorted(r) ==
  Lookup(r, "getSorted", FindSorted(sortedSeen[r], key[r]), "done")

\* ... is read by load_slot_consistent(): an even version and the hash first,
GetHash(r) ==
  /\ pc[r] = "getHash"
  /\ Even(slot[ref[r]].version)
  /\ ver' = [ver EXCEPT ![r] = slot[ref[r]].version]
  /\ best' = [best EXCEPT ![r].hash = slot[ref[r]].hash]
  /\ Goto(r, "getPayload")
  /\ UNCHANGED <<regionVars, slotVars, histVars, registered, threadVars, writerVars,
                 op, sortedSeen, immSeen, allowed, reorgVars>>

\* the payload next, and again if the version moved.
GetPayload(r) ==
  /\ pc[r] = "getPayload"
  /\ IF slot[ref[r]].version = ver[r]
       THEN /\ best' = [best EXCEPT ![r].payload = slot[ref[r]].payload]
            /\ Goto(r, "done")
       ELSE Goto(r, "getHash") /\ UNCHANGED best
  /\ UNCHANGED <<regionVars, slotVars, histVars, registered, threadVars, writerVars,
                 op, sortedSeen, immSeen, ver, allowed, reorgVars>>

\* scan(): the other two region pointers ...
ScanActive(r) ==
  /\ pc[r] = "scanActive"
  /\ gen' = [gen EXCEPT ![r] = active]
  /\ Goto(r, "scanImm")
  /\ UNCHANGED <<regionVars, slotVars, histVars, registered, key, entryEpoch, ref,
                 writerVars, readerVars, reorgVars>>

ScanImm(r) ==
  /\ pc[r] = "scanImm"
  /\ immSeen' = [immSeen EXCEPT ![r] = imm]
  /\ Goto(r, "walkSorted")
  /\ UNCHANGED <<regionVars, slotVars, histVars, registered, threadVars, writerVars,
                 op, sortedSeen, ver, best, allowed, reorgVars>>

\* The published slots of a key in append region g, found without the index.
Published(g, k) ==
  {s \in DOMAIN slot : s[1] = "append" /\ s[2] = g /\ slot[s].key = k}

\* ... and a walk of each region.  Deleted slots are no candidates; of the
\* others the one of the newest generation wins (of a prefix, in the code: of
\* two keys that share it only one is reported).  load_slot_consistent() is one
\* step: all stores to a slot are between two bumps of its version.
Walk(r, from, found, g, to) ==
  /\ pc[r] = from
  /\ \A s \in found : Even(slot[s].version)
  /\ LET live == {s \in found : slot[s].payload # NotFound}
     IN best' = IF live = {} \/ g < best[r].gen THEN best
                ELSE LET s == CHOOSE s \in live : TRUE
                     IN [best EXCEPT ![r] = [gen |-> g, hash |-> slot[s].hash,
                                             payload |-> slot[s].payload]]
  /\ Goto(r, to)
  /\ UNCHANGED <<regionVars, slotVars, histVars, registered, threadVars, writerVars,
                 op, sortedSeen, immSeen, ver, allowed, reorgVars>>

WalkSorted(r) ==
  Walk(r, "walkSorted", {FindSorted(sortedSeen[r], key[r])} \ {NoRef}, 0,
       "walkActive")
WalkActive(r) ==
  Walk(r, "walkActive", Published(gen[r], key[r]), 2, "walkImm")
WalkImm(r) ==
  Walk(r, "walkImm", Published(immSeen[r], key[r]), 1, "done")

ReturnRead(r) ==
  /\ pc[r] = "done"
  /\ registered' = [registered EXCEPT ![r] = 0]
  /\ key' = [key EXCEPT ![r] = Nil] /\ op' = [op EXCEPT ![r] = Nil]
  /\ entryEpoch' = [entryEpoch EXCEPT ![r] = 0]
  /\ ref' = [ref EXCEPT ![r] = NoRef] /\ gen' = [gen EXCEPT ![r] = 0]
  /\ sortedSeen' = [sortedSeen EXCEPT ![r] = 0]
  /\ immSeen' = [immSeen EXCEPT ![r] = Null] /\ ver' = [ver EXCEPT ![r] = 0]
  /\ best' = [best EXCEPT ![r] = None] /\ allowed' = [allowed EXCEPT ![r] = {}]
  /\ Goto(r, "idle")
  /\ UNCHANGED <<regionVars, slotVars, histVars, writerVars, reorgVars>>

ReaderStep(r) ==
  \/ Enter(r) \/ LoadSorted(r)
  \/ GetActive(r) \/ GetImm(r) \/ GetSorted(r) \/ GetHash(r) \/ GetPayload(r)
  \/ ScanActive(r) \/ ScanImm(r) \/ WalkSorted(r) \/ WalkActive(r) \/ WalkImm(r)
  \/ ReturnRead(r)

-----------------------------------------------------------------------------
(* reorganize(), by one thread at a time (reorg_in_progress_).             *)

ReorgUnchanged ==
  UNCHANGED <<histVars, pc, registered, threadVars, writerVars, readerVars>>

\* append_immutable_.freeze() of the active generation ...
FreezeAppend ==
  /\ rpc = "idle" /\ active < MaxGen           \* bound, not in the code
  /\ imm' = active
  /\ rpc' = "swap"
  /\ UNCHANGED <<sorted, active, frozen, slotVars, scan, todo, merged, oldest, epoch>>
  /\ ReorgUnchanged

\* ... and a fresh one in its place.
SwapActive ==
  /\ rpc = "swap"
  /\ active' = active + 1
  /\ rpc' = "bump"
  /\ UNCHANGED <<sorted, imm, frozen, slotVars, scan, todo, merged, oldest, epoch>>
  /\ ReorgUnchanged

\* reorg_epoch_.fetch_add(), twice per cycle, and wait_until_epoch().
AdvanceEpoch ==
  /\ rpc \in {"bump", "bumpAgain"}
  /\ epoch' = epoch + 1
  /\ scan' = Threads
  /\ rpc' = IF rpc = "bump" THEN "drain" ELSE "drainAgain"
  /\ UNCHANGED <<regionVars, slotVars, todo, merged, oldest>>
  /\ ReorgUnchanged

\* Mutant: only the epoch is advanced, nobody is waited for.
DrainSlotUnchecked(t) ==
  /\ rpc \in {"drain", "drainAgain"} /\ t \in scan
  /\ scan' = scan \ {t}
  /\ UNCHANGED <<regionVars, slotVars, rpc, todo, merged, oldest, epoch>>
  /\ ReorgUnchanged

\* One slot of active_epochs_ is empty or has reached the new epoch.
DrainSlot(t) ==
  /\ rpc \in {"drain", "drainAgain"} /\ t \in scan
  /\ registered[t] = 0 \/ registered[t] >= epoch
  /\ scan' = scan \ {t}
  /\ UNCHANGED <<regionVars, slotVars, rpc, todo, merged, oldest, epoch>>
  /\ ReorgUnchanged

FreezeSorted ==
  /\ rpc = "drain" /\ scan = {}
  /\ frozen' = sorted
  /\ rpc' = "collect"
  /\ UNCHANGED <<sorted, active, imm, slotVars, scan, todo, merged, oldest, epoch>>
  /\ ReorgUnchanged

\* collect_live_entries() of the frozen append region.
Collect ==
  /\ rpc = "collect"
  /\ \A k \in Keys : \A s \in Published(imm, k) : Even(slot[s].version)
  /\ LET live(k) == {s \in Published(imm, k) : slot[s].payload # NotFound}
     IN merged' = [k \in {k \in Keys : live(k) # {}} |->
                     LET s == CHOOSE s \in live(k) : TRUE
                     IN [hash |-> slot[s].hash, payload |-> slot[s].payload]]
  /\ todo' = Keys
  /\ rpc' = "merge"
  /\ UNCHANGED <<regionVars, slotVars, scan, oldest, epoch>>
  /\ ReorgUnchanged

\* The merge loop, key by key.  skip_dead() passes over a deleted slot of the
\* sorted region; an entry of the append region stays as it was collected ...
SkipDead ==
  /\ rpc = "merge" /\ todo # {}
  /\ LET s == FindSorted(sorted, Min(todo))
     IN IF s # NoRef /\ slot[s].payload # NotFound
          THEN rpc' = "load" /\ UNCHANGED todo
          ELSE todo' = todo \ {Min(todo)} /\ UNCHANGED rpc
  /\ UNCHANGED <<regionVars, slotVars, scan, merged, oldest, epoch>>
  /\ ReorgUnchanged

\* ... and wins over the sorted one, which load_slot_consistent() reads.
MergeEntry ==
  /\ rpc = "load"
  /\ LET k == Min(todo)
         s == slot[SortedRef(sorted, k)]
     IN /\ Even(s.version)
        /\ merged' = Extend(merged, [j \in {k} |->
                                       [hash |-> s.hash, payload |-> s.payload]])
        /\ todo' = todo \ {k}
  /\ rpc' = "merge"
  /\ UNCHANGED <<regionVars, slotVars, scan, oldest, epoch>>
  /\ ReorgUnchanged

\* SortedRegion(merged) is built and sorted_region_ stored.
PublishSorted ==
  /\ rpc = "merge" /\ todo = {}
  /\ sorted' = sorted + 1
  /\ slot' = Extend(slot, [s \in {SortedRef(sorted + 1, k) : k \in DOMAIN merged} |->
                             Slot(s[3], merged[s[3]].hash, merged[s[3]].payload)])
  /\ merged' = << >>
  /\ rpc' = "unfreezeSorted"
  /\ UNCHANGED <<active, imm, frozen, tail, index, scan, todo, oldest, epoch>>
  /\ ReorgUnchanged

UnfreezeSorted ==
  /\ rpc = "unfreezeSorted"
  /\ frozen' = Null
  /\ rpc' = "unfreezeAppend"
  /\ UNCHANGED <<sorted, active, imm, slotVars, scan, todo, merged, oldest, epoch>>
  /\ ReorgUnchanged

UnfreezeAppend ==
  /\ rpc = "unfreezeAppend"
  /\ imm' = Null
  /\ rpc' = "bumpAgain"
  /\ UNCHANGED <<sorted, active, frozen, slotVars, scan, todo, merged, oldest, epoch>>
  /\ ReorgUnchanged

\* The old append generation and the old sorted region are deleted.
DeleteOld ==
  /\ rpc = "drainAgain" /\ scan = {}
  /\ oldest' = oldest + 1
  /\ slot' = [s \in {s \in DOMAIN slot : s[2] > oldest} |-> slot[s]]
  /\ rpc' = "idle"
  /\ UNCHANGED <<regionVars, tail, index, scan, todo, merged, epoch>>
  /\ ReorgUnchanged

ReorganizeStep ==
  \/ SwapActive \/ AdvanceEpoch \/ (\E t \in Threads : DrainSlot(t))
  \/ FreezeSorted \/ Collect \/ SkipDead \/ MergeEntry
  \/ PublishSorted \/ UnfreezeSorted \/ UnfreezeAppend \/ DeleteOld

-----------------------------------------------------------------------------
Next ==
  \/ \E w \in Writers : WriterStep(w) \/ \E k \in Keys, p \in Payloads : Put(w, k, p)
  \/ \E r \in Readers : ReaderStep(r) \/ \E k \in Keys, o \in Operations : Read(r, k, o)
  \/ FreezeAppend \/ ReorganizeStep

Spec == Init /\ [][Next]_vars

\* A thread inside a call keeps running, and so does reorganize().
FairSpec ==
  /\ Spec
  /\ \A w \in Writers : WF_vars(WriterStep(w))
  /\ \A r \in Readers : WF_vars(ReaderStep(r))
  /\ WF_vars(ReorganizeStep)

-----------------------------------------------------------------------------
\* What an undisturbed get() of the key returns now.
Current(k) ==
  LET found == <<FindAppend(active, k),
                 IF imm = Null THEN NoRef ELSE FindAppend(imm, k),
                 FindSorted(sorted, k)>>
      hits == {i \in 1 .. 3 : found[i] # NoRef}
  IN IF hits = {} THEN NotFound ELSE slot[found[Min(hits)]].payload

\* No thread holds a pointer into a region reorganize() has deleted, although
\* it may have read its epoch, or the pointer, before the swap
\* (with_epoch_guard(), wait_until_epoch()).
NoUseAfterFree ==
  /\ oldest <= sorted /\ oldest <= active
  /\ imm = Null \/ oldest <= imm
  /\ frozen = Null \/ oldest <= frozen
  /\ \A t \in Threads :
       /\ ref[t] # NoRef => oldest <= ref[t][2]
       /\ pc[t] \in {"reserve", "publish", "index", "scanImm", "walkSorted",
                     "walkActive"} => oldest <= gen[t]
  /\ \A r \in Readers :
       /\ pc[r] \in {"getActive", "getImm", "getSorted", "scanActive", "scanImm",
                     "walkSorted"} => oldest <= sortedSeen[r]
       /\ immSeen[r] = Null \/ oldest <= immSeen[r]

\* An append region holds at most one slot of a key, however often put() is
\* turned away from a frozen slot, so the merge has no duplicate to assert on
\* (assert_no_duplicates()) and the hash index displaces nothing.
NoDuplicateSlot ==
  \A g \in oldest .. MaxGen, k \in Keys : Cardinality(Published(g, k)) <= 1

\* A put that returned is never lost to a merge that had already read the
\* slot: with no put of the key running, get() finds the payload last put
\* (FreezableRegion).  A deleted key is left out: its tombstone may be dropped
\* while an older slot survives.
LastPutWins ==
  \A k \in Keys : lock[k] = Nil /\ last[k] # NotFound => Current(k) = last[k]

\* A get or scan during which no new sorted region was published and whose key
\* was not deleted returns the payload last put, or one whose put it overlapped.
RegularRead ==
  \A r \in Readers :
    pc[r] = "done" /\ sortedSeen[r] = sorted /\ NotFound \notin allowed[r]
      => best[r].payload \in allowed[r]

\* Every put(), get(), scan() and reorganize() returns, a put perhaps with
\* AppendRegionFull: the retries of a put are bounded, and neither drain waits
\* for a thread that waits for it.
CallsEnd ==
  /\ \A t \in Threads : pc[t] # "idle" ~> pc[t] \in {"idle", "full"}
  /\ rpc # "idle" ~> rpc = "idle"
=============================================================================
