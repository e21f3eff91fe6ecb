------------------------------- MODULE Defrag -------------------------------
(***************************************************************************)
(* Defragmentation of T2: a cycle moves the live records out of segments   *)
(* that are mostly garbage, and the next cycle punches holes where they    *)
(* were, beside writers, readers and checkpoints.                          *)
(*                                                                         *)
(* Space is counted in blocks; a record starts in one segment and may end  *)
(* in the next.  T1 is an atomic map, the WAL is the records reserved and  *)
(* not yet durable, and the newest durable record of each key with the     *)
(* generation of its segment.  Records below base_boundary are never       *)
(* written in place (T2Capture), and inline values hold no space of T2, so *)
(* both are left out here.  The n-th put writes the value n, 0 is no value.*)
(***************************************************************************)
EXTENDS Integers, Sequences, FiniteSets, FiniteSetsExt, SequencesExt

CONSTANTS Keys, Writers,
          Lens,            \* lengths of new records
          Loaded,          \* the records at open: a sequence of [key, len]
          SegSize,         \* T2SegmentBytes
          NumSegs,         \* T2Ownership::segment_count(); times SegSize the capacity
          Budget,          \* T2DefragMaxMoveBytesPerCycle
          Defrag,          \* the thread of the cycle
          Nil,
          MaxPuts, MaxGen, MaxCycles   \* bounds

ASSUME DefragAssumption ==
  /\ Defrag \notin Writers /\ Nil \notin Keys
  /\ Lens \subseteq Nat \ {0} /\ Loaded \in Seq([key : Keys, len : Nat \ {0}])
  /\ SegSize \in Nat \ {0} /\ NumSegs \in Nat /\ Budget \in Nat \ {0}
  /\ \A l \in Lens \cup {Loaded[i].len : i \in DOMAIN Loaded} : l <= SegSize
  /\ MaxPuts \in Nat /\ MaxGen \in Nat /\ MaxCycles \in Nat

VARIABLES t1,                      \* offset of a key's record, or None
          rec,                     \* the records of T2, by offset
          used, base,              \* bytes_used, base_boundary
          hole,                    \* segments whose bytes were deallocated
          live,                    \* T2Ownership::seg_live_
          lock,                    \* the key's stripe: its owner
          pc, key, new,            \* of a writer and of the relocation
          pending,                 \* reserved WAL records, in order
          durable,                 \* newest durable record of each key
          gen, count,              \* active segment; checkpoint_count
          cpc, target, draft,      \* the checkpoint thread
          manifest, chk,           \* committed: t2_bytes_used, T1 checkpoint
          dpc, force,              \* the cycle, and whether defragment() runs it
          queue,                   \* pending_punch_
          supported,               \* punch_supported
          lastChk, lastBp,         \* last_checkpoint, last_overhead_bp
          begun,                   \* what the cycle read when it began
          todo, punched, victims, moved,
          cycles, puts,            \* counters for the bounds
          seen                     \* history: offsets T1 named since the cycle began

storeVars == <<t1, rec, used, live, lock>>
walVars == <<pending, durable>>
ckptVars == <<base, gen, count, cpc, target, draft, manifest, chk>>
callVars == <<pc, key, new, puts>>
stateVars == <<force, queue, supported, lastChk, lastBp, begun>>
cycleVars == <<todo, punched, victims, moved, cycles>>
vars == <<storeVars, hole, walVars, ckptVars, callVars, dpc, stateVars, cycleVars,
          seen>>

None == -1
Capacity == SegSize * NumSegs
Segs == 0 .. NumSegs - 1
Threads == Writers \cup {Defrag}

seg_index(o) == o \div SegSize

\* The record at an offset; what a hole left of it.
Intact(o) == (seg_index(o) .. seg_index(o + rec[o].len - 1)) \cap hole = {}
Content(o) == IF o = None THEN 0 ELSE IF Intact(o) THEN rec[o].val ELSE None

\* The offsets a lookup may return.
Named(t) == {t[k] : k \in Keys} \ {None}

\* The i-th loaded record starts where the one before it ends.
LoadedAt(i) == FoldLeft(LAMBDA sum, r : sum + r.len, 0, SubSeq(Loaded, 1, i - 1))
LoadedSize == LoadedAt(Len(Loaded) + 1)
LoadedT1 ==
  [k \in Keys |->
     LET own == {i \in DOMAIN Loaded : Loaded[i].key = k}
     IN IF own = {} THEN None ELSE LoadedAt(Max(own))]

\* load_checkpoint_if_present() counts, by the segment they start in, the blocks of
\* the records that T1 names.
LiveIn(t) ==
  [s \in Segs |->
     Cardinality(UNION {o .. o + rec[o].len - 1 :
                          o \in {o \in Named(t) : seg_index(o) = s}})]

\* A store that was opened on a checkpoint.
Init ==
  /\ rec = [o \in {LoadedAt(i) : i \in DOMAIN Loaded} |->
              LET i == CHOOSE i \in DOMAIN Loaded : LoadedAt(i) = o
              IN [key |-> Loaded[i].key, len |-> Loaded[i].len, val |-> MaxPuts + i]]
  /\ t1 = LoadedT1 /\ used = LoadedSize /\ live = LiveIn(t1)
  /\ lock = [k \in Keys |-> Nil] /\ hole = {}
  /\ pending = << >> /\ durable = [k \in Keys |-> [val |-> 0, gen |-> -1]]
  /\ base = used /\ gen = 1 /\ count = 0 /\ cpc = "idle" /\ target = 0
  /\ draft = t1 /\ manifest = used /\ chk = t1
  /\ pc = [t \in Threads |-> "idle"] /\ key = [t \in Threads |-> Nil]
  /\ new = [t \in Threads |-> None] /\ puts = 0
  /\ dpc = "idle" /\ force = FALSE /\ queue = {}
  /\ supported = TRUE /\ lastChk = 0 /\ lastBp = 0
  /\ begun = [base |-> 0, used |-> 0, count |-> 0, bp |-> 0]
  /\ todo = {} /\ punched = {} /\ victims = {} /\ moved = 0 /\ cycles = 0
  /\ seen = {}

-----------------------------------------------------------------------------
(* Writers: insert, update by append, remove.                              *)

\* note_replace(): segment accounting of one T1 payload replaced by another.
NoteReplace(old, o, len) ==
  live' = [s \in Segs |->
             live[s] - (IF old # None /\ seg_index(old) = s THEN rec[old].len ELSE 0)
                     + (IF o # None /\ seg_index(o) = s THEN len ELSE 0)]

\* Mutant: only the new record is accounted for.
AppendNoted(t, k, len, val) ==
  /\ lock[k] = Nil /\ used + len <= Capacity
  /\ lock' = [lock EXCEPT ![k] = t]
  /\ rec' = [o \in DOMAIN rec \cup {used} |->
               IF o = used THEN [key |-> k, len |-> len, val |-> val] ELSE rec[o]]
  /\ used' = used + len
  /\ NoteReplace(None, used, len)
  /\ key' = [key EXCEPT ![t] = k] /\ new' = [new EXCEPT ![t] = used]
  /\ pc' = [pc EXCEPT ![t] = "publish"]
  /\ UNCHANGED t1

\* write_entry_lockfree() under the stripe: append_default(), then the
\* accounting, ahead of the T1 put.
AppendEntry(t, k, len, val) ==
  /\ lock[k] = Nil /\ used + len <= Capacity
  /\ lock' = [lock EXCEPT ![k] = t]
  /\ rec' = [o \in DOMAIN rec \cup {used} |->
               IF o = used THEN [key |-> k, len |-> len, val |-> val] ELSE rec[o]]
  /\ used' = used + len
  /\ NoteReplace(t1[k], used, len)
  /\ key' = [key EXCEPT ![t] = k] /\ new' = [new EXCEPT ![t] = used]
  /\ pc' = [pc EXCEPT ![t] = "publish"]
  /\ UNCHANGED t1

\* append_default() has taken the space it then finds missing.
AppendFails(k, len) ==
  /\ lock[k] = Nil /\ used + len > Capacity
  /\ used' = used + len
  /\ UNCHANGED <<t1, rec, live, lock>>

\* The T1 put, the release of the write handle, the WAL reservation, and the
\* release of the stripe.
PublishEntry(t) ==
  /\ pc[t] = "publish"
  /\ t1' = [t1 EXCEPT ![key[t]] = new[t]]
  /\ lock' = [lock EXCEPT ![key[t]] = Nil]
  /\ pending' = Append(pending, [key |-> key[t], val |-> rec[new[t]].val, by |-> t])
  /\ new' = [new EXCEPT ![t] = None]
  /\ seen' = IF dpc = "idle" THEN {} ELSE seen \cup {new[t]}
  /\ UNCHANGED <<rec, used, live, durable>>

Put(w, k, len) ==
  /\ pc[w] = "idle"
  /\ puts < MaxPuts                            \* bound, not in the code
  /\ puts' = puts + 1
  /\ AppendEntry(w, k, len, puts + 1)
  /\ UNCHANGED <<hole, walVars, ckptVars, dpc, stateVars, cycleVars, seen>>

\* The call throws.
PutFails(w, k, len) ==
  /\ pc[w] = "idle"
  /\ puts < MaxPuts                            \* bound, not in the code
  /\ puts' = puts + 1
  /\ AppendFails(k, len)
  /\ UNCHANGED <<hole, walVars, ckptVars, pc, key, new, dpc, stateVars, cycleVars, seen>>

Publish(w) ==
  /\ PublishEntry(w)
  /\ pc' = [pc EXCEPT ![w] = "await"]
  /\ UNCHANGED <<hole, ckptVars, key, puts, dpc, stateVars, cycleVars>>

\* remove_impl(): the tombstone first ...
RemoveKey(w, k) ==
  /\ pc[w] = "idle" /\ lock[k] = Nil /\ t1[k] # None
  /\ puts < MaxPuts                            \* bound, not in the code
  /\ puts' = puts + 1
  /\ lock' = [lock EXCEPT ![k] = w]
  /\ t1' = [t1 EXCEPT ![k] = None]
  /\ key' = [key EXCEPT ![w] = k] /\ new' = [new EXCEPT ![w] = t1[k]]
  /\ pc' = [pc EXCEPT ![w] = "note"]
  /\ UNCHANGED <<rec, used, live, hole, walVars, ckptVars, dpc, stateVars, cycleVars,
                 seen>>

\* ... then the accounting and the WAL reservation.
NoteRemove(w) ==
  /\ pc[w] = "note"
  /\ NoteReplace(new[w], None, 0)
  /\ lock' = [lock EXCEPT ![key[w]] = Nil]
  /\ pending' = Append(pending, [key |-> key[w], val |-> 0, by |-> w])
  /\ new' = [new EXCEPT ![w] = None]
  /\ pc' = [pc EXCEPT ![w] = "await"]
  /\ UNCHANGED <<t1, rec, used, hole, durable, ckptVars, key, puts, dpc, stateVars,
                 cycleVars, seen>>

Reserved(t) == \E i \in DOMAIN pending : pending[i].by = t

\* await_durable() returns.
Return(w) ==
  /\ pc[w] = "await" /\ ~Reserved(w)
  /\ pc' = [pc EXCEPT ![w] = "idle"] /\ key' = [key EXCEPT ![w] = Nil]
  /\ UNCHANGED <<storeVars, hole, walVars, ckptVars, new, puts, dpc, stateVars, cycleVars,
                 seen>>

\* A round of group commit, into the active segment.
CommitRound ==
  /\ pending # << >>
  /\ pending' = << >>
  /\ durable' = [k \in Keys |->
       LET own == {i \in DOMAIN pending : pending[i].key = k}
       IN IF own = {} THEN durable[k]
          ELSE [val |-> pending[Max(own)].val, gen |-> gen]]
  /\ UNCHANGED <<storeVars, hole, ckptVars, callVars, dpc, stateVars, cycleVars, seen>>

-----------------------------------------------------------------------------
(* checkpoint_internal(), in the steps that a cycle may meet.              *)

\* The target is captured while no write handle is held; one past the mapping
\* makes msync() fail, and the cycle is given up.
Capture ==
  /\ cpc = "idle" /\ \A t \in Threads : pc[t] # "publish"
  /\ used <= Capacity
  /\ gen < MaxGen                              \* bound, not in the code
  /\ target' = used
  /\ cpc' = "dump"
  /\ UNCHANGED <<storeVars, hole, walVars, base, gen, count, draft, manifest, chk,
                 callVars, dpc, stateVars, cycleVars, seen>>

Dump ==
  /\ cpc = "dump" /\ cpc' = "rename"
  /\ draft' = t1
  /\ UNCHANGED <<storeVars, hole, walVars, base, gen, count, target, manifest, chk,
                 callVars, dpc, stateVars, cycleVars, seen>>

\* The T1 checkpoint takes its place first ...
RenameT1Checkpoint ==
  /\ cpc = "rename" /\ cpc' = "manifest"
  /\ chk' = draft
  /\ UNCHANGED <<storeVars, hole, walVars, base, gen, count, target, draft, manifest,
                 callVars, dpc, stateVars, cycleVars, seen>>

\* ... and a crash may come before the manifest does.
WriteManifest ==
  /\ cpc = "manifest" /\ cpc' = "base"
  /\ manifest' = target
  /\ UNCHANGED <<storeVars, hole, walVars, base, gen, count, target, draft, chk,
                 callVars, dpc, stateVars, cycleVars, seen>>

PublishBase ==
  /\ cpc = "base" /\ cpc' = "rotate"
  /\ base' = target
  /\ UNCHANGED <<storeVars, hole, walVars, gen, count, target, draft, manifest, chk,
                 callVars, dpc, stateVars, cycleVars, seen>>

\* Mutant: the previous segment is unlinked as well.
RotateAlone ==
  /\ cpc = "rotate" /\ cpc' = "idle"
  /\ gen' = gen + 2 /\ count' = count + 1 /\ target' = 0
  /\ UNCHANGED <<storeVars, hole, walVars, base, draft, manifest, chk, callVars,
                 dpc, stateVars, cycleVars, seen>>

\* rotate_segment(), which keeps the previous segment, and the count.
Rotate ==
  /\ cpc = "rotate" /\ cpc' = "idle"
  /\ gen' = gen + 1 /\ count' = count + 1 /\ target' = 0
  /\ UNCHANGED <<storeVars, hole, walVars, base, draft, manifest, chk, callVars,
                 dpc, stateVars, cycleVars, seen>>

-----------------------------------------------------------------------------
(* defrag_cycle(), of the worker or of defragment().                       *)

LiveTotal == MapThenSumSet(LAMBDA s : live[s], Segs)

\* The share of garbage, in basis points.
Overhead(u) == IF u = 0 \/ LiveTotal >= u THEN 0 ELSE ((u - LiveTotal) * 10000) \div u

\* kDefragSpaceOverheadPercent is 20.
ThresholdBp == (100 - 20) * 100

scan_wanted(bp, c) ==
  /\ bp >= 500
  /\ \/ bp >= ThresholdBp /\ lastBp < ThresholdBp
     \/ bp >= lastBp + 500
     \/ c # lastChk

defrag_wanted == queue # {} \/ scan_wanted(Overhead(used), count)

\* defrag_cycle(): the single flight is free and holes can be punched; the
\* frontiers are read and the queue is copied.
BeginCycle(f) ==
  /\ dpc = "idle" /\ supported
  /\ cycles < MaxCycles                        \* bound, not in the code
  /\ dpc' = "punch" /\ force' = f
  /\ begun' = [base |-> base, used |-> used, count |-> count, bp |-> 0]
  /\ todo' = queue /\ cycles' = cycles + 1
  /\ seen' = Named(t1)
  /\ UNCHANGED <<storeVars, hole, walVars, ckptVars, callVars, queue, supported, lastChk,
                 lastBp, punched, victims, moved>>

\* defragment() waits for the single flight.
Defragment == BeginCycle(TRUE)

\* defrag_worker_loop() asks first whether a cycle is wanted.
WorkerCycle == defrag_wanted /\ BeginCycle(FALSE)

is_evacuated_segment(s) == live[s] = 0 /\ (s + 1) * SegSize <= base

\* punch_evacuated_segments(): an evacuated segment gets a hole, or has one
\* already ...
PunchSegment(s) ==
  /\ dpc = "punch" /\ s \in todo /\ is_evacuated_segment(s)
  /\ todo' = todo \ {s} /\ punched' = punched \cup {s}
  /\ hole' = hole \cup {s}
  /\ UNCHANGED <<storeVars, walVars, ckptVars, callVars, dpc, stateVars, victims, moved,
                 cycles, seen>>

\* ... and the first failure turns defragmentation off for good.
PunchFails(s) ==
  /\ dpc = "punch" /\ s \in todo /\ is_evacuated_segment(s)
  /\ supported' = FALSE /\ queue' = {}
  /\ todo' = {} /\ punched' = {}
  /\ dpc' = "decide"
  /\ UNCHANGED <<storeVars, hole, walVars, ckptVars, callVars, force, lastChk,
                 lastBp, begun, victims, moved, cycles, seen>>

\* Those that are not evacuated are passed over; exactly the punched ones leave
\* the queue.
FinishPunch ==
  /\ dpc = "punch" /\ \A s \in todo : ~is_evacuated_segment(s)
  /\ queue' = queue \ punched
  /\ todo' = {} /\ punched' = {}
  /\ dpc' = "decide"
  /\ UNCHANGED <<storeVars, hole, walVars, ckptVars, callVars, force, supported,
                 lastChk, lastBp, begun, victims, moved, cycles, seen>>

SegUsed(s) == Min({(s + 1) * SegSize, begun.used}) - s * SegSize
Garbage(s) == SegUsed(s) - Min({live[s], SegUsed(s)})
EstMove(S) == MapThenSumSet(LAMBDA s : Min({live[s], SegSize}), S)

\* Frozen segments with at least half garbage.
Candidates ==
  {s \in Segs : /\ (s + 1) * SegSize <= begun.base /\ s * SegSize < begun.used
                /\ Garbage(s) > 0 /\ Garbage(s) * 2 >= SegUsed(s)}

\* select_victims(): those with most garbage first, until the next one would
\* start beyond the budget.
select_victims ==
  {V \in SUBSET Candidates :
     /\ \A v \in V, c \in Candidates \ V : Garbage(v) >= Garbage(c)
     /\ V = Candidates \/ EstMove(V) >= Budget
     /\ V # {} => \E last \in V : /\ EstMove(V \ {last}) < Budget
                                  /\ \A v \in V : Garbage(v) >= Garbage(last)}

\* The end of a cycle; scanned says whether the markers are stored.
EndCycle(scanned) ==
  /\ dpc' = "idle" /\ force' = FALSE
  /\ lastChk' = (IF scanned THEN begun.count ELSE lastChk)
  /\ lastBp' = (IF scanned THEN begun.bp ELSE lastBp)
  /\ begun' = [base |-> 0, used |-> 0, count |-> 0, bp |-> 0]
  /\ todo' = {} /\ victims' = {} /\ moved' = 0 /\ seen' = {}

\* A full scan runs by force or when it is wanted, and finds victims or none.
Decide ==
  /\ dpc = "decide"
  /\ \/ /\ force \/ scan_wanted(Overhead(begun.used), begun.count)
        /\ \E V \in select_victims : victims' = V
        /\ begun' = [begun EXCEPT !.bp = Overhead(begun.used)]
        /\ dpc' = IF victims' = {} THEN "finish" ELSE "collect"
        /\ UNCHANGED <<force, lastChk, lastBp, todo, moved, seen>>
     \/ /\ ~force /\ ~scan_wanted(Overhead(begun.used), begun.count)
        /\ EndCycle(FALSE)
  /\ UNCHANGED <<storeVars, hole, walVars, ckptVars, callVars, queue, supported,
                 punched, cycles>>

\* Mutant: a live tail that reaches into a victim is left where it is.
CollectStarting ==
  /\ dpc = "collect" /\ dpc' = "relocate"
  /\ todo' = {t1[k] : k \in {k \in Keys : /\ t1[k] # None /\ t1[k] < begun.used
                                          /\ seg_index(t1[k]) \in victims}}
  /\ UNCHANGED <<storeVars, hole, walVars, ckptVars, callVars, stateVars, punched, victims,
                 moved, cycles, seen>>

\* collect_victim_offsets(): records that start in a victim, or end in one.  Its
\* scan of T1 is one complete look, which takes keys with distinct prefixes.
Collect ==
  /\ dpc = "collect" /\ dpc' = "relocate"
  /\ todo' = {t1[k] : k \in {k \in Keys :
       /\ t1[k] # None /\ t1[k] < begun.used
       /\ \/ seg_index(t1[k]) \in victims
          \/ seg_index(t1[k]) + 1 \in victims
             /\ t1[k] + rec[t1[k]].len > (seg_index(t1[k]) + 1) * SegSize}}
  /\ UNCHANGED <<storeVars, hole, walVars, ckptVars, callVars, stateVars, punched, victims,
                 moved, cycles, seen>>

\* The next record, in the order of offsets, and the key its bytes say.
NextKey == rec[Min(todo)].key

\* relocate_offset(): under the stripe T1 names another record by now ...
MovedOn ==
  /\ dpc = "relocate" /\ todo # {} /\ pc[Defrag] = "idle"
  /\ lock[NextKey] = Nil /\ t1[NextKey] # Min(todo)
  /\ todo' = todo \ {Min(todo)}
  /\ UNCHANGED <<storeVars, hole, walVars, ckptVars, callVars, dpc, stateVars, punched,
                 victims, moved, cycles, seen>>

\* ... or still this one: it is written once more, as an update would be ...
Relocate ==
  /\ dpc = "relocate" /\ todo # {} /\ pc[Defrag] = "idle"
  /\ t1[NextKey] = Min(todo)
  /\ AppendEntry(Defrag, NextKey, rec[Min(todo)].len, Content(Min(todo)))
  /\ UNCHANGED <<hole, walVars, ckptVars, puts, dpc, stateVars, cycleVars, seen>>

\* ... unless T2 is full: the exception ends the cycle, after its awaiter.
RelocateFails ==
  /\ dpc = "relocate" /\ todo # {} /\ pc[Defrag] = "idle"
  /\ t1[NextKey] = Min(todo)
  /\ AppendFails(NextKey, rec[Min(todo)].len)
  /\ dpc' = "unwind"
  /\ UNCHANGED <<hole, walVars, ckptVars, callVars, stateVars, cycleVars,
                 seen>>

\* Moved; beyond the budget the rest stays.
Relocated ==
  /\ PublishEntry(Defrag)
  /\ pc' = [pc EXCEPT ![Defrag] = "idle"] /\ key' = [key EXCEPT ![Defrag] = Nil]
  /\ moved' = moved + rec[new[Defrag]].len
  /\ todo' = IF moved' >= Budget THEN {} ELSE todo \ {Min(todo)}
  /\ UNCHANGED <<hole, ckptVars, puts, dpc, stateVars, punched, victims, cycles>>

\* Mutant: an evacuated segment is punched at once.
DrainPunching ==
  /\ dpc \in {"relocate", "unwind"} /\ pc[Defrag] = "idle" /\ ~Reserved(Defrag)
  /\ dpc = "relocate" => todo = {}
  /\ hole' = hole \cup {v \in victims : is_evacuated_segment(v)}
  /\ IF dpc = "relocate"
       THEN dpc' = "finish"
            /\ UNCHANGED <<force, lastChk, lastBp, begun, todo, victims, moved, seen>>
       ELSE EndCycle(FALSE)
  /\ UNCHANGED <<storeVars, walVars, ckptVars, callVars, queue, supported, punched, cycles>>

\* WalGroupAwaiter::drain().
Drain ==
  /\ dpc \in {"relocate", "unwind"} /\ pc[Defrag] = "idle" /\ ~Reserved(Defrag)
  /\ dpc = "relocate" => todo = {}
  /\ IF dpc = "relocate"
       THEN dpc' = "finish"
            /\ UNCHANGED <<force, lastChk, lastBp, begun, todo, victims, moved, seen>>
       ELSE EndCycle(FALSE)
  /\ UNCHANGED <<storeVars, hole, walVars, ckptVars, callVars, queue, supported, punched,
                 cycles>>

\* queue_evacuated_victims(), then the markers of the scan.
Finish ==
  /\ dpc = "finish"
  /\ queue' = queue \cup {v \in victims : live[v] = 0}
  /\ EndCycle(TRUE)
  /\ UNCHANGED <<storeVars, hole, walVars, ckptVars, callVars, supported, punched, cycles>>

-----------------------------------------------------------------------------
WriterStep(w) == Publish(w) \/ NoteRemove(w) \/ Return(w)

CheckpointStep ==
  Dump \/ RenameT1Checkpoint \/ WriteManifest \/ PublishBase \/ Rotate

CycleStep ==
  \/ \E s \in Segs : PunchSegment(s) \/ PunchFails(s)
  \/ FinishPunch \/ Decide \/ Collect \/ MovedOn \/ Relocate \/ RelocateFails
  \/ Relocated \/ Drain \/ Finish

Next ==
  \/ \E w \in Writers, k \in Keys :
       RemoveKey(w, k) \/ \E len \in Lens : Put(w, k, len) \/ PutFails(w, k, len)
  \/ \E w \in Writers : WriterStep(w)
  \/ CommitRound
  \/ Capture \/ CheckpointStep
  \/ Defragment \/ WorkerCycle \/ CycleStep

Spec == Init /\ [][Next]_vars

-----------------------------------------------------------------------------
\* The record the accounting of a key stands for: in the middle of a put the new
\* one already, in the middle of a remove the old one still.
Counted(k) ==
  IF lock[k] # Nil /\ pc[lock[k]] \in {"publish", "note"} THEN new[lock[k]] ELSE t1[k]

\* The counters are exact: none of a put, a remove and a relocation, whatever
\* order they run in, counts a record twice or forgets one, so that a zero
\* means evacuated.
Accounting == live = LiveIn([k \in Keys |-> Counted(k)])

\* No hole is punched into a record that T1 names: not into one that only ends in the
\* segment, and not into one whose replacement is accounted for and not yet
\* published, since the cycle that finds the segment empty waited for its stripe.
\* (It holds while a cycle moves all it collected, within its budget.)
LiveIntact == \A k \in Keys : t1[k] # None => Intact(t1[k])

\* The value of a key after a crash now: WAL replay over the T1 checkpoint.  Bytes
\* from the manifest's t2_bytes_used on are not adopted, and written over.
Recovered(k) ==
  IF durable[k].gen >= gen - 1 THEN durable[k].val
  ELSE IF chk[k] # None /\ chk[k] >= manifest THEN None
  ELSE Content(chk[k])

Logged(k) == \A i \in DOMAIN pending : pending[i].key # k

\* A crash at any moment of a cycle or a checkpoint leaves every key that nobody is
\* writing or moving with its value, although the bytes that the T1 checkpoint
\* names may have been punched: the moves of a punched segment are in the WAL or
\* in the checkpoint.
CrashKeepsValue ==
  \A k \in Keys :
    Logged(k) /\ (\A t \in Threads : key[t] # k) => Recovered(k) = Content(t1[k])

\* The same for a key that is being moved, but that no call is writing: "replay never
\* sees the move (it wasn't WAL-logged yet) and rebuilds T1 against the intact old
\* bytes".
MoveKeepsValue ==
  \A k \in Keys :
    (\A w \in Writers : key[w] # k) => Recovered(k) = Content(t1[k])

\* Quarantine: whatever a lookup named since the cycle began can be read until the cycle
\* is over, also when the record was moved or overwritten meanwhile.
Quarantine == \A o \in seen : Intact(o)
=============================================================================
