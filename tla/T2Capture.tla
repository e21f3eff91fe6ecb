----------------------------- MODULE T2Capture -----------------------------
(***************************************************************************)
(* T2, the append-only flat file of VMemKV, with the two protocols that    *)
(* let a checkpoint capture a frontier of it while writers keep running:   *)
(*                                                                         *)
(*  - WriterGate: an append registers, re-checks the stop flag and keeps   *)
(*    its handle until its T1 publish has returned; the checkpoint raises  *)
(*    the flag and drains the registry before it reads bytes_used;         *)
(*  - watermark + InPlaceUpdateBarrier: an in-place update registers the   *)
(*    offset it targets and only then reads base_boundary and the          *)
(*    watermark; the checkpoint raises the watermark and then drains the   *)
(*    registered offsets before msync() reads the range.                   *)
(*                                                                         *)
(* A value is two words, so a half-finished in-place write is visible.  An *)
(* offset counts record slots; Len is the space a value's record takes.    *)
(* T1 is one atomic map here and the WAL is the last record reserved for   *)
(* each key.  Values small enough to be inlined in T1 never reach T2 and   *)
(* are left out.  Memory is sequentially consistent.                       *)
(***************************************************************************)
EXTENDS Integers, FiniteSets

CONSTANTS Writers,      \* threads that run insert/update/remove
          Keys,
          Values,       \* values too large to be inlined
          Len,          \* Len[v]: space a record of v takes, its alloc_len
          Capacity,     \* T2Memory::capacity
          VersionMod,   \* a record's version is a 64-bit word: 2^64
          MaxVersion,   \* bound: seqlock version an in-place update may reach
          MaxUsed,      \* bound: bytes_used at which no request starts any more
          Nil           \* no key, no value, no lock owner

ASSUME LenAssumption == Len \in [Values -> Nat \ {0}]
ASSUME CapacityAssumption == Capacity \in Nat
ASSUME VersionAssumption == VersionMod \in Nat \ {0}
ASSUME BoundAssumption == MaxVersion \in Nat /\ MaxUsed \in Nat
ASSUME NilAssumption == /\ Nil \notin Keys
                        /\ Nil \notin Values
                        /\ Nil \notin Writers

VARIABLES bytesUsed,     \* T2Memory::bytes_used
          baseBoundary,  \* T2Memory::base_boundary
          mem,           \* the MAP_SHARED mapping: offset -> record
          disk,          \* what of it has reached the disk
          manifest,      \* t2_bytes_used of the committed manifest
          stop,          \* WriterGate::stop_
          registered,    \* WriterGate::writers_: threads whose slot is set
          watermark,     \* T2Ownership::watermark_
          inPlace,       \* InPlaceUpdateBarrier::offsets_: 0, or offset + 1
          t1,            \* the T1 index, key -> offset or NotFound
          logged,        \* value of the newest WAL record of each key
          lock,          \* the key's stripe mutex
          pc, key, val, off,          \* per writer: step, request, offset
          cpc, oldBase, target, scan, dirty  \* the checkpoint thread

t2Vars == <<bytesUsed, baseBoundary, mem, disk, manifest>>
gateVars == <<stop, registered>>
ownVars == <<watermark, inPlace>>
kvVars == <<t1, logged, lock>>
writerVars == <<pc, key, val, off>>
ckptVars == <<cpc, oldBase, target, scan, dirty>>
vars == <<t2Vars, gateVars, ownVars, kvVars, writerVars, ckptVars>>

NotFound == -1                          \* STORE_NOT_FOUND
Offsets == 0 .. Capacity - 1
Records == [key : Keys \cup {Nil}, alloc : Nat,
            lo : Values \cup {Nil}, hi : Values \cup {Nil}, ver : Nat]
Blank == [key |-> Nil, alloc |-> 0, lo |-> Nil, hi |-> Nil, ver |-> 0]

\* write_record(): the record an append leaves at its offset.
NewRecord(k, v) ==
  [key |-> k, alloc |-> Len[v], lo |-> v, hi |-> v, ver |-> 0]

InPlaceWriting == {"verOdd", "lo", "hi", "verEven", "logInPlace"}
HoldsHandle == {"reserve", "write", "publish", "release"}
WriterSteps == {"idle", "gate", "register", "check", "log", "logDelete",
                "enter", "checkBase", "checkWatermark"}
               \cup InPlaceWriting \cup HoldsHandle
CkptSteps == {"idle", "stop", "scanStart", "scan", "resume", "claim",
              "drainStart", "drain", "msync", "publish", "advance"}

-----------------------------------------------------------------------------
\* A fresh file, or one adopted with a single record below the manifest's
\* t2_bytes_used.  T2Memory starts base_boundary at that value; the watermark
\* is not persisted and starts at 0.
Fresh(used, file, index, log) ==
  /\ bytesUsed = used /\ baseBoundary = used /\ manifest = used
  /\ mem = file /\ disk = file
  /\ t1 = index /\ logged = log

Init ==
  /\ LET none == [k \in Keys |-> NotFound]
         noLog == [k \in Keys |-> Nil]
         empty == [o \in Offsets |-> Blank]
     IN \/ Fresh(0, empty, none, noLog)
        \/ \E k \in Keys, v \in Values :
              /\ Len[v] <= Capacity
              /\ Fresh(Len[v], [empty EXCEPT ![0] = NewRecord(k, v)],
                       [none EXCEPT ![k] = 0], [noLog EXCEPT ![k] = v])
  /\ stop = FALSE /\ registered = {}
  /\ watermark = 0 /\ inPlace = [t \in Writers |-> 0]
  /\ lock = [k \in Keys |-> Nil]
  /\ pc = [t \in Writers |-> "idle"]
  /\ key = [t \in Writers |-> Nil] /\ val = [t \in Writers |-> Nil]
  /\ off = [t \in Writers |-> 0]
  /\ cpc = "idle" /\ oldBase = 0 /\ target = 0 /\ scan = {} /\ dirty = {}

Goto(t, step) == pc' = [pc EXCEPT ![t] = step]

\* The request is over: its stripe is unlocked and its locals are gone.
Return(t) ==
  /\ lock' = [lock EXCEPT ![key[t]] = Nil]
  /\ key' = [key EXCEPT ![t] = Nil]
  /\ val' = [val EXCEPT ![t] = Nil]
  /\ off' = [off EXCEPT ![t] = 0]
  /\ Goto(t, "idle")

-----------------------------------------------------------------------------
(* Writers: insert_impl, update_impl, remove_impl under the key's stripe.  *)

\* Mutant: the stripe does not exclude a second writer of the key.
LockStripeShared(t, k, v) ==
  /\ pc[t] = "idle"
  /\ bytesUsed < MaxUsed
  /\ lock' = [lock EXCEPT ![k] = t]
  /\ key' = [key EXCEPT ![t] = k]
  /\ val' = [val EXCEPT ![t] = v]

\* with_key_stripe() + the T1 lookup that opens each handler.  A handler whose
\* lookup refuses the request unlocks and returns, so it changes nothing.
LockStripe(t, k, v) ==
  /\ pc[t] = "idle"
  /\ bytesUsed < MaxUsed                       \* bound, not in the code
  /\ lock[k] = Nil
  /\ lock' = [lock EXCEPT ![k] = t]
  /\ key' = [key EXCEPT ![t] = k]
  /\ val' = [val EXCEPT ![t] = v]

Insert(t, k, v) ==
  /\ LockStripe(t, k, v)
  /\ t1[k] = NotFound
  /\ Goto(t, "gate")
  /\ UNCHANGED <<t2Vars, gateVars, ownVars, t1, logged, off, ckptVars>>

Update(t, k, v) ==
  /\ LockStripe(t, k, v)
  /\ t1[k] # NotFound
  /\ mem[t1[k]].ver + 2 <= MaxVersion          \* bound, not in the code
  /\ off' = [off EXCEPT ![t] = t1[k]]
  /\ Goto(t, "enter")
  /\ UNCHANGED <<t2Vars, gateVars, ownVars, t1, logged, ckptVars>>

\* The tombstone is put before the WAL record is reserved.
Remove(t, k) ==
  /\ LockStripe(t, k, Nil)
  /\ t1[k] # NotFound
  /\ t1' = [t1 EXCEPT ![k] = NotFound]
  /\ Goto(t, "logDelete")
  /\ UNCHANGED <<t2Vars, gateVars, ownVars, logged, off, ckptVars>>

\* Mutant: a rejected writer registers again at once, without waiting.
AwaitResumeSpinning(t) ==
  /\ pc[t] = "gate"
  /\ Goto(t, "register")
  /\ UNCHANGED <<t2Vars, gateVars, ownVars, kvVars, key, val, off, ckptVars>>

\* WriterGate::acquire(): the outer loop waits with no slot registered ...
AwaitResume(t) ==
  /\ pc[t] = "gate"
  /\ ~stop
  /\ Goto(t, "register")
  /\ UNCHANGED <<t2Vars, gateVars, ownVars, kvVars, key, val, off, ckptVars>>

Acquire(t) ==
  /\ pc[t] = "register"
  /\ registered' = registered \cup {t}
  /\ Goto(t, "check")
  /\ UNCHANGED <<t2Vars, stop, ownVars, kvVars, key, val, off, ckptVars>>

\* Mutant: the flag is not read again after the registration.
CheckStopOnce(t) ==
  /\ pc[t] = "check"
  /\ Goto(t, "reserve")
  /\ UNCHANGED <<t2Vars, gateVars, ownVars, kvVars, key, val, off, ckptVars>>

\* ... and the flag is read again once the slot is visible.
CheckStop(t) ==
  /\ pc[t] = "check"
  /\ IF stop THEN /\ registered' = registered \ {t}
                  /\ Goto(t, "gate")
             ELSE /\ Goto(t, "reserve")
                  /\ UNCHANGED registered
  /\ UNCHANGED <<t2Vars, stop, ownVars, kvVars, key, val, off, ckptVars>>

\* Mutant: the capacity is not checked.
ReserveUnchecked(t) ==
  /\ pc[t] = "reserve"
  /\ bytesUsed' = bytesUsed + Len[val[t]]
  /\ off' = [off EXCEPT ![t] = bytesUsed]
  /\ Goto(t, "write")
  /\ UNCHANGED <<baseBoundary, mem, disk, manifest, gateVars, ownVars, kvVars,
                 key, val, ckptVars>>

\* append_default(): the space is taken before the capacity is checked, and is
\* not given back when the check throws; the throw releases handle and stripe.
Reserve(t) ==
  /\ pc[t] = "reserve"
  /\ bytesUsed' = bytesUsed + Len[val[t]]
  /\ IF bytesUsed' > Capacity
       THEN /\ registered' = registered \ {t}
            /\ Return(t)
       ELSE /\ off' = [off EXCEPT ![t] = bytesUsed]
            /\ Goto(t, "write")
            /\ UNCHANGED <<registered, lock, key, val>>
  /\ UNCHANGED <<baseBoundary, mem, disk, manifest, stop, ownVars, t1, logged,
                 ckptVars>>

\* Mutant: the offset is computed from bytes_used as it is now, not from the
\* value the fetch_add returned.
WriteRecordReloaded(t) ==
  /\ pc[t] = "write"
  /\ mem' = [mem EXCEPT ![bytesUsed - Len[val[t]]] = NewRecord(key[t], val[t])]
  /\ Goto(t, "publish")
  /\ UNCHANGED <<bytesUsed, baseBoundary, disk, manifest, gateVars, ownVars,
                 kvVars, key, val, off, ckptVars>>

\* write_record() into the space that was reserved.
WriteRecord(t) ==
  /\ pc[t] = "write"
  /\ mem' = [mem EXCEPT ![off[t]] = NewRecord(key[t], val[t])]
  /\ Goto(t, "publish")
  /\ UNCHANGED <<bytesUsed, baseBoundary, disk, manifest, gateVars, ownVars,
                 kvVars, key, val, off, ckptVars>>

\* t1.put() of the encoded offset, the handle still held.
PublishT1(t) ==
  /\ pc[t] = "publish"
  /\ t1' = [t1 EXCEPT ![key[t]] = off[t]]
  /\ Goto(t, "release")
  /\ UNCHANGED <<t2Vars, gateVars, ownVars, logged, lock, key, val, off, ckptVars>>

ReleaseHandle(t) ==
  /\ pc[t] = "release"
  /\ registered' = registered \ {t}
  /\ Goto(t, "log")
  /\ UNCHANGED <<t2Vars, stop, ownVars, kvVars, key, val, off, ckptVars>>

\* wal.reserve_*() as the last step under the stripe; then the stripe and, on
\* the in-place path, the barrier guard are released.
ReserveWal(t) ==
  /\ pc[t] \in {"log", "logDelete", "logInPlace"}
  /\ logged' = [logged EXCEPT ![key[t]] = val[t]]
  /\ inPlace' = [inPlace EXCEPT ![t] = 0]
  /\ Return(t)
  /\ UNCHANGED <<t2Vars, gateVars, watermark, t1, ckptVars>>

\* try_in_place_update(): register the offset, then look at the boundaries.
EnterInPlace(t) ==
  /\ pc[t] = "enter"
  /\ inPlace' = [inPlace EXCEPT ![t] = off[t] + 1]
  /\ Goto(t, "checkBase")
  /\ UNCHANGED <<t2Vars, gateVars, watermark, kvVars, key, val, off, ckptVars>>

\* Every FellThrough drops the guard and continues on the append path.
FallThrough(t) ==
  /\ inPlace' = [inPlace EXCEPT ![t] = 0]
  /\ Goto(t, "gate")

\* Mutant: only the size is compared.
CheckBaseSizeOnly(t) ==
  /\ pc[t] = "checkBase"
  /\ IF Len[val[t]] > mem[off[t]].alloc
       THEN FallThrough(t)
       ELSE Goto(t, "checkWatermark") /\ UNCHANGED inPlace
  /\ UNCHANGED <<t2Vars, gateVars, watermark, kvVars, key, val, off, ckptVars>>

CheckBase(t) ==
  /\ pc[t] = "checkBase"
  /\ IF Len[val[t]] > mem[off[t]].alloc \/ off[t] < baseBoundary
       THEN FallThrough(t)
       ELSE Goto(t, "checkWatermark") /\ UNCHANGED inPlace
  /\ UNCHANGED <<t2Vars, gateVars, watermark, kvVars, key, val, off, ckptVars>>

CheckWatermark(t) ==
  /\ pc[t] = "checkWatermark"
  /\ IF off[t] < watermark
       THEN FallThrough(t)
       ELSE Goto(t, "verOdd") /\ UNCHANGED inPlace
  /\ UNCHANGED <<t2Vars, gateVars, watermark, kvVars, key, val, off, ckptVars>>

\* update_value_at(): version to odd, the value a word at a time, version even.
UpdateValueAt(t) ==
  /\ \/ /\ pc[t] = "verOdd"
        /\ mem' = [mem EXCEPT ![off[t]].ver = (@ + 1) % VersionMod]
        /\ Goto(t, "lo")
     \/ /\ pc[t] = "lo"
        /\ mem' = [mem EXCEPT ![off[t]].lo = val[t]]
        /\ Goto(t, "hi")
     \/ /\ pc[t] = "hi"
        /\ mem' = [mem EXCEPT ![off[t]].hi = val[t]]
        /\ Goto(t, "verEven")
     \/ /\ pc[t] = "verEven"
        /\ mem' = [mem EXCEPT ![off[t]].ver = (@ + 1) % VersionMod]
        /\ Goto(t, "logInPlace")
  /\ UNCHANGED <<bytesUsed, baseBoundary, disk, manifest, gateVars, ownVars,
                 kvVars, key, val, off, ckptVars>>

WriterStep(t) ==
  \/ \E k \in Keys : \/ Remove(t, k)
                     \/ \E v \in Values : Insert(t, k, v) \/ Update(t, k, v)
  \/ AwaitResume(t) \/ Acquire(t) \/ CheckStop(t) \/ Reserve(t) \/ WriteRecord(t)
  \/ PublishT1(t) \/ ReleaseHandle(t) \/ ReserveWal(t)
  \/ EnterInPlace(t) \/ CheckBase(t) \/ CheckWatermark(t) \/ UpdateValueAt(t)

-----------------------------------------------------------------------------
(* The checkpoint thread: checkpoint_internal(), single-flight.            *)

CkptUnchanged == UNCHANGED <<kvVars, writerVars, registered, inPlace, mem, bytesUsed>>

\* capture_checkpoint_target(): remember the boundary an abort reverts to.
ReadOldBase ==
  /\ cpc = "idle"
  /\ oldBase' = baseBoundary
  /\ cpc' = "stop"
  /\ CkptUnchanged
  /\ UNCHANGED <<baseBoundary, disk, manifest, stop, watermark, target, scan, dirty>>

StopWriters ==
  /\ cpc = "stop"
  /\ stop' = TRUE
  /\ cpc' = "scanStart"
  /\ CkptUnchanged
  /\ UNCHANGED <<baseBoundary, disk, manifest, watermark, oldBase, target, scan, dirty>>

\* for_each_slot() reads the chunk count once: a thread whose chunk is allocated
\* later is not visited, a thread whose slot is already set always is.
StartScan(from, to, set) ==
  /\ cpc = from
  /\ scan' \in {s \in SUBSET Writers : set \subseteq s}
  /\ cpc' = to
  /\ CkptUnchanged
  /\ UNCHANGED <<baseBoundary, disk, manifest, stop, watermark, oldBase, target, dirty>>

StartWriterScan == StartScan("scanStart", "scan", registered)

\* Mutant: the in-place updates in flight are not waited for.
StartInPlaceScanEmpty == StartScan("drainStart", "drain", {})

StartInPlaceScan == StartScan("drainStart", "drain", {t \in Writers : inPlace[t] # 0})

\* One slot of wait_until_retired() / wait_until_epoch(target + 1); a slot that
\* has been passed is not visited again.
ScanSlot(t) ==
  /\ t \in scan
  /\ \/ cpc = "scan" /\ t \notin registered
     \/ cpc = "drain" /\ (inPlace[t] = 0 \/ inPlace[t] >= target + 1)
  /\ scan' = scan \ {t}
  /\ CkptUnchanged
  /\ UNCHANGED <<baseBoundary, disk, manifest, stop, watermark, cpc, oldBase, target, dirty>>

CaptureTarget ==
  /\ cpc = "scan" /\ scan = {}
  /\ target' = bytesUsed
  /\ cpc' = "resume"
  /\ CkptUnchanged
  /\ UNCHANGED <<baseBoundary, disk, manifest, stop, watermark, oldBase, scan, dirty>>

ResumeWriters ==
  /\ cpc = "resume"
  /\ stop' = FALSE
  /\ cpc' = "claim"
  /\ CkptUnchanged
  /\ UNCHANGED <<baseBoundary, disk, manifest, watermark, oldBase, target, scan, dirty>>

\* Mutant: the watermark claims only what the last cycle made durable.
ClaimWatermarkLow ==
  /\ cpc = "claim"
  /\ watermark' = oldBase
  /\ cpc' = "drainStart"
  /\ CkptUnchanged
  /\ UNCHANGED <<baseBoundary, disk, manifest, stop, oldBase, target, scan, dirty>>

ClaimWatermark ==
  /\ cpc = "claim"
  /\ watermark' = target
  /\ cpc' = "drainStart"
  /\ CkptUnchanged
  /\ UNCHANGED <<baseBoundary, disk, manifest, stop, oldBase, target, scan, dirty>>

\* drain_in_place() has returned: msync_target_range() has the range to copy.
StartMsync ==
  /\ cpc = "drain" /\ scan = {}
  /\ dirty' = {o \in Offsets : oldBase <= o /\ o < target}
  /\ cpc' = "msync"
  /\ CkptUnchanged
  /\ UNCHANGED <<baseBoundary, disk, manifest, stop, watermark, oldBase, target, scan>>

MsyncRecord(o) ==
  /\ cpc = "msync"
  /\ o \in dirty
  /\ disk' = [disk EXCEPT ![o] = mem[o]]
  /\ dirty' = dirty \ {o}
  /\ CkptUnchanged
  /\ UNCHANGED <<baseBoundary, manifest, stop, watermark, cpc, oldBase, target, scan>>

\* Mutant: base_boundary advances before the manifest is published.
FinishMsyncAdvancing ==
  /\ cpc = "msync" /\ dirty = {}
  /\ target <= Capacity
  /\ baseBoundary' = target
  /\ cpc' = "publish"
  /\ CkptUnchanged
  /\ UNCHANGED <<disk, manifest, stop, watermark, oldBase, target, scan, dirty>>

\* msync() of a range that runs past the mapping fails.
FinishMsync ==
  /\ cpc = "msync" /\ dirty = {}
  /\ target <= Capacity
  /\ cpc' = "publish"
  /\ CkptUnchanged
  /\ UNCHANGED <<baseBoundary, disk, manifest, stop, watermark, oldBase, target, scan, dirty>>

\* publish_t1_checkpoint(): the manifest names target; base_boundary follows.
PublishManifest ==
  /\ cpc = "publish"
  /\ manifest' = target
  /\ cpc' = "advance"
  /\ CkptUnchanged
  /\ UNCHANGED <<baseBoundary, disk, stop, watermark, oldBase, target, scan, dirty>>

EndCycle ==
  /\ cpc' = "idle"
  /\ oldBase' = 0 /\ target' = 0 /\ dirty' = {}
  /\ CkptUnchanged

\* msync() or publish_t1_checkpoint() threw: revert_watermark(), rethrow.
AbortCycle ==
  /\ cpc = "publish" \/ (cpc = "msync" /\ target > oldBase)
  /\ watermark' = oldBase
  /\ EndCycle
  /\ UNCHANGED <<baseBoundary, disk, manifest, stop, scan>>

AdvanceBase ==
  /\ cpc = "advance"
  /\ baseBoundary' = target
  /\ EndCycle
  /\ UNCHANGED <<disk, manifest, stop, watermark, scan>>

CheckpointStep ==
  \/ ReadOldBase \/ StopWriters \/ StartWriterScan \/ StartInPlaceScan
  \/ CaptureTarget \/ ResumeWriters \/ ClaimWatermark \/ StartMsync
  \/ FinishMsync \/ PublishManifest \/ AbortCycle \/ AdvanceBase
  \/ \E t \in Writers : ScanSlot(t)
  \/ \E o \in Offsets : MsyncRecord(o)

\* The kernel may write any dirty page of a MAP_SHARED file back at any time.
Writeback(o) ==
  /\ disk[o] # mem[o]
  /\ disk' = [disk EXCEPT ![o] = mem[o]]
  /\ UNCHANGED <<bytesUsed, baseBoundary, mem, manifest, gateVars, ownVars,
                 kvVars, writerVars, ckptVars>>

Next ==
  \/ \E t \in Writers : WriterStep(t)
  \/ CheckpointStep
  \/ \E o \in Offsets : Writeback(o)

Spec == Init /\ [][Next]_vars

\* Every thread that can run eventually runs; requests and the start of a
\* checkpoint cycle are the environment's choice, and so is a failing msync.
RunningStep(t) ==
  \/ AwaitResume(t) \/ Acquire(t) \/ CheckStop(t) \/ Reserve(t) \/ WriteRecord(t)
  \/ PublishT1(t) \/ ReleaseHandle(t) \/ ReserveWal(t)
  \/ EnterInPlace(t) \/ CheckBase(t) \/ CheckWatermark(t) \/ UpdateValueAt(t)
Fairness ==
  /\ \A t \in Writers : WF_vars(RunningStep(t))
  /\ WF_vars(cpc # "idle" /\ CheckpointStep)
FairSpec == Spec /\ Fairness

-----------------------------------------------------------------------------
TypeOK ==
  /\ bytesUsed \in Nat /\ baseBoundary \in Nat /\ manifest \in Nat
  /\ mem \in [Offsets -> Records] /\ disk \in [Offsets -> Records]
  /\ stop \in BOOLEAN /\ registered \subseteq Writers
  /\ watermark \in Nat /\ inPlace \in [Writers -> Nat]
  /\ t1 \in [Keys -> Offsets \cup {NotFound}]
  /\ logged \in [Keys -> Values \cup {Nil}]
  /\ lock \in [Keys -> Writers \cup {Nil}]
  /\ pc \in [Writers -> WriterSteps]
  /\ key \in [Writers -> Keys \cup {Nil}]
  /\ val \in [Writers -> Values \cup {Nil}]
  /\ off \in [Writers -> Nat]
  /\ cpc \in CkptSteps /\ oldBase \in Nat /\ target \in Nat
  /\ scan \subseteq Writers /\ dirty \subseteq Offsets

\* The cycle has its target and has not yet given it up.
TargetHeld == cpc \in {"resume", "claim", "drainStart", "drain", "msync", "publish", "advance"}

\* Once the checkpoint has its target, every append below the target has been
\* written and published in T1: target is a fully written frontier, never a
\* merely reserved one (capture_checkpoint_target, stop_writers_and_wait).
CaptureQuiescent ==
  TargetHeld => \A t \in Writers :
                   pc[t] \in {"write", "publish"} => off[t] >= target

\* While msync() and the publish run, no in-place update is writing, or has yet
\* to log, a record below the target (claim_watermark + drain_in_place).
NoInPlaceBelowTarget ==
  cpc \in {"msync", "publish", "advance"} =>
    \A t \in Writers : pc[t] \in InPlaceWriting => off[t] >= target

\* What the manifest or base_boundary vouches for is on disk exactly as it is
\* in memory, and no record of it is half written, whatever the kernel wrote
\* back and however often a cycle aborted (T2Memory::base_boundary, (a)).
BaseDurable ==
  \A o \in Offsets :
    o < manifest \/ o < baseBoundary =>
      disk[o] = mem[o] /\ mem[o].lo = mem[o].hi

\* T2 bytes below the boundary the manifest names are never written again, by
\* an append or in place (T2Memory::base_boundary, (b)).
BaseImmutable ==
  [][\A o \in Offsets :
        o < manifest \/ o < baseBoundary => mem'[o] = mem[o] /\ disk'[o] = disk[o]]_vars

\* base_boundary never regresses and the manifest is never behind it.
BoundaryMonotone ==
  [][baseBoundary' >= baseBoundary /\ manifest' >= manifest /\ manifest' >= baseBoundary']_vars

\* The value a reader resolves for k through T1 and T2.
Visible(k) == IF t1[k] = NotFound THEN Nil ELSE mem[t1[k]].lo

\* With no writer inside k's stripe, the store holds for k exactly what the
\* newest WAL record of k says, so replaying the log in LSN order rebuilds it
\* (with_key_stripe fixes the LSN order among same-key writers).
LogFollowsStore ==
  \A k \in Keys : lock[k] = Nil => Visible(k) = logged[k]

\* T1 never names an offset whose record is not the key's own, fully allocated
\* and inside the mapping ("T2 write must strictly precede the T1 write").
NoDanglingOffset ==
  \A k \in Keys : t1[k] # NotFound =>
     /\ mem[t1[k]].key = k
     /\ t1[k] + mem[t1[k]].alloc <= bytesUsed

\* A cycle that has stopped the writers always resumes them, and one that has
\* started always ends: neither drain waits for ever.
CycleEnds == (cpc = "stop") ~> (cpc = "idle")
=============================================================================
