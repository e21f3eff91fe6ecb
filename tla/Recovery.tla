------------------------------ MODULE Recovery ------------------------------
(***************************************************************************)
(* Crashes and restarts: what is on disk (the T2 file, the T1 checkpoint   *)
(* file, the manifest and the WAL segments) after each step of a put and   *)
(* of checkpoint_internal(), and what the constructor makes of it.         *)
(*                                                                         *)
(* T1 is a map, T2 a file of records numbered by offset, the WAL what      *)
(* DurableLog promises.  A put stores a record of its own: in-place        *)
(* updates never touch what a checkpoint covers (T2Capture).  Values are   *)
(* put numbers, 0 the answer of a deleted key.  Each key is a shard of T1: *)
(* of its regions the model has what a dump tells apart, the entry of the  *)
(* sorted region and the one a merge in progress has frozen.  Renames and  *)
(* unlinks are durable in order: the code syncs no directory.              *)
(***************************************************************************)
EXTENDS Integers, Sequences, FiniteSetsExt

CONSTANTS Keys,
          CrashSteps,     \* steps of the checkpoint at which a crash may come
          BulkLoads,      \* keys of bulk_load(): "none", or "unlogged" (in no segment)
          MaxPuts, MaxGen, MaxCrashes, MaxOffset      \* bounds

ASSUME RecoveryAssumption ==
  /\ BulkLoads \in {"none", "unlogged"}
  /\ MaxPuts \in Nat /\ MaxGen \in Nat /\ MaxCrashes \in Nat /\ MaxOffset \in Nat

VARIABLES mode,           \* "up", "down" or "replay"
          t1,             \* a key's offset, 0 if none or deleted
          sorted, frozen, \* its offset in the sorted region; in the immutable one
                          \* while its shard is being merged, else -1
          file, used,     \* the T2 file; T2Memory::bytes_used
          synced,         \* offsets up to here are on disk
          stored,         \* value of a put in T1 and T2, not in the WAL; -1 none
          pending,        \* reserved WAL records that are not durable
          gen, seg,       \* active_generation_; the records of each segment
          manifest, chk,  \* t2_bytes_used, -1 without manifest; T1 checkpoint
          onDisk,         \* of these two files: "none", "cached", "whole" or "torn"
          temp,           \* the temporary file: "none", "cached" or "synced"
          step, target, dump, todo,     \* the checkpoint thread
          replay,         \* positions of the records replay() has still to pass on
          puts, last,     \* history: values used; the value a key must have
          bulk,           \* a bulk-loaded value no checkpoint covers yet; -1
          may,            \* values a key may have after the crash
          risky,          \* keys with a put in flight at some crash, or that a
                          \* merge got in the way of
          crashes

regionVars == <<sorted, frozen>>
cycleVars == <<step, target, dump, todo, temp>>
memVars == <<t1, used, regionVars, stored, pending, cycleVars>>
diskVars == <<file, synced, gen, seg, manifest, chk, onDisk>>
histVars == <<puts, last, bulk, may, risky, crashes>>
vars == <<mode, memVars, diskVars, replay, histVars>>

None == -1
Files == {"t1", "manifest"}
Blank == [key |-> 0, val |-> 0]
Record(k, v) == [key |-> k, val |-> v]

Init ==
  /\ mode = "up"
  /\ t1 = [k \in Keys |-> 0] /\ file = [o \in 1 .. MaxOffset |-> Blank]
  /\ sorted = [k \in Keys |-> 0] /\ frozen = [k \in Keys |-> None]
  /\ used = 0 /\ synced = 0
  /\ stored = [k \in Keys |-> None] /\ pending = << >>
  /\ gen = 1 /\ seg = [g \in {1} |-> << >>]
  /\ manifest = None /\ chk = [k \in Keys |-> 0] /\ onDisk = [f \in Files |-> "none"]
  /\ step = "idle" /\ target = 0 /\ dump = [k \in Keys |-> 0] /\ todo = {} /\ temp = "none"
  /\ replay = {}
  /\ puts = 0 /\ last = [k \in Keys |-> 0] /\ bulk = [k \in Keys |-> None]
  /\ may = [k \in Keys |-> {0}] /\ risky = {} /\ crashes = 0

\* What get_impl() answers: a record of another key is no answer.
Value(k) ==
  IF t1[k] = 0 \/ file[t1[k]].key # k THEN 0 ELSE file[t1[k]].val

\* Values of puts of the key that were not acknowledged.
InFlight(k) ==
  ({stored[k], bulk[k]} \ {None})
    \cup {pending[i].val : i \in {i \in DOMAIN pending : pending[i].key = k}}

\* write_entry_lockfree(), or the tombstone of a delete: in the sorted region if
\* the key is there and no merge in progress, else in the append region.  What a
\* merge makes of a tombstone that came meanwhile is T1Index's matter.
Apply(k, v) ==
  /\ IF v = 0
       THEN /\ t1' = [t1 EXCEPT ![k] = 0]
            /\ UNCHANGED <<file, used>>
       ELSE /\ used < MaxOffset                 \* bound, not in the code
            /\ used' = used + 1
            /\ file' = [file EXCEPT ![used + 1] = Record(k, v)]
            /\ t1' = [t1 EXCEPT ![k] = used + 1]
  /\ sorted' = IF sorted[k] # 0 /\ frozen[k] = None
                 THEN [sorted EXCEPT ![k] = IF v = 0 THEN 0 ELSE used + 1] ELSE sorted
  /\ risky' = IF v = 0 /\ frozen[k] # None THEN risky \cup {k} ELSE risky
  /\ UNCHANGED frozen

-----------------------------------------------------------------------------
(* insert_impl(), update_impl(), remove_impl(); bulk_load_impl().          *)

\* A put, or a delete of a key that exists, under the key's stripe.
Store(k, delete) ==
  /\ mode = "up" /\ stored[k] = None
  /\ delete => t1[k] # 0
  /\ puts < MaxPuts                            \* bound, not in the code
  /\ LET v == IF delete THEN 0 ELSE puts + 1
     IN Apply(k, v) /\ stored' = [stored EXCEPT ![k] = v]
  /\ puts' = puts + 1
  /\ bulk' = [bulk EXCEPT ![k] = None]
  /\ UNCHANGED <<mode, pending, cycleVars, synced, gen, seg, manifest, chk, onDisk, replay,
                 last, may, crashes>>

\* reserve_*(), the end of the stripe's scope.
ReserveRecord(k) ==
  /\ mode = "up" /\ stored[k] # None
  /\ pending' = Append(pending, Record(k, stored[k]))
  /\ stored' = [stored EXCEPT ![k] = None]
  /\ UNCHANGED <<mode, t1, used, regionVars, cycleVars, diskVars, replay, histVars>>

\* A round of group commit; its puts return.
CommitRound(n) ==
  /\ mode = "up" /\ n \in 1 .. Len(pending)
  /\ seg' = [seg EXCEPT ![gen] = @ \o SubSeq(pending, 1, n)]
  /\ pending' = SubSeq(pending, n + 1, Len(pending))
  /\ last' = [k \in Keys |->
                LET own == {i \in 1 .. n : pending[i].key = k}
                IN IF own = {} THEN last[k] ELSE pending[Max(own)].val]
  /\ UNCHANGED <<mode, t1, used, regionVars, stored, cycleVars, file, synced, gen, manifest,
                 chk, onDisk, replay, puts, bulk, may, risky, crashes>>

\* Not in the log, and not beside other writers.
BulkLoad(k) ==
  /\ BulkLoads = "unlogged"
  /\ \A g \in DOMAIN seg : \A i \in DOMAIN seg[g] : seg[g][i].key # k
  /\ mode = "up" /\ pending = << >> /\ \A j \in Keys : stored[j] = None
  /\ puts < MaxPuts                            \* bound, not in the code
  /\ Apply(k, puts + 1)
  /\ bulk' = [bulk EXCEPT ![k] = puts + 1]
  /\ puts' = puts + 1
  /\ UNCHANGED <<mode, stored, pending, cycleVars, synced, gen, seg, manifest, chk, onDisk,
                 replay, last, may, crashes>>

\* Maintenance of T1: reorganize() freezes a shard's append region ...
MergeBegins(k) ==
  /\ mode # "down" /\ frozen[k] = None /\ t1[k] # sorted[k]
  /\ frozen' = [frozen EXCEPT ![k] = t1[k]]
  /\ UNCHANGED <<mode, t1, used, sorted, stored, pending, cycleVars, diskVars, replay, histVars>>

\* ... and publishes the sorted region it made.
MergeEnds(k) ==
  /\ mode # "down" /\ frozen[k] # None
  /\ sorted' = [sorted EXCEPT ![k] = frozen[k]]
  /\ frozen' = [frozen EXCEPT ![k] = None]
  /\ UNCHANGED <<mode, t1, used, stored, pending, cycleVars, diskVars, replay, histVars>>

-----------------------------------------------------------------------------
(* checkpoint_internal().                                                  *)

\* capture_checkpoint_target(): writers are stopped and let go again.
Capture ==
  /\ mode = "up" /\ step = "idle"
  /\ gen < MaxGen                              \* bound, not in the code
  /\ target' = used
  /\ step' = "msync"
  /\ UNCHANGED <<mode, t1, used, regionVars, stored, pending, dump, todo, temp, diskVars,
                 replay, histVars>>

\* msync_target_range(); publish_t1_checkpoint() opens its temporary file, and
\* truncates what an earlier cycle left of it.
Msync ==
  /\ mode = "up" /\ step = "msync"
  /\ synced' = Max({synced, target})
  /\ todo' = Keys /\ temp' = "cached"
  /\ step' = "dump"
  /\ UNCHANGED <<mode, t1, used, regionVars, stored, pending, target, dump, file, gen, seg,
                 manifest, chk, onDisk, replay, histVars>>

\* append_size() > 0: the key was written after the last freeze.
Unmerged(k) == t1[k] # IF frozen[k] = None THEN sorted[k] ELSE frozen[k]

\* No put of the key is in flight, and none is in the segment that rotation keeps.
Logless(k) == InFlight(k) = {} /\ \A i \in DOMAIN seg[gen] : seg[gen][i].key # k

\* checkpoint_all_shards(), shard by shard, while writers go on: a shard with an
\* empty append region as its sorted region has it, without what a merge in
\* progress has frozen; any other is merged first, after the merge in progress.
DumpShard(k) ==
  /\ mode = "up" /\ step = "dump" /\ k \in todo
  /\ Unmerged(k) => frozen[k] = None
  /\ LET entry == IF Unmerged(k) THEN t1[k] ELSE sorted[k]
     IN /\ dump' = [dump EXCEPT ![k] = entry] /\ sorted' = [sorted EXCEPT ![k] = entry]
        /\ risky' = IF entry # t1[k] /\ Logless(k) THEN risky \cup {k} ELSE risky
  /\ todo' = todo \ {k}
  /\ UNCHANGED <<mode, t1, used, frozen, stored, pending, step, target, temp, diskVars, replay,
                 puts, last, bulk, may, crashes>>

\* Mutant: the temporary file is not synced.
FsyncSkipped == UNCHANGED temp

\* write_fsync_close(), on the temporary file.
Fsync == temp' = "synced"

\* The temporary file takes the name of f.
Rename(f) ==
  /\ onDisk' = [onDisk EXCEPT ![f] = IF temp = "synced" THEN "whole" ELSE "cached"]
  /\ temp' = "none"

\* finish(): boundaries, trailer and fsync() ...
FsyncT1Checkpoint ==
  /\ mode = "up" /\ step = "dump" /\ todo = {}
  /\ Fsync
  /\ step' = "rename"
  /\ UNCHANGED <<mode, t1, used, regionVars, stored, pending, target, dump, todo, diskVars,
                 replay, histVars>>

\* ... and the name.
RenameT1Checkpoint ==
  /\ mode = "up" /\ step = "rename"
  /\ chk' = dump /\ Rename("t1")
  /\ step' = "manifest"
  /\ UNCHANGED <<mode, t1, used, regionVars, stored, pending, target, dump, todo, file, synced,
                 gen, seg, manifest, replay, histVars>>

\* write_manifest(): a temporary file again ...
WriteManifest ==
  /\ mode = "up" /\ step = "manifest"
  /\ temp' = "cached"
  /\ step' = "fsync"
  /\ UNCHANGED <<mode, t1, used, regionVars, stored, pending, target, dump, todo, diskVars,
                 replay, histVars>>

FsyncManifest ==
  /\ mode = "up" /\ step = "fsync"
  /\ Fsync
  /\ step' = "publish"
  /\ UNCHANGED <<mode, t1, used, regionVars, stored, pending, target, dump, todo, diskVars,
                 replay, histVars>>

\* Mutant: what was appended since the capture is promised, too.
RenameManifestUsed ==
  /\ mode = "up" /\ step = "publish"
  /\ manifest' = used /\ Rename("manifest")
  /\ step' = "rotate"
  /\ UNCHANGED <<mode, t1, used, regionVars, stored, pending, target, dump, todo, file, synced,
                 gen, seg, chk, replay, histVars>>

\* ... which takes its name.  Bulk-loaded entries are durable now, if the dump of
\* their shard has them.
RenameManifest ==
  /\ mode = "up" /\ step = "publish"
  /\ manifest' = target /\ Rename("manifest")
  /\ step' = "rotate"
  /\ LET covered == {k \in Keys : bulk[k] # None /\ dump[k] = t1[k] /\ t1[k] <= target}
     IN /\ last' = [k \in Keys |-> IF k \in covered THEN bulk[k] ELSE last[k]]
        /\ bulk' = [k \in Keys |-> IF k \in covered THEN None ELSE bulk[k]]
  /\ UNCHANGED <<mode, t1, used, regionVars, stored, pending, target, dump, todo, file, synced,
                 gen, seg, chk, replay, puts, may, risky, crashes>>

\* msync(), the T1 checkpoint or the manifest failed: the cycle is given up, and
\* what it had renamed stays.
CheckpointFails ==
  /\ mode = "up" /\ step \in {"msync", "dump", "rename", "manifest", "fsync", "publish"}
  /\ step' = "idle" /\ todo' = {} /\ temp' = "none"
  /\ UNCHANGED <<mode, t1, used, regionVars, stored, pending, target, dump, diskVars, replay,
                 histVars>>

\* rotate_segment(): the new segment, then the old one's end.
OpenSegment ==
  /\ mode = "up" /\ step = "rotate"
  /\ gen' = gen + 1
  /\ seg' = [g \in DOMAIN seg \cup {gen + 1} |-> IF g = gen + 1 THEN << >> ELSE seg[g]]
  /\ step' = "unlink"
  /\ UNCHANGED <<mode, t1, used, regionVars, stored, pending, target, dump, todo, temp, file,
                 synced, manifest, chk, onDisk, replay, histVars>>

\* Mutant: only the active segment is kept.
UnlinkPrevious ==
  /\ mode = "up" /\ step = "unlink"
  /\ seg' = [g \in DOMAIN seg \ {gen - 1} |-> seg[g]]
  /\ step' = "idle"
  /\ UNCHANGED <<mode, t1, used, regionVars, stored, pending, target, dump, todo, temp, file,
                 synced, gen, manifest, chk, onDisk, replay, histVars>>

Unlink ==
  /\ mode = "up" /\ step = "unlink"
  /\ seg' = [g \in DOMAIN seg \ {gen - 2} |-> seg[g]]
  /\ step' = "idle"
  /\ UNCHANGED <<mode, t1, used, regionVars, stored, pending, target, dump, todo, temp, file,
                 synced, gen, manifest, chk, onDisk, replay, histVars>>

-----------------------------------------------------------------------------
(* Crash and construction.                                                 *)

\* Records in the page cache may be lost or not; of the reserved WAL records
\* a prefix may have reached the disk (scan_and_validate() cuts the rest), and
\* of a file that was not synced a part.
Crash(n, lost, torn) ==
  /\ mode \in {"up", "replay"} /\ step \in CrashSteps
  /\ crashes < MaxCrashes                      \* bound, not in the code
  /\ n \in 0 .. Len(pending) /\ lost \subseteq synced + 1 .. used
  /\ torn \subseteq {f \in Files : onDisk[f] = "cached"}
  /\ crashes' = crashes + 1
  /\ mode' = "down"
  /\ file' = [o \in DOMAIN file |-> IF o \in lost THEN Blank ELSE file[o]]
  /\ seg' = [seg EXCEPT ![gen] = @ \o SubSeq(pending, 1, n)]
  /\ onDisk' = [f \in Files |-> IF f \in torn THEN "torn" ELSE onDisk[f]]
  /\ may' = IF mode = "replay" THEN may
            ELSE [k \in Keys |-> {last[k]} \cup InFlight(k)]
  /\ risky' = risky \cup {k \in Keys : InFlight(k) # {}}
  /\ t1' = [k \in Keys |-> 0] /\ used' = 0
  /\ stored' = [k \in Keys |-> None] /\ pending' = << >> /\ replay' = {}
  /\ bulk' = [k \in Keys |-> None]
  /\ step' = "idle" /\ target' = 0 /\ dump' = [k \in Keys |-> 0] /\ todo' = {}
  /\ sorted' = [k \in Keys |-> 0] /\ frozen' = [k \in Keys |-> None] /\ temp' = "none"
  /\ UNCHANGED <<synced, gen, manifest, chk, puts, last>>

\* A file that is there and passes its checks.
Valid(f) == onDisk[f] \in {"cached", "whole"}

\* read_manifest(): a file that fails its checks counts as none.
ReadManifest == IF Valid("manifest") THEN manifest ELSE None

\* Without a manifest T1 and T2 start empty.
StartEmpty ==
  /\ t1' = [k \in Keys |-> 0] /\ used' = 0 /\ synced' = 0
  /\ file' = [o \in DOMAIN file |-> Blank]
  /\ UNCHANGED sorted

\* ShardedT1CheckpointFile() throws when there is no file or it fails its checks.
T1FileValid == Valid("t1")

\* T2 adopts what the manifest promises, T1 the checkpoint file.
AdoptCheckpoint ==
  /\ T1FileValid
  /\ t1' = chk /\ sorted' = chk /\ used' = ReadManifest /\ synced' = ReadManifest
  /\ UNCHANGED file

\* replay(): all segments, in the order of their generations.
Retained == UNION {{g} \X DOMAIN seg[g] : g \in DOMAIN seg}
Before(p, q) == p[1] < q[1] \/ (p[1] = q[1] /\ p[2] < q[2])

\* VMemKVImpl().
Restart ==
  /\ mode = "down"
  /\ mode' = "replay"
  /\ IF ReadManifest = None THEN StartEmpty ELSE AdoptCheckpoint
  /\ replay' = Retained
  /\ UNCHANGED <<frozen, stored, pending, cycleVars, gen, seg, manifest, chk, onDisk, histVars>>

\* recover_from_wal(): the record's LSN is not looked at.
ReplayRecord(p) ==
  /\ mode = "replay" /\ p \in replay /\ \A q \in replay \ {p} : Before(p, q)
  /\ LET r == seg[p[1]][p[2]] IN Apply(r.key, r.val)
  /\ replay' = replay \ {p}
  /\ UNCHANGED <<mode, stored, pending, cycleVars, synced, gen, seg, manifest, chk, onDisk,
                 puts, last, bulk, may, crashes>>

\* From here on what a get answers is what must stay.
FinishRecovery ==
  /\ mode = "replay" /\ replay = {}
  /\ mode' = "up"
  /\ last' = [k \in Keys |-> Value(k)]
  /\ UNCHANGED <<memVars, diskVars, replay, puts, bulk, may, risky, crashes>>

-----------------------------------------------------------------------------
Next ==
  \/ \E k \in Keys : \/ \E delete \in BOOLEAN : Store(k, delete)
                     \/ ReserveRecord(k) \/ BulkLoad(k) \/ DumpShard(k)
                     \/ MergeBegins(k) \/ MergeEnds(k)
  \/ \E n \in 1 .. Len(pending) : CommitRound(n)
  \/ Capture \/ Msync \/ FsyncT1Checkpoint \/ RenameT1Checkpoint \/ WriteManifest
  \/ FsyncManifest \/ RenameManifest \/ CheckpointFails \/ OpenSegment \/ Unlink
  \/ \E n \in 0 .. Len(pending), lost \in SUBSET (synced + 1 .. used),
        torn \in SUBSET Files : Crash(n, lost, torn)
  \/ Restart \/ (\E p \in replay : ReplayRecord(p)) \/ FinishRecovery

Spec == Init /\ [][Next]_vars

-----------------------------------------------------------------------------
\* The manifest promises only bytes that are on disk, whatever was appended
\* while the checkpoint ran.
ManifestDurable == manifest <= synced

\* A store that went down can be opened again, whatever step of which cycle the
\* crash met: with a manifest that passes its checks there is a T1 checkpoint file
\* that does (nothing catches what ShardedT1CheckpointFile() throws otherwise).
\* It takes the order of six steps: T1 file, then manifest, each of them written,
\* synced and only then renamed.
Reopens == mode = "down" /\ ReadManifest # None => T1FileValid

Recovered == mode = "replay" /\ replay = {}

\* A key without a put in flight at the crash has the value that was last
\* acknowledged, however the crash fell into a checkpoint and its rotation; a
\* bulk-loaded value counts as acknowledged once a checkpoint covers it.
\* Left out are two kinds of keys that a merge in progress got in the way of: one
\* deleted during the merge, and one whose entry the merge had frozen when
\* checkpoint_all_shards() dumped its shard without it (append_size() = 0), if the
\* entry's record is in no segment that outlives this cycle's rotation.  A dump
\* that misses an entry whose record is in the active segment, or on its way there,
\* does no harm, and is not left out.
AckedSurvives ==
  \A k \in Keys \ risky :
    /\ Recovered => Value(k) \in may[k]
    /\ mode = "up" => Value(k) \in {last[k]} \cup InFlight(k)
=============================================================================
