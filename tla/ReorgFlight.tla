---------------------------- MODULE ReorgFlight -----------------------------
(***************************************************************************)
(* Who runs a cycle of reorganization and when: merge_t1() and             *)
(* checkpoint() of any thread, and the background worker, which takes its  *)
(* requests from writers that see the WAL grow.  One flag, claimed by an   *)
(* exchange, lets one cycle run at a time.                                 *)
(*                                                                         *)
(* Of a cycle only the steps are kept that decide what a caller may rely   *)
(* on: the capture of the target, the dump of T1 with its merge, the       *)
(* commit of the manifest (T2Capture, Recovery), the rotation of the WAL.  *)
(* T1 is one shard here: its active append region, and the merge that has  *)
(* frozen the region before it and not yet published its sorted region.    *)
(***************************************************************************)
EXTENDS Integers, FiniteSets

CONSTANTS Callers, Worker,
          Threshold,            \* kMaxBytesSinceCheckpoint, in records
          Stride,               \* kWalCheckStride
          MaxSize,              \* bound: the WAL is not counted beyond it
          MaxCalls, MaxFails    \* bounds

ASSUME FlightAssumption ==
  /\ Worker \notin Callers
  /\ Threshold \in Nat \ {0} /\ Stride \in Nat \ {0}
  /\ MaxSize \in Nat /\ MaxSize >= Threshold
  /\ MaxCalls \in Nat /\ MaxFails \in Nat

VARIABLES running, requested,   \* ReorgState
          tick,                 \* wal_check_counter
          size,                 \* Wal::size_bytes()
          dirty,                \* append_size() # 0: the active region only
          merge,                \* reorg_in_progress_: whose merge has frozen a region
          pc,                   \* of each thread
          mode,                 \* "T1Only" or "Checkpoint"
          captured,             \* history: calls that were waiting at the capture
          owed,                 \* history: calls that are not yet served
          calls, fails          \* counters for the bounds

vars == <<running, requested, tick, size, dirty, merge, pc, mode, captured, owed, calls, fails>>

Threads == Callers \cup {Worker}
Modes == {"T1Only", "Checkpoint"}
Mergers == {"none", "pool", "cycle", "stuck"}
InCycle == {"check", "capture", "dump", "spin", "merging", "commit", "rotate", "release"}

Init ==
  /\ running = FALSE /\ requested = FALSE /\ tick = 0 /\ size = 0
  /\ dirty = FALSE /\ merge = "none"
  /\ pc = [t \in Threads |-> "idle"] /\ mode = [t \in Threads |-> "Checkpoint"]
  /\ captured = {} /\ owed = {} /\ calls = 0 /\ fails = 0

wal_over_threshold(n) == n >= Threshold

-----------------------------------------------------------------------------
(* Writers.                                                                *)

\* Mutant: only the record that crosses the threshold asks for a cycle.
WriteCrossing ==
  /\ size' = IF size < MaxSize THEN size + 1 ELSE size
  /\ dirty' = TRUE
  /\ tick' = (tick + 1) % Stride
  /\ requested' = (requested \/ size + 1 = Threshold)
  /\ UNCHANGED <<running, merge, pc, mode, captured, owed, calls, fails>>

\* A put: its WAL record, its T1 entry, maybe_reorganize_if_needed().
Write ==
  /\ size' = IF size < MaxSize THEN size + 1 ELSE size
  /\ dirty' = TRUE
  /\ tick' = (tick + 1) % Stride
  /\ requested' = (requested \/ (tick = 0 /\ wal_over_threshold(size')))
  /\ UNCHANGED <<running, merge, pc, mode, captured, owed, calls, fails>>

\* An update in place or a remove: their callers are told not to check.  A remove
\* may put its tombstone into the append region.
WriteQuiet ==
  /\ size' = IF size < MaxSize THEN size + 1 ELSE size
  /\ dirty' \in {dirty, TRUE}
  /\ UNCHANGED <<running, requested, tick, merge, pc, mode, captured, owed, calls, fails>>

-----------------------------------------------------------------------------
(* T1Index::reorganize(): the entries of the active region are in the      *)
(* immutable one until the merged sorted region is published.              *)

Freeze(who) ==
  /\ merge = "none"
  /\ merge' = who
  /\ dirty' = FALSE
  /\ owed' = {c \in owed : mode[c] = "Checkpoint"}

\* run_maintenance() of one of T1's own workers.
MaintainBegins ==
  /\ Freeze("pool")
  /\ UNCHANGED <<running, requested, tick, size, pc, mode, captured, calls, fails>>

MaintainEnds ==
  /\ merge = "pool"
  /\ merge' = "none"
  /\ UNCHANGED <<running, requested, tick, size, dirty, pc, mode, captured, owed, calls, fails>>

-----------------------------------------------------------------------------
(* run_reorganize(): merge_t1() and checkpoint().                          *)

\* A checkpoint is owed a capture that comes later; a merge that what is in the
\* active region now leaves it.
Call(c, m) ==
  /\ pc[c] = "idle"
  /\ calls < MaxCalls                          \* bound, not in the code
  /\ calls' = calls + 1
  /\ pc' = [pc EXCEPT ![c] = "wait"] /\ mode' = [mode EXCEPT ![c] = m]
  /\ owed' = owed \cup IF m = "Checkpoint" \/ dirty THEN {c} ELSE {}
  /\ captured' = captured \ {c}
  /\ UNCHANGED <<running, requested, tick, size, dirty, merge, fails>>

\* wait_until_reorg_not_running().
Wait(c) ==
  /\ pc[c] = "wait" /\ ~running
  /\ pc' = [pc EXCEPT ![c] = "try"]
  /\ UNCHANGED <<running, requested, tick, size, dirty, merge, mode, captured, owed, calls, fails>>

\* Nothing to merge, or a merge in progress has taken it.
Skip(c) ==
  /\ pc[c] = "try" /\ mode[c] = "T1Only" /\ ~dirty
  /\ pc' = [pc EXCEPT ![c] = "returned"]
  /\ UNCHANGED <<running, requested, tick, size, dirty, merge, mode, captured, owed, calls, fails>>

\* Mutant: the flag is looked at and set, not exchanged.
AcquireLate(c) ==
  /\ pc[c] = "try" /\ (mode[c] = "T1Only" => dirty)
  /\ running' = TRUE
  /\ pc' = [pc EXCEPT ![c] = IF mode[c] = "T1Only" THEN "dump" ELSE "capture"]
  /\ UNCHANGED <<requested, tick, size, dirty, merge, mode, captured, owed, calls, fails>>

\* Mutant: a cycle of somebody else is as good.
AcquireOrReturn(c) ==
  /\ pc[c] = "try" /\ (mode[c] = "T1Only" => dirty)
  /\ running' = TRUE
  /\ pc' = [pc EXCEPT ![c] = IF running THEN "returned"
                             ELSE IF mode[c] = "T1Only" THEN "dump" ELSE "capture"]
  /\ UNCHANGED <<requested, tick, size, dirty, merge, mode, captured, owed, calls, fails>>

\* SingleFlightGuard::try_acquire(): the cycle is this caller's, or it waits again.
Acquire(c) ==
  /\ pc[c] = "try" /\ (mode[c] = "T1Only" => dirty)
  /\ running' = TRUE
  /\ pc' = [pc EXCEPT ![c] = IF running THEN "wait"
                             ELSE IF mode[c] = "T1Only" THEN "dump" ELSE "capture"]
  /\ UNCHANGED <<requested, tick, size, dirty, merge, mode, captured, owed, calls, fails>>

Return(c) ==
  /\ pc[c] \in {"returned", "failed"}
  /\ pc' = [pc EXCEPT ![c] = "idle"]
  /\ owed' = owed \ {c} /\ captured' = captured \ {c}
  /\ mode' = [mode EXCEPT ![c] = "Checkpoint"]
  /\ UNCHANGED <<running, requested, tick, size, dirty, merge, calls, fails>>

-----------------------------------------------------------------------------
(* reorg_worker_loop().                                                    *)

\* The request is taken back before the flag is claimed ...
TakeRequest ==
  /\ pc[Worker] = "idle" /\ requested
  /\ requested' = FALSE
  /\ pc' = [pc EXCEPT ![Worker] = "try"]
  /\ UNCHANGED <<running, tick, size, dirty, merge, mode, captured, owed, calls, fails>>

\* ... and is lost if a caller's cycle runs.
WorkerAcquire ==
  /\ pc[Worker] = "try"
  /\ running' = TRUE
  /\ pc' = [pc EXCEPT ![Worker] = IF running THEN "idle" ELSE "check"]
  /\ UNCHANGED <<requested, tick, size, dirty, merge, mode, captured, owed, calls, fails>>

\* The WAL may have been rotated meanwhile.
Recheck ==
  /\ pc[Worker] = "check"
  /\ pc' = [pc EXCEPT ![Worker] = IF wal_over_threshold(size) THEN "capture" ELSE "release"]
  /\ UNCHANGED <<running, requested, tick, size, dirty, merge, mode, captured, owed, calls, fails>>

-----------------------------------------------------------------------------
(* reorganize_internal() of the thread that claimed the flag.              *)

Capture(t) ==
  /\ pc[t] = "capture"
  /\ pc' = [pc EXCEPT ![t] = "dump"]
  /\ captured' = {c \in Callers : pc[c] # "idle"}
  /\ UNCHANGED <<running, requested, tick, size, dirty, merge, mode, owed, calls, fails>>

\* Where the cycle goes on once checkpoint_all_shards() has returned.
AfterDump(t) == IF mode[t] = "T1Only" THEN "release" ELSE "commit"

\* checkpoint_all_shards(): append_size() says whether the sorted region is dumped
\* as it is ...
Dump(t) ==
  /\ pc[t] = "dump"
  /\ pc' = [pc EXCEPT ![t] = IF dirty THEN "spin" ELSE AfterDump(t)]
  /\ UNCHANGED <<running, requested, tick, size, dirty, merge, mode, captured, owed, calls, fails>>

\* ... or a merge of its own is tried until no other one is in progress.
MergeBegins(t) ==
  /\ pc[t] = "spin"
  /\ pc' = [pc EXCEPT ![t] = "merging"]
  /\ Freeze("cycle")
  /\ UNCHANGED <<running, requested, tick, size, mode, captured, calls, fails>>

MergeEnds(t) ==
  /\ pc[t] = "merging"
  /\ pc' = [pc EXCEPT ![t] = AfterDump(t)]
  /\ merge' = "none"
  /\ UNCHANGED <<running, requested, tick, size, dirty, mode, captured, owed, calls, fails>>

\* The T1 checkpoint and the manifest are written.
Commit(t) ==
  /\ pc[t] = "commit"
  /\ pc' = [pc EXCEPT ![t] = "rotate"]
  /\ owed' = owed \ captured
  /\ UNCHANGED <<running, requested, tick, size, dirty, merge, mode, captured, calls, fails>>

Rotate(t) ==
  /\ pc[t] = "rotate"
  /\ pc' = [pc EXCEPT ![t] = "release"]
  /\ size' = 0
  /\ UNCHANGED <<running, requested, tick, dirty, merge, mode, captured, owed, calls, fails>>

\* The guard's destructor; the call returns.
Release(t) ==
  /\ pc[t] = "release"
  /\ running' = FALSE
  /\ captured' = {}
  /\ pc' = [pc EXCEPT ![t] = IF t = Worker THEN "idle" ELSE "returned"]
  /\ UNCHANGED <<requested, tick, size, dirty, merge, mode, owed, calls, fails>>

\* Mutant: an exception leaves the flag set.
FailHolding(t) ==
  /\ pc[t] \in {"dump", "merging", "commit", "rotate"} /\ mode[t] = "Checkpoint"
  /\ fails < MaxFails
  /\ fails' = fails + 1
  /\ captured' = {}
  /\ merge' = IF pc[t] = "merging" THEN "stuck" ELSE merge
  /\ pc' = [pc EXCEPT ![t] = IF t = Worker THEN "idle" ELSE "failed"]
  /\ UNCHANGED <<running, requested, tick, size, dirty, mode, owed, calls>>

\* A step of a checkpoint throws: to the caller, or to nobody.  If it is the write of
\* a shard inside its merge, reorg_in_progress_ of that shard stays set.
Fail(t) ==
  /\ pc[t] \in {"dump", "merging", "commit", "rotate"} /\ mode[t] = "Checkpoint"
  /\ fails < MaxFails                          \* bound, not in the code
  /\ fails' = fails + 1
  /\ running' = FALSE
  /\ captured' = {}
  /\ merge' = IF pc[t] = "merging" THEN "stuck" ELSE merge
  /\ pc' = [pc EXCEPT ![t] = IF t = Worker THEN "idle" ELSE "failed"]
  /\ UNCHANGED <<requested, tick, size, dirty, mode, owed, calls>>

-----------------------------------------------------------------------------
CycleStep(t) ==
  \/ Capture(t) \/ Dump(t) \/ MergeBegins(t) \/ MergeEnds(t)
  \/ Commit(t) \/ Rotate(t) \/ Release(t) \/ Fail(t)
CallerStep(c) == Wait(c) \/ Skip(c) \/ Acquire(c) \/ Return(c) \/ CycleStep(c)
WorkerStep == TakeRequest \/ WorkerAcquire \/ Recheck \/ CycleStep(Worker)

Next ==
  \/ Write \/ WriteQuiet \/ MaintainBegins \/ MaintainEnds
  \/ \E c \in Callers : CallerStep(c) \/ \E m \in Modes : Call(c, m)
  \/ WorkerStep

Spec == Init /\ [][Next]_vars

\* Threads inside a cycle, a call or a merge go on, and the worker polls.
FairSpec ==
  /\ Spec /\ WF_vars(WorkerStep) /\ WF_vars(MaintainEnds)
  /\ \A c \in Callers : WF_vars(CallerStep(c))

-----------------------------------------------------------------------------
TypeOK ==
  /\ running \in BOOLEAN /\ requested \in BOOLEAN /\ dirty \in BOOLEAN
  /\ merge \in Mergers
  /\ tick \in 0 .. Stride - 1 /\ size \in 0 .. MaxSize
  /\ pc \in [Threads -> {"idle", "wait", "try", "returned", "failed"} \cup InCycle]
  /\ mode \in [Threads -> Modes]
  /\ captured \subseteq Callers /\ owed \subseteq Callers
  /\ calls \in 0 .. MaxCalls /\ fails \in 0 .. MaxFails

\* One cycle at a time: checkpoint_internal() "expects to be the sole writer of
\* T1/T2/manifest/WAL state", whether its thread is the worker or a caller.
OneCycle ==
  \A s, t \in Threads : pc[s] \in InCycle /\ pc[t] \in InCycle => s = t

\* "A checkpoint caller needs a durabilized manifest": a checkpoint() that returned was
\* served by a cycle that captured its target after the call began, not by one it
\* found running.  A merge_t1() that returned left nothing of before the call in the
\* active append region; what a merge of T1's workers had frozen by then may
\* still wait for that merge to be published.
ReturnMeansDone == \A c \in Callers : pc[c] = "returned" => c \notin owed

\* No checkpoint was cut off by an exception in the middle of a merge.
NeverStuck == [](merge # "stuck")

\* T1's workers do not win a shard again and again from a cycle that tries to merge it.
SpinWins == \A t \in Threads : SF_vars(MergeBegins(t))

\* Every call returns, also when it loses the flag to other callers or finds its
\* shard in the hands of T1's workers, unless these or the background worker have
\* work for ever and are always faster, or a failed write has left a merge unfinished.
CallsReturn ==
  NeverStuck /\ SpinWins /\ <>[](pc[Worker] = "idle")
    => \A c \in Callers : pc[c] = "wait" ~> pc[c] = "idle"

\* A WAL beyond its threshold is rotated as long as there are writes that run the check
\* (inserts, and updates that append), although the worker may lose a request: the
\* next sampled write asks again.  Updates in place and removes grow the WAL but
\* never ask; lost races and a merge left unfinished are excluded as above.
PressureResolved ==
  NeverStuck /\ SpinWins /\ []<><<Write>>_vars
    => (wal_over_threshold(size) ~> ~wal_over_threshold(size))
=============================================================================
