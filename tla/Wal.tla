-------------------------------- MODULE Wal ---------------------------------
(***************************************************************************)
(* The write-ahead log: reserve_record() assigns an LSN and publishes the  *)
(* record in a ring, await_durable() elects a leader that writes and syncs *)
(* everyone's records, and rotate_segment() switches the segment file.     *)
(*                                                                         *)
(* A record is its LSN.  A segment is the sequence of its records, 0 for   *)
(* bytes that are no valid record.  Memory is sequentially consistent;     *)
(* releases of a PendingRecord are left out.                               *)
(***************************************************************************)
EXTENDS Integers, Sequences, FiniteSets, Functions

CONSTANTS Writers,     \* calls of reserve_record() and await_durable()
          Rotator,     \* the thread of the checkpoint, in rotate_segment()
          RingCap,     \* kWalRingCapacity
          MaxLsn,      \* bound: records
          MaxGen,      \* bound: segments
          MaxCrashes,  \* bound: crashes
          Faults       \* what may fail: "io" (writev, fdatasync), "truncate"
                       \* (ftruncate), "open"

ASSUME ThreadsAssumption == Rotator \notin Writers
ASSUME BoundsAssumption ==
  RingCap \in Nat \ {0} /\ MaxLsn \in Nat \ {0} /\ MaxGen \in Nat \ {0}
  /\ MaxCrashes \in Nat
\* A writer has one record.  A thread that reserves several before it awaits
\* them, as the defragmenter does with up to 1024, is as many writers: there
\* are no more records outstanding than slots (4096).
ASSUME RingAssumption == IsFiniteSet(Writers) /\ Cardinality(Writers) <= RingCap
ASSUME FaultsAssumption == Faults \subseteq {"io", "truncate", "open"}

VARIABLES nextLsn,     \* next_lsn_
          ring,        \* ring_: the LSN of the record in a slot, 0 if null
          nextToFlush, \* next_to_flush_
          flushing,    \* flushing_
          settled,     \* highest_settled_lsn_
          poisoned,    \* poisoned_
          error,       \* LSNs whose PendingRecord::error is set
          batch,       \* the batch of the leader
          gen, seg,    \* active_generation_; segments by generation
          pc, lsn, target,            \* per thread
          home, acked,                \* history: the generation a record was
                                      \* synced in; records acknowledged
          crashes

ringVars == <<nextLsn, ring, nextToFlush, settled, error, batch>>
fileVars == <<gen, seg>>
histVars == <<home, acked, crashes>>
vars == <<ringVars, flushing, poisoned, fileVars, pc, lsn, target, histVars>>

Threads == Writers \cup {Rotator}
Lsns == 1 .. MaxLsn

Slot(l) == l % RingCap
Goto(t, step) == pc' = [pc EXCEPT ![t] = step]

Init ==
  /\ nextLsn = 1 /\ nextToFlush = 1
  /\ ring = [s \in 0 .. RingCap - 1 |-> 0] /\ batch = << >>
  /\ flushing = FALSE /\ settled = 0 /\ poisoned = FALSE /\ error = {}
  /\ gen = 1 /\ seg = [g \in {1} |-> << >>]
  /\ pc = [t \in Threads |-> "idle"]
  /\ lsn = [t \in Threads |-> 0] /\ target = [t \in Threads |-> 0]
  /\ home = [l \in Lsns |-> 0] /\ acked = {} /\ crashes = 0

-----------------------------------------------------------------------------
(* reserve_record().                                                       *)

\* A poisoned log refuses the record.
CheckPoisoned(w) ==
  /\ pc[w] = "idle" /\ ~poisoned
  /\ Goto(w, "fetch")
  /\ UNCHANGED <<ringVars, flushing, poisoned, fileVars, lsn, target, histVars>>

FetchAdd(w) ==
  /\ pc[w] = "fetch"
  /\ nextLsn <= MaxLsn                         \* bound, not in the code
  /\ lsn' = [lsn EXCEPT ![w] = nextLsn]
  /\ nextLsn' = nextLsn + 1
  /\ Goto(w, "publish")
  /\ UNCHANGED <<ring, nextToFlush, settled, error, batch, flushing, poisoned,
                 fileVars, target, histVars>>

\* The CAS waits until the slot's last occupant was retired.
Publish(w) ==
  /\ pc[w] = "publish" /\ ring[Slot(lsn[w])] = 0
  /\ ring' = [ring EXCEPT ![Slot(lsn[w])] = lsn[w]]
  /\ Goto(w, "elect")
  /\ UNCHANGED <<nextLsn, nextToFlush, settled, error, batch, flushing, poisoned,
                 fileVars, lsn, target, histVars>>

-----------------------------------------------------------------------------
(* await_durable().                                                        *)

\* The first to find no flush in progress is the leader.
Elect(w) ==
  /\ pc[w] = "elect"
  /\ flushing' = TRUE
  /\ Goto(w, IF flushing THEN "follow" ELSE "drain")
  /\ UNCHANGED <<ringVars, poisoned, fileVars, lsn, target, histVars>>

\* A follower waits until its record is settled ...
Wake(w) ==
  /\ pc[w] = "follow" /\ settled >= lsn[w]
  /\ Goto(w, "result")
  /\ UNCHANGED <<ringVars, flushing, poisoned, fileVars, lsn, target, histVars>>

\* Mutant: a follower trusts the notification and waits for ever.
TimeOutNever(w) ==
  /\ FALSE
  /\ UNCHANGED vars

\* ... or, after a timeout, elects itself when there is no leader.
TimeOut(w) ==
  /\ pc[w] = "follow" /\ settled < lsn[w] /\ ~flushing
  /\ flushing' = TRUE
  /\ Goto(w, "drain")
  /\ UNCHANGED <<ringVars, poisoned, fileVars, lsn, target, histVars>>

\* drain_pending(): what was reserved by now is flushed.
StartDrain(w) ==
  /\ pc[w] = "drain"
  /\ target' = [target EXCEPT ![w] = nextLsn]
  /\ Goto(w, "collect")
  /\ UNCHANGED <<ringVars, flushing, poisoned, fileVars, lsn, histVars>>

BatchFull(w) == nextToFlush = target[w] \/ Len(batch) = RingCap

\* collect_batch(): the next record, once its producer has published it.
Collect(w) ==
  /\ pc[w] = "collect" /\ ~BatchFull(w)
  /\ ring[Slot(nextToFlush)] # 0
  /\ IF ring[Slot(nextToFlush)] # nextToFlush
       THEN Goto(w, "failAll") /\ UNCHANGED <<batch, nextToFlush>>
       ELSE /\ batch' = Append(batch, nextToFlush)
            /\ nextToFlush' = nextToFlush + 1
            /\ UNCHANGED pc
  /\ UNCHANGED <<nextLsn, ring, settled, error, flushing, poisoned, fileVars,
                 lsn, target, histVars>>

\* write_and_fsync_batch(): all records of the round ...
WriteBatch(w) ==
  /\ pc[w] = "collect" /\ BatchFull(w) /\ batch # << >>
  /\ seg' = [seg EXCEPT ![gen] = @ \o batch]
  /\ home' = [l \in Lsns |-> IF l \in Range(batch) THEN gen ELSE home[l]]
  /\ Goto(w, "settle")
  /\ UNCHANGED <<ringVars, flushing, poisoned, gen, lsn, target, acked, crashes>>

\* Mutant: a failed round is not reported to those who wait for it.
WriteFailsSilently(w) ==
  /\ "io" \in Faults
  /\ pc[w] = "collect" /\ BatchFull(w) /\ batch # << >>
  /\ poisoned' = TRUE
  /\ Goto(w, "settle")
  /\ UNCHANGED <<ringVars, flushing, fileVars, lsn, target, histVars>>

\* ... or none: the file is cut back to its length, if that works, and the
\* log is poisoned.  Else some of the batch stays, up to all of it when only
\* fdatasync() failed, perhaps with a torn record behind; home leaves it out.
WriteFails(w) ==
  /\ "io" \in Faults
  /\ pc[w] = "collect" /\ BatchFull(w) /\ batch # << >>
  /\ error' = error \cup Range(batch)
  /\ poisoned' = TRUE
  /\ \/ UNCHANGED seg
     \/ /\ "truncate" \in Faults
        /\ \E n \in 0 .. Len(batch) :
             \/ seg' = [seg EXCEPT ![gen] = @ \o SubSeq(batch, 1, n)]
             \/ /\ n < Len(batch)
                /\ seg' = [seg EXCEPT ![gen] = @ \o SubSeq(batch, 1, n) \o <<0>>]
  /\ Goto(w, "settle")
  /\ UNCHANGED <<nextLsn, ring, nextToFlush, settled, batch, flushing, gen,
                 lsn, target, histVars>>

\* One wake-up for the whole round ...
Settle(w) ==
  /\ pc[w] = "settle"
  /\ settled' = batch[Len(batch)]
  /\ Goto(w, "retire")
  /\ UNCHANGED <<nextLsn, ring, nextToFlush, error, batch, flushing, poisoned,
                 fileVars, lsn, target, histVars>>

\* ... and its slots are free.
Retire(w) ==
  /\ pc[w] = "retire"
  /\ ring' = [s \in DOMAIN ring |->
                IF \E l \in Range(batch) : Slot(l) = s THEN 0 ELSE ring[s]]
  /\ batch' = << >>
  /\ Goto(w, "collect")
  /\ UNCHANGED <<nextLsn, nextToFlush, settled, error, flushing, poisoned,
                 fileVars, lsn, target, histVars>>

\* release_leadership(): release, look for who came late, reclaim.
Release(w) ==
  /\ pc[w] = "collect" /\ nextToFlush = target[w] /\ batch = << >>
  /\ flushing' = FALSE
  /\ Goto(w, "recheck")
  /\ UNCHANGED <<ringVars, poisoned, fileVars, lsn, target, histVars>>

Recheck(w) ==
  /\ pc[w] = "recheck"
  /\ Goto(w, IF nextLsn = target[w] THEN "result" ELSE "reclaim")
  /\ UNCHANGED <<ringVars, flushing, poisoned, fileVars, lsn, target, histVars>>

Reclaim(w) ==
  /\ pc[w] = "reclaim"
  /\ flushing' = TRUE
  /\ Goto(w, IF flushing THEN "result" ELSE "drain")
  /\ UNCHANGED <<ringVars, poisoned, fileVars, lsn, target, histVars>>

\* await_durable() returns the LSN, or throws the record's error.
Answer(w, ok) ==
  /\ acked' = IF ok THEN acked \cup {lsn[w]} ELSE acked
  /\ lsn' = [lsn EXCEPT ![w] = 0]
  /\ target' = [target EXCEPT ![w] = 0]
  /\ Goto(w, "idle")

Result(w) ==
  /\ pc[w] = "result"
  /\ Answer(w, lsn[w] \notin error)
  /\ UNCHANGED <<ringVars, flushing, poisoned, fileVars, home, crashes>>

-----------------------------------------------------------------------------
(* fail_all_pending_and_release_leadership().                              *)

FailAll(t) ==
  /\ pc[t] = "failAll"
  /\ poisoned' = TRUE
  /\ target' = [target EXCEPT ![t] = nextLsn]
  /\ Goto(t, "sweep")
  /\ UNCHANGED <<ringVars, flushing, fileVars, lsn, histVars>>

SweepRecord(t) ==
  /\ pc[t] = "sweep" /\ nextToFlush # target[t]
  /\ ring[Slot(nextToFlush)] # 0
  /\ error' = error \cup {ring[Slot(nextToFlush)]}
  /\ ring' = [ring EXCEPT ![Slot(nextToFlush)] = 0]
  /\ nextToFlush' = nextToFlush + 1
  /\ UNCHANGED <<nextLsn, settled, batch, flushing, poisoned, fileVars, pc, lsn,
                 target, histVars>>

SweepAgain(t) ==
  /\ pc[t] = "sweep" /\ nextToFlush = target[t]
  /\ IF nextLsn = target[t]
       THEN Goto(t, "settleAll") /\ UNCHANGED target
       ELSE target' = [target EXCEPT ![t] = nextLsn] /\ UNCHANGED pc
  /\ UNCHANGED <<ringVars, flushing, poisoned, fileVars, lsn, histVars>>

SettleAll(t) ==
  /\ pc[t] = "settleAll"
  /\ settled' = nextToFlush - 1
  /\ Goto(t, "unflush")
  /\ UNCHANGED <<nextLsn, ring, nextToFlush, error, batch, flushing, poisoned,
                 fileVars, lsn, target, histVars>>

\* The exception goes to the caller: of await_durable(), or rotate_segment().
Throw(t) ==
  /\ pc[t] = "unflush"
  /\ flushing' = FALSE
  /\ IF t \in Writers THEN Answer(t, FALSE)
     ELSE /\ target' = [target EXCEPT ![t] = 0]
          /\ Goto(t, "idle")
          /\ UNCHANGED <<acked, lsn>>
  /\ UNCHANGED <<ringVars, poisoned, fileVars, home, crashes>>

FailAllStep(t) ==
  FailAll(t) \/ SweepRecord(t) \/ SweepAgain(t) \/ SettleAll(t) \/ Throw(t)

-----------------------------------------------------------------------------
(* rotate_segment(), once per checkpoint.                                  *)

RotateCheck ==
  /\ pc[Rotator] = "idle" /\ ~poisoned
  /\ gen < MaxGen                              \* bound, not in the code
  /\ Goto(Rotator, "rotate")
  /\ UNCHANGED <<ringVars, flushing, poisoned, fileVars, lsn, target, histVars>>

\* Mutant: the segment is switched without leadership.
RotateElectNot ==
  /\ pc[Rotator] = "rotate"
  /\ Goto(Rotator, "open")
  /\ UNCHANGED <<ringVars, flushing, poisoned, fileVars, lsn, target, histVars>>

\* The thread becomes the leader, whatever is pending.
RotateElect ==
  /\ pc[Rotator] = "rotate" /\ ~flushing
  /\ flushing' = TRUE
  /\ Goto(Rotator, "open")
  /\ UNCHANGED <<ringVars, poisoned, fileVars, lsn, target, histVars>>

OpenSegment ==
  /\ pc[Rotator] = "open"
  /\ gen' = gen + 1
  /\ seg' = [g \in DOMAIN seg \cup {gen + 1} |-> IF g = gen + 1 THEN << >> ELSE seg[g]]
  /\ flushing' = FALSE
  /\ Goto(Rotator, "unlink")
  /\ UNCHANGED <<ringVars, poisoned, lsn, target, histVars>>

OpenFails ==
  /\ "open" \in Faults
  /\ pc[Rotator] = "open"
  /\ Goto(Rotator, "failAll")
  /\ UNCHANGED <<ringVars, flushing, poisoned, fileVars, lsn, target, histVars>>

\* Mutant: the segment just retired is deleted.
UnlinkPrevious ==
  /\ pc[Rotator] = "unlink"
  /\ seg' = [g \in DOMAIN seg \ {gen - 1} |-> seg[g]]
  /\ Goto(Rotator, "idle")
  /\ UNCHANGED <<ringVars, flushing, poisoned, gen, lsn, target, histVars>>

\* The segment two generations back is deleted.
Unlink ==
  /\ pc[Rotator] = "unlink"
  /\ seg' = [g \in DOMAIN seg \ {gen - 2} |-> seg[g]]
  /\ Goto(Rotator, "idle")
  /\ UNCHANGED <<ringVars, flushing, poisoned, gen, lsn, target, histVars>>

-----------------------------------------------------------------------------
(* A crash, and Wal::Wal() on what it left.                                *)

\* scan_and_validate(): the records before the first invalid bytes.
ValidPrefix(s) ==
  SubSeq(s, 1, CHOOSE n \in 0 .. Len(s) :
                 /\ 0 \notin Range(SubSeq(s, 1, n))
                 /\ n = Len(s) \/ s[n + 1] = 0)

\* Mutant: an empty active segment starts the numbers afresh.
NextLsnActive(disk) ==
  LET valid == ValidPrefix(disk[gen])
  IN IF valid = << >> THEN 1 ELSE valid[Len(valid)] + 1

\* One more than the last record of the last segment that has any.
NextLsn(disk) ==
  LET found == {g \in DOMAIN disk : ValidPrefix(disk[g]) # << >>}
  IN IF found = {} THEN 1
     ELSE LET newest == CHOOSE g \in found : \A h \in found : h <= g
              valid == ValidPrefix(disk[newest])
          IN valid[Len(valid)] + 1

\* Mutant: next_to_flush_ keeps its initial value.
ResumeAtOne(disk) ==
  nextLsn' = NextLsn(disk) /\ nextToFlush' = 1

\* The next leader waits for the slot of the next record.
Resume(disk) ==
  nextLsn' = NextLsn(disk) /\ nextToFlush' = nextLsn'

\* The batch a leader is writing.
InWrite ==
  IF \E w \in Writers : pc[w] = "collect" /\ BatchFull(w) THEN batch ELSE << >>

\* A part of it may be in the file.  A torn tail of the active segment is cut
\* off; the constructor throws when an older one has any ("down").  Records
\* past it, and those of deleted segments, leave the history.
Crash(n) ==
  LET disk == [seg EXCEPT ![gen] = @ \o SubSeq(InWrite, 1, n)]
      torn == {g \in DOMAIN disk : ValidPrefix(disk[g]) # disk[g]}
      kept(l) == home[l] > gen - 2 /\ (torn = {} \/ \A e \in error : l < e)
  IN /\ crashes < MaxCrashes                  \* bound, not in the code
     /\ n \in 0 .. Len(InWrite)
     /\ crashes' = crashes + 1
     /\ Resume(disk)
     /\ ring' = [s \in DOMAIN ring |-> 0] /\ batch' = << >>
     /\ flushing' = FALSE /\ settled' = 0 /\ poisoned' = FALSE /\ error' = {}
     /\ seg' = IF torn \subseteq {gen} THEN [disk EXCEPT ![gen] = ValidPrefix(@)] ELSE disk
     /\ pc' = [t \in Threads |-> IF torn \subseteq {gen} THEN "idle" ELSE "down"]
     /\ lsn' = [t \in Threads |-> 0] /\ target' = [t \in Threads |-> 0]
     /\ home' = [l \in Lsns |->
                   IF l \in Range(SubSeq(InWrite, 1, n)) /\ torn = {} THEN gen
                   ELSE IF kept(l) THEN home[l] ELSE 0]
     /\ acked' = {l \in acked : kept(l)}
     /\ UNCHANGED gen

-----------------------------------------------------------------------------
AppendStep(w) ==
  \/ FetchAdd(w) \/ Publish(w) \/ Elect(w) \/ Wake(w) \/ TimeOut(w)
  \/ StartDrain(w) \/ Collect(w) \/ WriteBatch(w) \/ WriteFails(w)
  \/ Settle(w) \/ Retire(w) \/ Release(w) \/ Recheck(w) \/ Reclaim(w) \/ Result(w)
  \/ FailAllStep(w)

RotateStep ==
  RotateElect \/ OpenSegment \/ OpenFails \/ Unlink \/ FailAllStep(Rotator)

Next ==
  \/ \E w \in Writers : CheckPoisoned(w) \/ AppendStep(w)
  \/ RotateCheck \/ RotateStep
  \/ \E n \in 0 .. RingCap : Crash(n)

Spec == Init /\ [][Next]_vars

\* Threads inside a call keep running.
FairSpec ==
  /\ Spec
  /\ \A w \in Writers : WF_vars(AppendStep(w))
  /\ WF_vars(RotateStep)

-----------------------------------------------------------------------------
\* The thread reads the slot of the next record.
LooksUp(t) ==
  \/ pc[t] = "collect" /\ ~BatchFull(t)
  \/ pc[t] = "sweep" /\ nextToFlush # target[t]

\* A leader, of a round or of a sweep, finds the record it looks for in its
\* slot, or none yet: "slot lsn mismatch" is never thrown and a sweep fails
\* the records it passes, also in a log that was opened again with records.
\* This is due to the outstanding records fitting the ring (collect_batch()'s
\* bound then never cuts a round short) and to where the constructor resumes.
RingMatches ==
  \A t \in Threads : LooksUp(t) => ring[Slot(nextToFlush)] \in {0, nextToFlush}

\* Leadership is exclusive, between the leaders of a round, a sweep and
\* rotate_segment(): next_to_flush_, the batch and fd_ have one user.
OneLeader ==
  \A t, u \in {t \in Threads : pc[t] \in {"drain", "collect", "settle", "retire",
                 "failAll", "sweep", "settleAll", "unflush", "open"}} :
    t = u /\ flushing

\* replay() meets the valid records of all segments in LSN order, whichever
\* segment a round ended up in when rotate_segment() ran beside it.
LogOrdered ==
  \A g, h \in DOMAIN seg : \A i \in DOMAIN seg[g], j \in DOMAIN seg[h] :
    (g < h \/ (g = h /\ i < j)) /\ seg[h][j] # 0 => seg[g][i] < seg[h][j]

\* A record whose await_durable() returned is still in its segment, whatever
\* was written, failed or rotated since, until two rotations later; and if no
\* older record failed, it is in the prefix that scan_and_validate() keeps, even
\* when ftruncate() failed, too, and left torn bytes in the file.
AckedRecoverable ==
  \A l \in acked :
    home[l] > gen - 2
      => /\ home[l] \in DOMAIN seg
         /\ \E i \in DOMAIN seg[home[l]] :
              /\ seg[home[l]][i] = l
              /\ (\A e \in error : l < e) => \A j \in 1 .. i : seg[home[l]][j] # 0

\* The log keeps the promise of DurableLog: group commit, leader handover,
\* failed rounds, rotation and the constructor are steps of it, or stutter.
Promise == INSTANCE DurableLog
             WITH durable <- {l \in Lsns : home[l] # 0}, failed <- error
PromiseKept == Promise!Spec

\* No call is stranded: a reserved record is acknowledged or refused, although
\* a leader may hand over to a thread that does not flush it, and also in a log
\* that was opened again.
AppendsEnd ==
  \A w \in Writers :
    pc[w] \notin {"idle", "fetch", "down"} ~> pc[w] \in {"idle", "down"}
=============================================================================
