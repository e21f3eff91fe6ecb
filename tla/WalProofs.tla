------------------------------ MODULE WalProofs ------------------------------
(***************************************************************************)
(* Leadership and the ring of Wal: one leader, contiguous batches, and a   *)
(* slot that never holds another record than the one the leader expects.   *)
(* Then what the constructor reads back from the files.                    *)
(***************************************************************************)
EXTENDS Wal, TLAPS

Leading == {"drain", "collect", "settle", "retire", "failAll", "sweep", "settleAll",
            "unflush", "open"}
Failing == {"failAll", "sweep", "settleAll", "unflush"}
Rounds == {"collect", "settle", "retire"}

WriterSteps == {"idle", "fetch", "publish", "elect", "follow", "drain", "recheck",
                "reclaim", "result", "down"} \cup Rounds
RotatorSteps == {"idle", "rotate", "open", "unlink", "down"} \cup Failing

\* The first record whose round was not tried yet, and whose round has not
\* been settled yet.
Past(steps) ==
  IF \E w \in Writers : pc[w] \in steps THEN nextToFlush ELSE nextToFlush - Len(batch)
Tried == Past({"settle", "retire"})
Done == Past({"retire"})

-----------------------------------------------------------------------------
(* Leadership.  Needs no bound on the number of writers.                   *)

LeaderInv ==
  /\ flushing \in BOOLEAN
  /\ pc \in [Threads -> WriterSteps \cup RotatorSteps]
  /\ OneLeader

\* A thread gains leadership only when nobody has it, and gives up its own.
LEMMA LeaderMove ==
  ASSUME LeaderInv, NEW t \in Threads, NEW step \in WriterSteps \cup RotatorSteps,
         pc' = [pc EXCEPT ![t] = step], flushing' \in BOOLEAN,
         pc[t] \in Leading => (step \in Leading => flushing'),
         pc[t] \notin Leading => /\ flushing => flushing'
                                 /\ step \in Leading => ~flushing /\ flushing'
  PROVE  LeaderInv'
<1>1. pc'[t] = step /\ \A u \in Threads : u # t => pc'[u] = pc[u]
  BY Zenon DEF LeaderInv
<1>2. \A u, v \in Threads : pc[u] \in Leading /\ pc[v] \in Leading => u = v /\ flushing
  BY Zenon DEF LeaderInv, OneLeader, Leading
<1>3. ASSUME NEW u \in Threads, NEW v \in Threads, pc'[u] \in Leading, pc'[v] \in Leading
      PROVE  u = v /\ flushing'
  BY <1>1, <1>2, <1>3, Zenon
<1>4. OneLeader'
  BY <1>3, Zenon DEF OneLeader, Leading
<1>5. pc' \in [Threads -> WriterSteps \cup RotatorSteps]
  BY Zenon DEF LeaderInv
<1> QED
  BY <1>4, <1>5, Zenon DEF LeaderInv

LEMMA LeaderInit == Init => LeaderInv
BY Zenon DEF Init, LeaderInv, OneLeader, WriterSteps

LEMMA LeaderStep ==
  ASSUME LeaderInv, [Next]_vars PROVE LeaderInv'
<1> USE DEF Leading, Failing, Rounds, WriterSteps, RotatorSteps
<1>1. \A w \in Writers : w \in Threads
  BY Zenon DEF Threads
<1>2. Rotator \in Threads
  BY Zenon DEF Threads
<1>3. flushing \in BOOLEAN /\ pc \in [Threads -> WriterSteps \cup RotatorSteps]
  BY Zenon DEF LeaderInv
<1>4. \A t \in Threads : pc[t] \in Leading => flushing
  BY Zenon DEF LeaderInv, OneLeader
<1>5. ASSUME NEW w \in Writers, CheckPoisoned(w) PROVE LeaderInv'
  BY <1>1, <1>3, <1>5, LeaderMove, Zenon DEF CheckPoisoned, Goto
<1>6. ASSUME NEW w \in Writers, FetchAdd(w) PROVE LeaderInv'
  BY <1>1, <1>3, <1>6, LeaderMove, Zenon DEF FetchAdd, Goto
<1>7. ASSUME NEW w \in Writers, Publish(w) PROVE LeaderInv'
  BY <1>1, <1>3, <1>7, LeaderMove, Zenon DEF Publish, Goto
<1>8. ASSUME NEW w \in Writers, Elect(w) PROVE LeaderInv'
  BY <1>1, <1>3, <1>8, LeaderMove, Zenon DEF Elect, Goto
<1>9. ASSUME NEW w \in Writers, Wake(w) PROVE LeaderInv'
  BY <1>1, <1>3, <1>9, LeaderMove, Zenon DEF Wake, Goto
<1>10. ASSUME NEW w \in Writers, TimeOut(w) PROVE LeaderInv'
  BY <1>1, <1>3, <1>10, LeaderMove, Zenon DEF TimeOut, Goto
<1>11. ASSUME NEW w \in Writers, StartDrain(w) PROVE LeaderInv'
  BY <1>1, <1>3, <1>4, <1>11, LeaderMove, Zenon DEF StartDrain, Goto
<1>12. ASSUME NEW w \in Writers, Collect(w) PROVE LeaderInv'
  <2>1. CASE Goto(w, "failAll")
    BY <1>1, <1>3, <1>4, <1>12, <2>1, LeaderMove, Zenon DEF Collect, Goto
  <2>2. CASE UNCHANGED pc
    BY <1>12, <2>2, Zenon DEF Collect, LeaderInv, OneLeader
  <2> QED
    BY <1>12, <2>1, <2>2, Zenon DEF Collect
<1>13. ASSUME NEW w \in Writers, WriteBatch(w) PROVE LeaderInv'
  BY <1>1, <1>3, <1>4, <1>13, LeaderMove, Zenon DEF WriteBatch, Goto
<1>14. ASSUME NEW w \in Writers, WriteFails(w) PROVE LeaderInv'
  BY <1>1, <1>3, <1>4, <1>14, LeaderMove, Zenon DEF WriteFails, Goto
<1>15. ASSUME NEW w \in Writers, Settle(w) PROVE LeaderInv'
  BY <1>1, <1>3, <1>4, <1>15, LeaderMove, Zenon DEF Settle, Goto
<1>16. ASSUME NEW w \in Writers, Retire(w) PROVE LeaderInv'
  BY <1>1, <1>3, <1>4, <1>16, LeaderMove, Zenon DEF Retire, Goto
<1>17. ASSUME NEW w \in Writers, Release(w) PROVE LeaderInv'
  BY <1>1, <1>3, <1>17, LeaderMove, Zenon DEF Release, Goto
<1>18. ASSUME NEW w \in Writers, Recheck(w) PROVE LeaderInv'
  BY <1>1, <1>3, <1>18, LeaderMove, Zenon DEF Recheck, Goto
<1>19. ASSUME NEW w \in Writers, Reclaim(w) PROVE LeaderInv'
  BY <1>1, <1>3, <1>19, LeaderMove, Zenon DEF Reclaim, Goto
<1>20. ASSUME NEW w \in Writers, Result(w) PROVE LeaderInv'
  BY <1>1, <1>3, <1>20, LeaderMove, Zenon DEF Result, Answer, Goto
<1>21. ASSUME NEW t \in Threads, FailAllStep(t) PROVE LeaderInv'
  <2>1. CASE FailAll(t)
    BY <1>3, <1>4, <2>1, LeaderMove, Zenon DEF FailAll, Goto
  <2>2. CASE SweepRecord(t)
    BY <2>2, Zenon DEF SweepRecord, LeaderInv, OneLeader
  <2>3. CASE SweepAgain(t) /\ Goto(t, "settleAll")
    BY <1>3, <1>4, <2>3, LeaderMove, Zenon DEF SweepAgain, Goto
  <2>4. CASE SweepAgain(t) /\ UNCHANGED pc
    BY <2>4, Zenon DEF SweepAgain, LeaderInv, OneLeader
  <2>5. CASE SettleAll(t)
    BY <1>3, <1>4, <2>5, LeaderMove, Zenon DEF SettleAll, Goto
  <2>6. CASE Throw(t)
    <3>1. pc[t] = "unflush" /\ pc' = [pc EXCEPT ![t] = "idle"] /\ flushing' = FALSE
      BY <2>6, Zenon DEF Throw, Answer, Goto
    <3> QED
      BY <3>1, LeaderMove, Zenon
  <2> QED
    BY <1>21, <2>1, <2>2, <2>3, <2>4, <2>5, <2>6, Zenon DEF FailAllStep, SweepAgain
<1>22. CASE RotateCheck
  BY <1>2, <1>3, <1>22, LeaderMove, Zenon DEF RotateCheck, Goto
<1>23. CASE RotateElect
  BY <1>2, <1>3, <1>23, LeaderMove, Zenon DEF RotateElect, Goto
<1>24. CASE OpenSegment
  BY <1>2, <1>3, <1>24, LeaderMove, Zenon DEF OpenSegment, Goto
<1>25. CASE OpenFails
  BY <1>2, <1>3, <1>4, <1>25, LeaderMove, Zenon DEF OpenFails, Goto
<1>26. CASE Unlink
  BY <1>2, <1>3, <1>26, LeaderMove, Zenon DEF Unlink, Goto
<1>27. ASSUME NEW n \in 0 .. RingCap, Crash(n) PROVE LeaderInv'
  <2>1. /\ flushing' = FALSE
        /\ pc' \in [Threads -> {"idle", "down"}]
    BY <1>27, Zenon DEF Crash
  <2> QED
    BY <2>1, Zenon DEF LeaderInv, OneLeader
<1>28. CASE UNCHANGED vars
  BY <1>28, Zenon DEF vars, LeaderInv, OneLeader
<1> QED
  BY <1>1, <1>2, <1>5, <1>6, <1>7, <1>8, <1>9, <1>10, <1>11, <1>12, <1>13, <1>14, <1>15,
     <1>16, <1>17, <1>18, <1>19, <1>20, <1>21, <1>22, <1>23, <1>24, <1>25, <1>26, <1>27,
     <1>28, Zenon DEF Next, AppendStep, RotateStep

\* Rounds of group commit, sweeps and rotations exclude each other, whatever
\* the number of threads in await_durable().
THEOREM OneLeaderCorrect == Spec => []OneLeader
<1>1. LeaderInv => OneLeader
  BY Zenon DEF LeaderInv
<1> QED
  BY LeaderInit, LeaderStep, <1>1, PTL DEF Spec

-----------------------------------------------------------------------------
(* The ring.                                                               *)

TypeInv ==
  /\ nextLsn \in 1 .. MaxLsn + 1 /\ nextToFlush \in 1 .. nextLsn
  /\ ring \in [0 .. RingCap - 1 -> 0 .. MaxLsn]
  /\ settled \in Nat /\ batch \in Seq(Lsns)
  /\ lsn \in [Threads -> 0 .. MaxLsn] /\ target \in [Threads -> 0 .. MaxLsn + 1]

\* The batch is the records just before next_to_flush_, and has a leader.
BatchInv ==
  /\ Len(batch) < nextToFlush /\ Len(batch) <= RingCap
  /\ \A i \in 1 .. Len(batch) : batch[i] = nextToFlush - Len(batch) + i - 1
  /\ batch # << >> => \E w \in Writers : pc[w] \in Rounds

\* A slot holds a record that is its own, reserved and not retired.
SlotInv ==
  \A s \in 0 .. RingCap - 1 : ring[s] # 0 =>
    Slot(ring[s]) = s /\ nextToFlush - Len(batch) <= ring[s] /\ ring[s] < nextLsn

\* Every record that is not settled has a writer of its own.
OwnerInv ==
  /\ \A w, u \in Writers : lsn[w] = lsn[u] /\ lsn[w] # 0 => w = u
  /\ \A l \in Done .. nextLsn - 1 : \E w \in Writers : lsn[w] = l
  /\ settled < Done

\* How far a call has come.
WriterOK(w) ==
  /\ pc[w] \in WriterSteps
  /\ lsn[w] < nextLsn
  /\ lsn[w] = 0 <=> pc[w] \in {"idle", "fetch", "down"}
  /\ pc[w] = "publish" => nextToFlush <= lsn[w] /\ ring[Slot(lsn[w])] # lsn[w]
  /\ pc[w] \in Rounds =>
       nextToFlush <= target[w] /\ target[w] <= nextLsn /\ lsn[w] < target[w]
  /\ pc[w] \in {"settle", "retire"} => batch # << >>
  /\ pc[w] \in {"recheck", "reclaim", "result"} => lsn[w] < Done

RotatorOK ==
  /\ pc[Rotator] \in RotatorSteps
  /\ pc[Rotator] = "sweep" => nextToFlush <= target[Rotator] /\ target[Rotator] <= nextLsn

RingInv ==
  /\ TypeInv /\ BatchInv /\ SlotInv /\ OwnerInv
  /\ RotatorOK /\ \A w \in Writers : WriterOK(w)

\* Records that share a slot are a whole ring apart.
LEMMA SlotGap ==
  ASSUME NEW a \in Nat, NEW b \in Nat, a < b, Slot(a) = Slot(b)
  PROVE  a + RingCap <= b
<1> DEFINE q == a \div RingCap
           r == b \div RingCap
<1>1. RingCap \in Nat \ {0}
  BY BoundsAssumption, Zenon
<1>2. q \in Int /\ a = RingCap * q + (a % RingCap)
  BY <1>1
<1>3. r \in Int /\ b = RingCap * r + (b % RingCap)
  BY <1>1
<1> HIDE DEF q, r
<1>4. a % RingCap \in Int
  BY <1>1
<1>5. RingCap * q < RingCap * r
  BY <1>1, <1>2, <1>3, <1>4 DEF Slot
<1>6. q < r
  BY <1>1, <1>2, <1>3, <1>5
<1>7. RingCap * q + RingCap <= RingCap * r
  BY <1>1, <1>2, <1>3, <1>6
<1> QED
  BY <1>1, <1>2, <1>3, <1>4, <1>7 DEF Slot

LEMMA SlotRange ==
  ASSUME NEW l \in Nat PROVE Slot(l) \in 0 .. RingCap - 1
BY BoundsAssumption DEF Slot

LEMMA PastFacts ==
  ASSUME TypeInv
  PROVE  /\ Done \in Int /\ Tried \in Int
         /\ nextToFlush - Len(batch) <= Done /\ Done <= Tried /\ Tried <= nextToFlush
BY DEF TypeInv, Done, Tried, Past

LEMMA PastSame ==
  ASSUME UNCHANGED <<nextToFlush, batch>>, NEW CONSTANT steps,
         \A w \in Writers : pc'[w] \in steps <=> pc[w] \in steps
  PROVE  Past(steps)' = Past(steps)
BY Zenon DEF Past

\* There are never more unsettled records than slots.
Fits == nextLsn - Done <= RingCap

\* What the leader finds in the slot of the next record.
LEMMA NextSlot ==
  ASSUME TypeInv, SlotInv, Fits, Len(batch) < RingCap
  PROVE  ring[Slot(nextToFlush)] \in {0, nextToFlush}
<1> DEFINE r == ring[Slot(nextToFlush)]
<1>1. nextToFlush \in Nat /\ RingCap \in Nat \ {0} /\ Len(batch) \in Nat /\ nextLsn \in Nat
  BY BoundsAssumption DEF TypeInv
<1>2. Slot(nextToFlush) \in 0 .. RingCap - 1
  BY <1>1, SlotRange, Zenon
<1>3. r \in Nat
  BY <1>2 DEF TypeInv
<1>4. r # 0 => /\ Slot(r) = Slot(nextToFlush)
               /\ nextToFlush - Len(batch) <= r /\ r < nextLsn
  BY <1>2, Zenon DEF SlotInv
<1> HIDE DEF r
<1>5. ~(r # 0 /\ r < nextToFlush)
  BY <1>1, <1>3, <1>4, SlotGap
<1>6. nextLsn - nextToFlush <= RingCap
  BY <1>1, PastFacts DEF Fits
<1>7. ~(r # 0 /\ nextToFlush < r)
  BY <1>1, <1>3, <1>4, <1>6, SlotGap
<1>8. r = 0 \/ r = nextToFlush
  BY <1>1, <1>3, <1>5, <1>7
<1> QED
  BY <1>8, Zenon DEF r

\* A step of another thread that moves the counters forward only.
LEMMA OtherWriter ==
  ASSUME TypeInv, NEW w \in Writers, WriterOK(w),
         pc'[w] = pc[w], lsn'[w] = lsn[w], target'[w] = target[w],
         nextLsn' \in Int, nextLsn <= nextLsn', Done' \in Int, Done <= Done',
         pc[w] \in Rounds => UNCHANGED <<nextToFlush, batch>>,
         pc[w] = "publish" => nextToFlush' <= lsn[w] /\ ring'[Slot(lsn[w])] # lsn[w]
  PROVE  WriterOK(w)'
<1>1. lsn[w] \in Int /\ target[w] \in Int /\ nextLsn \in Int /\ Done \in Int
  BY PastFacts DEF TypeInv, Threads
<1>2. lsn'[w] < nextLsn'
  BY <1>1 DEF WriterOK
<1>3. pc[w] \in Rounds =>
        nextToFlush' <= target[w] /\ target[w] <= nextLsn' /\ lsn[w] < target[w]
  BY <1>1 DEF WriterOK
<1>4. pc[w] \in {"settle", "retire"} => batch' # << >>
  BY Zenon DEF WriterOK, Rounds
<1>5. pc[w] \in {"recheck", "reclaim", "result"} => lsn[w] < Done'
  BY <1>1 DEF WriterOK
<1>6. Slot(lsn[w])' = Slot(lsn[w])
  BY Zenon DEF Slot
<1>7. /\ pc[w] \in WriterSteps
      /\ lsn[w] = 0 <=> pc[w] \in {"idle", "fetch", "down"}
  BY Zenon DEF WriterOK
<1> QED
  BY <1>2, <1>3, <1>4, <1>5, <1>6, <1>7, Zenon DEF WriterOK

\* Nobody else is in a round, and the batch is empty unless somebody is.
LEMMA LeaderAlone ==
  ASSUME LeaderInv, RingInv, NEW t \in Threads, pc[t] \in Leading
  PROVE  /\ \A w \in Writers : w # t => pc[w] \notin Rounds
         /\ t \notin Writers \/ pc[t] \notin Rounds => batch = << >>
<1>1. \A w \in Writers : w # t => pc[w] \notin Rounds
  BY Zenon DEF LeaderInv, OneLeader, Leading, Rounds, Threads
<1> QED
  BY <1>1, Zenon DEF RingInv, BatchInv

\* A writer moves on without touching ring or batch.
LEMMA MoveRing ==
  ASSUME LeaderInv, RingInv, NEW t \in Writers, NEW step \in WriterSteps,
         pc' = [pc EXCEPT ![t] = step],
         UNCHANGED <<nextLsn, ring, nextToFlush, batch, settled, lsn>>,
         \/ target' = target /\ step \notin Rounds
         \/ target' = [target EXCEPT ![t] = nextLsn] /\ step = "collect",
         pc[t] \notin {"settle", "retire", "down"},
         step \notin {"settle", "retire", "publish", "down"},
         pc[t] \in {"idle", "fetch"} <=> step \in {"idle", "fetch"},
         pc[t] \in Rounds => batch = << >>,
         step \in {"recheck", "reclaim", "result"} => lsn[t] < Done
  PROVE  RingInv'
<1>1. /\ TypeInv /\ BatchInv /\ SlotInv /\ OwnerInv /\ RotatorOK
      /\ \A w \in Writers : WriterOK(w)
  BY Zenon DEF RingInv
<1>2. t \in Threads /\ t # Rotator /\ Rotator \in Threads /\ \A w \in Writers : w \in Threads
  BY ThreadsAssumption, Zenon DEF Threads
<1>3. pc'[t] = step /\ \A u \in Threads : u # t => pc'[u] = pc[u]
  BY <1>2, Zenon DEF LeaderInv
<1>4. nextLsn \in 1 .. MaxLsn + 1 /\ target \in [Threads -> 0 .. MaxLsn + 1]
  BY <1>1, Zenon DEF TypeInv
<1>5. target' \in [Threads -> 0 .. MaxLsn + 1] /\ \A u \in Threads : u # t => target'[u] = target[u]
  <2>1. nextLsn \in 0 .. MaxLsn + 1
    BY <1>4
  <2> QED
    BY <1>2, <1>4, <2>1, Zenon
<1>6. Done' = Done
  <2>1. \A w \in Writers : pc'[w] \in {"retire"} <=> pc[w] \in {"retire"}
    BY <1>2, <1>3, Zenon
  <2> QED
    BY <2>1, PastSame, Zenon DEF Done
<1>7. TypeInv'
  BY <1>1, <1>5, Zenon DEF TypeInv
<1>8. BatchInv'
  <2>1. batch # << >> => \E w \in Writers : pc'[w] \in Rounds
    BY <1>1, <1>2, <1>3, Zenon DEF BatchInv
  <2> QED
    BY <1>1, <2>1, Zenon DEF BatchInv
<1>9. SlotInv'
  BY <1>1, Zenon DEF SlotInv, Slot
<1>10. OwnerInv'
  BY <1>1, <1>6, Zenon DEF OwnerInv
<1>11. RotatorOK'
  BY <1>1, <1>2, <1>3, <1>5, Zenon DEF RotatorOK
<1>12. ASSUME NEW w \in Writers PROVE WriterOK(w)'
  <2>1. WriterOK(w) /\ nextLsn \in Int /\ Done \in Int /\ nextLsn <= nextLsn /\ Done <= Done
    BY <1>1, <1>4, PastFacts
  <2>2. CASE w # t
    <3>1. pc[w] = "publish" => nextToFlush <= lsn[w] /\ ring[Slot(lsn[w])] # lsn[w]
      BY <2>1, Zenon DEF WriterOK
    <3> QED
      BY <1>1, <1>2, <1>3, <1>5, <1>6, <2>1, <2>2, <3>1, OtherWriter, Zenon
  <2>3. CASE w = t
    <3>1. pc'[t] = "collect" =>
            nextToFlush <= target'[t] /\ target'[t] <= nextLsn /\ lsn[t] < target'[t]
      <4>1. nextToFlush <= nextLsn /\ nextLsn <= nextLsn
        BY <1>1 DEF TypeInv
      <4>2. pc'[t] = "collect" => target'[t] = nextLsn
        BY <1>2, <1>3, <1>4, Zenon DEF Rounds
      <4> QED
        BY <2>1, <2>3, <4>1, <4>2, Zenon DEF WriterOK
    <3>2. lsn[t] < nextLsn /\ (lsn[t] = 0 <=> step \in {"idle", "fetch", "down"})
      BY <2>1, <2>3, Zenon DEF WriterOK
    <3> QED
      BY <1>3, <1>6, <2>3, <3>1, <3>2, Zenon DEF WriterOK, Rounds
  <2> QED
    BY <2>2, <2>3, Zenon
<1> QED
  BY <1>7, <1>8, <1>9, <1>10, <1>11, <1>12, Zenon DEF RingInv

\* The same of the checkpoint's thread.
LEMMA MoveRotator ==
  ASSUME LeaderInv, RingInv, NEW step \in RotatorSteps,
         pc' = [pc EXCEPT ![Rotator] = step],
         UNCHANGED <<nextLsn, ring, nextToFlush, batch, lsn>>,
         settled' = settled \/ (settled' = nextToFlush - 1 /\ pc[Rotator] \in Leading),
         NEW x \in 0 .. MaxLsn + 1, target' = [target EXCEPT ![Rotator] = x],
         step = "sweep" => nextToFlush <= x /\ x <= nextLsn
  PROVE  RingInv'
<1>1. /\ TypeInv /\ BatchInv /\ SlotInv /\ OwnerInv /\ RotatorOK
      /\ \A w \in Writers : WriterOK(w)
  BY Zenon DEF RingInv
<1>2. Rotator \in Threads /\ \A w \in Writers : w # Rotator /\ w \in Threads
  BY ThreadsAssumption, Zenon DEF Threads
<1>3. pc'[Rotator] = step /\ \A w \in Writers : pc'[w] = pc[w]
  BY <1>2, Zenon DEF LeaderInv
<1>4. /\ target' \in [Threads -> 0 .. MaxLsn + 1]
      /\ target'[Rotator] = x /\ \A w \in Writers : target'[w] = target[w]
  BY <1>1, <1>2, Zenon DEF TypeInv
<1>5. Done' = Done
  BY <1>3, PastSame, Zenon DEF Done
<1>6. settled' \in Nat /\ settled' < Done
  <2>1. CASE settled' = settled
    BY <1>1, <2>1, Zenon DEF TypeInv, OwnerInv
  <2>2. CASE settled' = nextToFlush - 1 /\ pc[Rotator] \in Leading
    <3>1. batch = << >>
      BY <1>2, <2>2, LeaderAlone, Zenon
    <3>2. Done = nextToFlush /\ nextToFlush \in Nat \ {0}
      BY <1>1, <3>1 DEF Done, Past, TypeInv
    <3> QED
      BY <2>2, <3>2
  <2> QED
    BY <2>1, <2>2, Zenon
<1>7. TypeInv'
  BY <1>1, <1>4, <1>6, Zenon DEF TypeInv
<1>8. BatchInv'
  BY <1>1, <1>3, Zenon DEF BatchInv
<1>9. SlotInv'
  BY <1>1, Zenon DEF SlotInv, Slot
<1>10. OwnerInv'
  BY <1>1, <1>5, <1>6, Zenon DEF OwnerInv
<1>11. RotatorOK'
  BY <1>3, <1>4, Zenon DEF RotatorOK
<1>12. ASSUME NEW w \in Writers PROVE WriterOK(w)'
  <2>1. WriterOK(w) /\ nextLsn \in Int /\ Done \in Int /\ nextLsn <= nextLsn /\ Done <= Done
    BY <1>1, PastFacts DEF TypeInv
  <2>2. pc[w] = "publish" => nextToFlush <= lsn[w] /\ ring[Slot(lsn[w])] # lsn[w]
    BY <2>1, Zenon DEF WriterOK
  <2> QED
    BY <1>1, <1>3, <1>4, <1>5, <2>1, <2>2, OtherWriter, Zenon
<1> QED
  BY <1>7, <1>8, <1>9, <1>10, <1>11, <1>12, Zenon DEF RingInv

LEMMA FetchRing ==
  ASSUME LeaderInv, RingInv, NEW t \in Writers, FetchAdd(t) PROVE RingInv'
<1>1. /\ TypeInv /\ BatchInv /\ SlotInv /\ OwnerInv /\ RotatorOK
      /\ \A w \in Writers : WriterOK(w)
  BY Zenon DEF RingInv
<1>2. /\ pc[t] = "fetch" /\ nextLsn <= MaxLsn /\ nextLsn' = nextLsn + 1
      /\ lsn' = [lsn EXCEPT ![t] = nextLsn] /\ pc' = [pc EXCEPT ![t] = "publish"]
      /\ UNCHANGED <<ring, nextToFlush, settled, batch, target>>
  BY Zenon DEF FetchAdd, Goto
<1>3. t \in Threads /\ t # Rotator /\ Rotator \in Threads /\ \A w \in Writers : w \in Threads
  BY ThreadsAssumption, Zenon DEF Threads
<1>4. pc'[t] = "publish" /\ \A u \in Threads : u # t => pc'[u] = pc[u]
  BY <1>2, <1>3, Zenon DEF LeaderInv
<1>5. lsn \in [Threads -> 0 .. MaxLsn]
  BY <1>1, Zenon DEF TypeInv
<1>6. nextLsn \in Nat \ {0} /\ nextToFlush \in Nat /\ nextToFlush <= nextLsn /\ MaxLsn \in Nat
  BY <1>1, BoundsAssumption DEF TypeInv
<1>7. nextLsn \in 0 .. MaxLsn
  BY <1>2, <1>6, BoundsAssumption
<1>8. lsn'[t] = nextLsn /\ \A u \in Threads : u # t => lsn'[u] = lsn[u]
  BY <1>2, <1>3, <1>5, Zenon
<1>9. TypeInv'
  <2>1. lsn' \in [Threads -> 0 .. MaxLsn]
    BY <1>2, <1>5, <1>7, Zenon
  <2>2. nextLsn' \in 1 .. MaxLsn + 1 /\ nextToFlush \in 1 .. nextLsn'
    BY <1>1, <1>2, <1>6 DEF TypeInv
  <2> QED
    BY <1>1, <1>2, <2>1, <2>2, Zenon DEF TypeInv
<1>10. Done' = Done /\ Done \in Int
  <2>1. \A w \in Writers : pc'[w] \in {"retire"} <=> pc[w] \in {"retire"}
    BY <1>2, <1>3, <1>4, Zenon
  <2> QED
    BY <1>1, <1>2, <2>1, PastSame, PastFacts, Zenon DEF Done
<1>11. BatchInv'
  <2>1. batch # << >> => \E w \in Writers : pc'[w] \in Rounds
    BY <1>1, <1>2, <1>3, <1>4, Zenon DEF BatchInv, Rounds
  <2> QED
    BY <1>1, <1>2, <2>1, Zenon DEF BatchInv
<1>12. \A s \in 0 .. RingCap - 1 : ring[s] \in Nat
  BY <1>1 DEF TypeInv
<1>13. SlotInv'
  BY <1>1, <1>2, <1>6, <1>12 DEF SlotInv, Slot
<1>14. \A w \in Writers : lsn[w] \in Nat /\ lsn[w] < nextLsn
  BY <1>1, <1>3, <1>5 DEF WriterOK
<1>15. OwnerInv'
  <2>1. \A w, u \in Writers : lsn'[w] = lsn'[u] /\ lsn'[w] # 0 => w = u
    BY <1>1, <1>3, <1>6, <1>8, <1>14 DEF OwnerInv
  <2>2. \A l \in Done .. nextLsn' - 1 : l = nextLsn \/ l \in Done .. nextLsn - 1
    BY <1>2, <1>6, <1>10
  <2>3. lsn[t] = 0 /\ \A l \in Done .. nextLsn - 1 : \E w \in Writers : lsn[w] = l
    BY <1>1, <1>2, Zenon DEF OwnerInv, WriterOK
  <2>4. settled < Done /\ settled \in Nat
    BY <1>1, Zenon DEF OwnerInv, TypeInv
  <2>5. \A l \in Done .. nextLsn - 1 : l # 0
    BY <1>6, <1>10, <2>4
  <2>6. \A l \in Done .. nextLsn' - 1 : \E w \in Writers : lsn'[w] = l
    BY <1>3, <1>8, <2>2, <2>3, <2>5, Zenon
  <2> QED
    BY <1>2, <1>10, <2>1, <2>4, <2>6, Zenon DEF OwnerInv
<1>16. RotatorOK'
  <2>1. target[Rotator] \in Nat
    BY <1>1, <1>3 DEF TypeInv
  <2> QED
    BY <1>1, <1>2, <1>3, <1>4, <1>6, <2>1 DEF RotatorOK
<1>17. ASSUME NEW w \in Writers PROVE WriterOK(w)'
  <2>1. WriterOK(w) /\ nextLsn' \in Int /\ nextLsn <= nextLsn' /\ Done <= Done
    BY <1>1, <1>2, <1>6, <1>10
  <2>2. CASE w # t
    <3>1. pc[w] = "publish" => nextToFlush <= lsn[w] /\ ring[Slot(lsn[w])] # lsn[w]
      BY <2>1, Zenon DEF WriterOK
    <3> QED
      BY <1>1, <1>2, <1>3, <1>4, <1>8, <1>10, <2>1, <2>2, <3>1, OtherWriter, Zenon
  <2>3. CASE w = t
    <3>1. ring[Slot(nextLsn)] # nextLsn
      <4>1. Slot(nextLsn) \in 0 .. RingCap - 1
        BY <1>6, SlotRange, Zenon
      <4>2. ring[Slot(nextLsn)] # 0 => ring[Slot(nextLsn)] < nextLsn
        BY <1>1, <4>1, Zenon DEF SlotInv
      <4> QED
        BY <1>6, <1>12, <4>1, <4>2
    <3>2. nextLsn < nextLsn + 1 /\ nextLsn # 0
      BY <1>6
    <3> QED
      BY <1>2, <1>4, <1>6, <1>8, <2>3, <3>1, <3>2, Zenon DEF WriterOK, Rounds, WriterSteps, Slot
  <2> QED
    BY <2>2, <2>3, Zenon
<1> QED
  BY <1>9, <1>11, <1>13, <1>15, <1>16, <1>17, Zenon DEF RingInv

LEMMA PublishRing ==
  ASSUME LeaderInv, RingInv, NEW t \in Writers, Publish(t) PROVE RingInv'
<1>1. /\ TypeInv /\ BatchInv /\ SlotInv /\ OwnerInv /\ RotatorOK
      /\ \A w \in Writers : WriterOK(w)
  BY Zenon DEF RingInv
<1>2. /\ pc[t] = "publish" /\ pc' = [pc EXCEPT ![t] = "elect"]
      /\ ring' = [ring EXCEPT ![Slot(lsn[t])] = lsn[t]]
      /\ UNCHANGED <<nextLsn, nextToFlush, settled, batch, lsn, target>>
  BY Zenon DEF Publish, Goto
<1>3. t \in Threads /\ t # Rotator /\ Rotator \in Threads /\ \A w \in Writers : w \in Threads
  BY ThreadsAssumption, Zenon DEF Threads
<1>4. pc'[t] = "elect" /\ \A u \in Threads : u # t => pc'[u] = pc[u]
  BY <1>2, <1>3, Zenon DEF LeaderInv
<1>5. lsn[t] \in 0 .. MaxLsn /\ ring \in [0 .. RingCap - 1 -> 0 .. MaxLsn]
  BY <1>1, <1>3, Zenon DEF TypeInv
<1>6. Slot(lsn[t]) \in 0 .. RingCap - 1
  <2>1. lsn[t] \in Nat
    BY <1>5, BoundsAssumption
  <2> QED
    BY <2>1, SlotRange, Zenon
<1>7. /\ ring'[Slot(lsn[t])] = lsn[t]
      /\ \A s \in 0 .. RingCap - 1 : s # Slot(lsn[t]) => ring'[s] = ring[s]
  BY <1>2, <1>5, <1>6, Zenon
<1>8. Done' = Done
  <2>1. \A w \in Writers : pc'[w] \in {"retire"} <=> pc[w] \in {"retire"}
    BY <1>2, <1>3, <1>4, Zenon
  <2> QED
    BY <1>2, <2>1, PastSame, Zenon DEF Done
<1>9. TypeInv'
  BY <1>1, <1>2, <1>5, <1>6, Zenon DEF TypeInv
<1>10. BatchInv'
  <2>1. batch # << >> => \E w \in Writers : pc'[w] \in Rounds
    BY <1>1, <1>2, <1>3, <1>4, Zenon DEF BatchInv, Rounds
  <2> QED
    BY <1>1, <1>2, <2>1, Zenon DEF BatchInv
<1>11. SlotInv'
  <2>1. nextToFlush - Len(batch) <= lsn[t] /\ lsn[t] < nextLsn
    BY <1>1, <1>2, <1>5 DEF WriterOK, TypeInv
  <2> QED
    BY <1>1, <1>2, <1>7, <2>1, Zenon DEF SlotInv, Slot
<1>12. OwnerInv'
  BY <1>1, <1>2, <1>8, Zenon DEF OwnerInv
<1>13. RotatorOK'
  BY <1>1, <1>2, <1>3, <1>4, Zenon DEF RotatorOK
<1>14. ASSUME NEW w \in Writers PROVE WriterOK(w)'
  <2>1. WriterOK(w) /\ nextLsn \in Int /\ Done \in Int /\ nextLsn <= nextLsn /\ Done <= Done
    BY <1>1, PastFacts DEF TypeInv
  <2>2. CASE w # t
    <3>1. ASSUME pc[w] = "publish"
          PROVE  nextToFlush <= lsn[w] /\ ring'[Slot(lsn[w])] # lsn[w]
      <4>1. /\ nextToFlush <= lsn[w] /\ ring[Slot(lsn[w])] # lsn[w]
            /\ lsn[w] # 0 /\ lsn[t] # lsn[w]
        BY <1>1, <2>1, <2>2, <3>1, Zenon DEF WriterOK, OwnerInv
      <4>2. Slot(lsn[w]) \in 0 .. RingCap - 1
        <5>1. lsn[w] \in Nat
          BY <1>1, <1>3 DEF TypeInv
        <5> QED
          BY <5>1, SlotRange, Zenon
      <4> QED
        BY <1>7, <4>1, <4>2, Zenon
    <3> QED
      BY <1>1, <1>2, <1>3, <1>4, <1>8, <2>1, <2>2, <3>1, OtherWriter, Zenon
  <2>3. CASE w = t
    BY <1>2, <1>4, <2>1, <2>3, Zenon DEF WriterOK, Rounds, WriterSteps
  <2> QED
    BY <2>2, <2>3, Zenon
<1> QED
  BY <1>9, <1>10, <1>11, <1>12, <1>13, <1>14, Zenon DEF RingInv

LEMMA CollectRing ==
  ASSUME LeaderInv, RingInv, Fits, NEW t \in Writers, Collect(t) PROVE RingInv'
<1>1. /\ TypeInv /\ BatchInv /\ SlotInv /\ OwnerInv /\ RotatorOK
      /\ \A w \in Writers : WriterOK(w)
  BY Zenon DEF RingInv
<1>2. t \in Threads /\ t # Rotator /\ Rotator \in Threads /\ \A w \in Writers : w \in Threads
  BY ThreadsAssumption, Zenon DEF Threads
<1>3. pc[t] = "collect" /\ nextToFlush # target[t] /\ Len(batch) # RingCap
  BY Zenon DEF Collect, BatchFull
<1>4. /\ nextToFlush \in Nat \ {0} /\ nextLsn \in Nat /\ nextLsn <= MaxLsn + 1
      /\ target[t] \in Nat /\ batch \in Seq(Lsns) /\ MaxLsn \in Nat /\ RingCap \in Nat
  BY <1>1, <1>2, BoundsAssumption DEF TypeInv
<1>5. nextToFlush < target[t] /\ target[t] <= nextLsn /\ lsn[t] < target[t]
  BY <1>1, <1>3, <1>4 DEF WriterOK, Rounds
<1>6. Len(batch) < RingCap /\ Len(batch) < nextToFlush /\ Len(batch) \in Nat
  BY <1>1, <1>3, <1>4 DEF BatchInv
<1>7. ring[Slot(nextToFlush)] = nextToFlush
  BY <1>1, <1>6, NextSlot, Zenon DEF Collect
<1>8. /\ batch' = Append(batch, nextToFlush) /\ nextToFlush' = nextToFlush + 1
      /\ UNCHANGED <<pc, nextLsn, ring, settled, lsn, target>>
  BY <1>7, Zenon DEF Collect
<1>9. /\ batch' \in Seq(Lsns) /\ Len(batch') = Len(batch) + 1
      /\ batch'[Len(batch) + 1] = nextToFlush
      /\ \A i \in 1 .. Len(batch) : batch'[i] = batch[i]
  <2>1. nextToFlush \in Lsns
    BY <1>4, <1>5 DEF Lsns
  <2>2. batch' = Append(batch, nextToFlush) /\ batch \in Seq(Lsns)
    BY <1>4, <1>8, Zenon
  <2> QED
    BY <2>1, <2>2
<1>10. TypeInv'
  <2>1. nextToFlush' \in 1 .. nextLsn
    BY <1>4, <1>5, <1>8
  <2> QED
    BY <1>1, <1>8, <1>9, <2>1, Zenon DEF TypeInv
<1>11. \A w \in Writers : w # t => pc[w] \notin Rounds
  BY <1>2, <1>3, LeaderAlone, Zenon DEF Leading
<1>12. Done' = Done /\ Done \in Int
  <2>1. ~ \E w \in Writers : pc[w] \in {"retire"}
    BY <1>3, <1>11, Zenon DEF Rounds
  <2>2. nextToFlush' - Len(batch') = nextToFlush - Len(batch)
    BY <1>4, <1>6, <1>8, <1>9
  <2> QED
    BY <1>1, <1>8, <2>1, <2>2, PastFacts, Zenon DEF Done, Past
<1>13. BatchInv'
  <2>1. Len(batch') < nextToFlush' /\ Len(batch') <= RingCap
    BY <1>4, <1>6, <1>8, <1>9
  <2>2. ASSUME NEW i \in 1 .. Len(batch')
        PROVE  batch'[i] = nextToFlush' - Len(batch') + i - 1
    <3>1. CASE i \in 1 .. Len(batch)
      <4>1. batch[i] = nextToFlush - Len(batch) + i - 1
        BY <1>1, <3>1, Zenon DEF BatchInv
      <4> QED
        BY <1>4, <1>6, <1>8, <1>9, <3>1, <4>1
    <3>2. CASE i = Len(batch) + 1
      BY <1>4, <1>6, <1>8, <1>9, <3>2
    <3> QED
      BY <1>6, <1>9, <3>1, <3>2
  <2> QED
    BY <1>3, <1>8, <2>1, <2>2, Zenon DEF BatchInv, Rounds
<1>14. SlotInv'
  <2>1. nextToFlush' - Len(batch') = nextToFlush - Len(batch)
    BY <1>4, <1>6, <1>8, <1>9
  <2> QED
    BY <1>1, <1>8, <2>1, Zenon DEF SlotInv, Slot
<1>15. OwnerInv'
  BY <1>1, <1>8, <1>12, Zenon DEF OwnerInv
<1>16. RotatorOK'
  <2>1. pc[Rotator] # "sweep"
    BY <1>2, <1>3, Zenon DEF LeaderInv, OneLeader
  <2> QED
    BY <1>1, <1>8, <2>1, Zenon DEF RotatorOK
<1>17. ASSUME NEW w \in Writers PROVE WriterOK(w)'
  <2>1. WriterOK(w) /\ nextLsn \in Int /\ nextLsn <= nextLsn /\ Done <= Done
    BY <1>1, <1>4, <1>12
  <2>2. CASE w # t
    <3>1. ASSUME pc[w] = "publish"
          PROVE  nextToFlush' <= lsn[w] /\ ring[Slot(lsn[w])] # lsn[w]
      <4>1. /\ nextToFlush <= lsn[w] /\ ring[Slot(lsn[w])] # lsn[w]
        BY <2>1, <3>1, Zenon DEF WriterOK
      <4>2. nextToFlush # lsn[w] /\ lsn[w] \in Nat
        BY <1>1, <1>2, <1>7, <4>1 DEF TypeInv
      <4> QED
        BY <1>4, <1>8, <4>1, <4>2
    <3> QED
      BY <1>1, <1>2, <1>8, <1>11, <1>12, <2>1, <2>2, <3>1, OtherWriter, Zenon
  <2>3. CASE w = t
    <3>1. nextToFlush' <= target[t]
      BY <1>4, <1>5, <1>8
    <3> QED
      BY <1>3, <1>5, <1>8, <2>1, <2>3, <3>1, Zenon DEF WriterOK
  <2> QED
    BY <2>2, <2>3, Zenon
<1> QED
  BY <1>10, <1>13, <1>14, <1>15, <1>16, <1>17, Zenon DEF RingInv

\* The round was written, or failed.
LEMMA TriedRing ==
  ASSUME LeaderInv, RingInv, NEW t \in Writers, pc[t] = "collect", batch # << >>,
         pc' = [pc EXCEPT ![t] = "settle"],
         UNCHANGED <<nextLsn, ring, nextToFlush, settled, batch, lsn, target>>
  PROVE  RingInv'
<1>1. /\ TypeInv /\ BatchInv /\ SlotInv /\ OwnerInv /\ RotatorOK
      /\ \A w \in Writers : WriterOK(w)
  BY Zenon DEF RingInv
<1>2. t \in Threads /\ t # Rotator /\ Rotator \in Threads /\ \A w \in Writers : w \in Threads
  BY ThreadsAssumption, Zenon DEF Threads
<1>3. pc'[t] = "settle" /\ \A u \in Threads : u # t => pc'[u] = pc[u]
  BY <1>2, Zenon DEF LeaderInv
<1>4. Done' = Done
  <2>1. \A w \in Writers : pc'[w] \in {"retire"} <=> pc[w] \in {"retire"}
    BY <1>2, <1>3, Zenon
  <2> QED
    BY <2>1, PastSame, Zenon DEF Done
<1>5. TypeInv' /\ SlotInv' /\ OwnerInv'
  BY <1>1, <1>4, Zenon DEF TypeInv, SlotInv, OwnerInv, Slot
<1>6. BatchInv'
  BY <1>1, <1>3, Zenon DEF BatchInv, Rounds
<1>7. RotatorOK'
  BY <1>1, <1>2, <1>3, Zenon DEF RotatorOK
<1>8. ASSUME NEW w \in Writers PROVE WriterOK(w)'
  <2>1. WriterOK(w) /\ nextLsn \in Int /\ Done \in Int /\ nextLsn <= nextLsn /\ Done <= Done
    BY <1>1, PastFacts DEF TypeInv
  <2>2. CASE w # t
    <3>1. pc[w] = "publish" => nextToFlush <= lsn[w] /\ ring[Slot(lsn[w])] # lsn[w]
      BY <2>1, Zenon DEF WriterOK
    <3> QED
      BY <1>1, <1>2, <1>3, <1>4, <2>1, <2>2, <3>1, OtherWriter, Zenon
  <2>3. CASE w = t
    BY <1>3, <2>1, <2>3, Zenon DEF WriterOK, Rounds, WriterSteps
  <2> QED
    BY <2>2, <2>3, Zenon
<1> QED
  BY <1>5, <1>6, <1>7, <1>8, Zenon DEF RingInv

LEMMA SettleRing ==
  ASSUME LeaderInv, RingInv, NEW t \in Writers, Settle(t) PROVE RingInv'
<1>1. /\ TypeInv /\ BatchInv /\ SlotInv /\ OwnerInv /\ RotatorOK
      /\ \A w \in Writers : WriterOK(w)
  BY Zenon DEF RingInv
<1>2. t \in Threads /\ t # Rotator /\ Rotator \in Threads /\ \A w \in Writers : w \in Threads
  BY ThreadsAssumption, Zenon DEF Threads
<1>3. /\ pc[t] = "settle" /\ pc' = [pc EXCEPT ![t] = "retire"]
      /\ settled' = batch[Len(batch)]
      /\ UNCHANGED <<nextLsn, ring, nextToFlush, batch, lsn, target>>
  BY Zenon DEF Settle, Goto
<1>4. pc'[t] = "retire" /\ \A u \in Threads : u # t => pc'[u] = pc[u]
  BY <1>2, <1>3, Zenon DEF LeaderInv
<1>5. batch # << >>
  BY <1>1, <1>3, Zenon DEF WriterOK
<1>6. settled' = nextToFlush - 1
  <2>1. batch \in Seq(Lsns) /\ nextToFlush \in Nat
    BY <1>1 DEF TypeInv
  <2>2. Len(batch) \in 1 .. Len(batch)
    BY <1>5, <2>1
  <2>3. batch[Len(batch)] = nextToFlush - Len(batch) + Len(batch) - 1
    BY <1>1, <2>2, Zenon DEF BatchInv
  <2> QED
    BY <1>3, <2>1, <2>2, <2>3
<1>7. Done' = nextToFlush
  BY <1>3, <1>4, Zenon DEF Done, Past
<1>8. /\ nextToFlush \in Nat \ {0} /\ Done \in Int /\ Done <= nextToFlush
      /\ nextLsn \in Int /\ nextLsn <= nextLsn
  BY <1>1, PastFacts DEF TypeInv
<1>9. TypeInv'
  <2>1. settled' \in Nat
    BY <1>6, <1>8
  <2> QED
    BY <1>1, <1>3, <2>1, Zenon DEF TypeInv
<1>10. SlotInv' /\ BatchInv'
  BY <1>1, <1>3, <1>4, Zenon DEF SlotInv, BatchInv, Slot, Rounds
<1>11. OwnerInv'
  <2>1. settled' < nextToFlush
    BY <1>6, <1>8
  <2>2. \A l \in nextToFlush .. nextLsn - 1 : l \in Done .. nextLsn - 1
    BY <1>8
  <2> QED
    BY <1>1, <1>3, <1>7, <2>1, <2>2, Zenon DEF OwnerInv
<1>12. RotatorOK'
  BY <1>1, <1>2, <1>3, <1>4, Zenon DEF RotatorOK
<1>13. ASSUME NEW w \in Writers PROVE WriterOK(w)'
  <2>1. WriterOK(w)
    BY <1>1, Zenon
  <2>2. CASE w # t
    <3>1. pc[w] = "publish" => nextToFlush <= lsn[w] /\ ring[Slot(lsn[w])] # lsn[w]
      BY <2>1, Zenon DEF WriterOK
    <3>2. nextToFlush \in Int
      BY <1>8
    <3> QED
      BY <1>1, <1>2, <1>3, <1>4, <1>7, <1>8, <2>1, <2>2, <3>1, <3>2, OtherWriter, Zenon
  <2>3. CASE w = t
    BY <1>3, <1>4, <1>5, <2>1, <2>3, Zenon DEF WriterOK, Rounds, WriterSteps
  <2> QED
    BY <2>2, <2>3, Zenon
<1> QED
  BY <1>9, <1>10, <1>11, <1>12, <1>13, Zenon DEF RingInv

LEMMA RetireRing ==
  ASSUME LeaderInv, RingInv, NEW t \in Writers, Retire(t) PROVE RingInv'
<1>1. /\ TypeInv /\ BatchInv /\ SlotInv /\ OwnerInv /\ RotatorOK
      /\ \A w \in Writers : WriterOK(w)
  BY Zenon DEF RingInv
<1>2. t \in Threads /\ t # Rotator /\ Rotator \in Threads /\ \A w \in Writers : w \in Threads
  BY ThreadsAssumption, Zenon DEF Threads
<1>3. /\ pc[t] = "retire" /\ pc' = [pc EXCEPT ![t] = "collect"]
      /\ ring' = [s \in DOMAIN ring |->
                    IF \E l \in Range(batch) : Slot(l) = s THEN 0 ELSE ring[s]]
      /\ batch' = << >>
      /\ UNCHANGED <<nextLsn, nextToFlush, settled, lsn, target>>
  BY Zenon DEF Retire, Goto
<1>4. pc'[t] = "collect" /\ \A u \in Threads : u # t => pc'[u] = pc[u]
  BY <1>2, <1>3, Zenon DEF LeaderInv
<1>5. /\ ring \in [0 .. RingCap - 1 -> 0 .. MaxLsn] /\ batch \in Seq(Lsns)
      /\ nextToFlush \in Nat \ {0} /\ nextLsn \in Nat /\ MaxLsn \in Nat
  BY <1>1, BoundsAssumption DEF TypeInv
<1>6. \A w \in Writers : w # t => pc[w] \notin Rounds
  BY <1>2, <1>3, LeaderAlone, Zenon DEF Leading
<1>7. Done = nextToFlush /\ Done' = nextToFlush
  <2>1. nextToFlush - Len(<< >>) = nextToFlush
    BY <1>5
  <2> QED
    BY <1>2, <1>3, <1>4, <2>1, Zenon DEF Done, Past
<1>8. \A s \in 0 .. RingCap - 1 :
        ring'[s] = IF \E l \in Range(batch) : Slot(l) = s THEN 0 ELSE ring[s]
  BY <1>3, <1>5, Zenon
<1>9. TypeInv'
  <2>1. ring' \in [0 .. RingCap - 1 -> 0 .. MaxLsn]
    <3>1. 0 \in 0 .. MaxLsn
      BY <1>5
    <3> QED
      BY <1>3, <1>5, <3>1, Zenon
  <2>2. batch' \in Seq(Lsns)
    BY <1>3
  <2> QED
    BY <1>1, <1>3, <2>1, <2>2, Zenon DEF TypeInv
<1>10. BatchInv'
  <2>1. Len(batch') = 0 /\ batch' = << >>
    BY <1>3, Zenon
  <2>2. 0 < nextToFlush /\ 0 <= RingCap /\ 1 .. 0 = {}
    BY <1>5, BoundsAssumption
  <2> QED
    BY <1>3, <2>1, <2>2, Zenon DEF BatchInv
<1>11. SlotInv'
  <2> SUFFICES ASSUME NEW s \in 0 .. RingCap - 1, ring'[s] # 0
               PROVE  Slot(ring'[s]) = s /\ nextToFlush <= ring'[s] /\ ring'[s] < nextLsn
    BY <1>3, <1>5 DEF SlotInv, Slot
  <2>1. ring'[s] = ring[s] /\ ~ \E l \in Range(batch) : Slot(l) = s
    BY <1>8, Zenon
  <2>2. /\ Slot(ring[s]) = s /\ nextToFlush - Len(batch) <= ring[s] /\ ring[s] < nextLsn
        /\ ring[s] \in 0 .. MaxLsn
    BY <1>1, <1>5, <2>1, Zenon DEF SlotInv
  <2>3. ring[s] < nextToFlush => ring[s] \in Range(batch)
    <3> DEFINE i == ring[s] - (nextToFlush - Len(batch)) + 1
    <3>1. ring[s] < nextToFlush => i \in 1 .. Len(batch)
      BY <1>5, <2>2
    <3>2. i \in 1 .. Len(batch) => batch[i] = nextToFlush - Len(batch) + i - 1
      BY <1>1, Zenon DEF BatchInv
    <3>3. nextToFlush - Len(batch) + i - 1 = ring[s]
      BY <1>5, <2>2
    <3>4. DOMAIN batch = 1 .. Len(batch)
      BY <1>5
    <3> HIDE DEF i
    <3> QED
      BY <3>1, <3>2, <3>3, <3>4, Zenon DEF Range
  <2>4. ~(ring[s] < nextToFlush)
    BY <2>1, <2>2, <2>3, Zenon
  <2> QED
    BY <1>5, <2>1, <2>2, <2>4
<1>12. OwnerInv'
  BY <1>1, <1>3, <1>7, Zenon DEF OwnerInv
<1>13. RotatorOK'
  BY <1>1, <1>2, <1>3, <1>4, Zenon DEF RotatorOK
<1>14. ASSUME NEW w \in Writers PROVE WriterOK(w)'
  <2>1. WriterOK(w) /\ nextLsn \in Int /\ nextToFlush \in Int
        /\ nextLsn <= nextLsn /\ nextToFlush <= nextToFlush
    BY <1>1, <1>5
  <2>2. CASE w # t
    <3>1. ASSUME pc[w] = "publish"
          PROVE  nextToFlush <= lsn[w] /\ ring'[Slot(lsn[w])] # lsn[w]
      <4>1. nextToFlush <= lsn[w] /\ ring[Slot(lsn[w])] # lsn[w] /\ lsn[w] # 0
        BY <2>1, <3>1, Zenon DEF WriterOK
      <4>2. Slot(lsn[w]) \in 0 .. RingCap - 1
        <5>1. lsn[w] \in Nat
          BY <1>1, <1>2 DEF TypeInv
        <5> QED
          BY <5>1, SlotRange, Zenon
      <4> QED
        BY <1>8, <4>1, <4>2, Zenon
    <3> QED
      BY <1>1, <1>2, <1>3, <1>4, <1>6, <1>7, <2>1, <2>2, <3>1, OtherWriter, Zenon
  <2>3. CASE w = t
    BY <1>3, <1>4, <2>1, <2>3, Zenon DEF WriterOK, Rounds, WriterSteps
  <2> QED
    BY <2>2, <2>3, Zenon
<1> QED
  BY <1>9, <1>10, <1>11, <1>12, <1>13, <1>14, Zenon DEF RingInv

\* await_durable() returns: its record is settled.
LEMMA ResultRing ==
  ASSUME LeaderInv, RingInv, NEW t \in Writers, Result(t) PROVE RingInv'
<1>1. /\ TypeInv /\ BatchInv /\ SlotInv /\ OwnerInv /\ RotatorOK
      /\ \A w \in Writers : WriterOK(w)
  BY Zenon DEF RingInv
<1>2. t \in Threads /\ t # Rotator /\ Rotator \in Threads /\ \A w \in Writers : w \in Threads
  BY ThreadsAssumption, Zenon DEF Threads
<1>3. /\ pc[t] = "result" /\ pc' = [pc EXCEPT ![t] = "idle"]
      /\ lsn' = [lsn EXCEPT ![t] = 0] /\ target' = [target EXCEPT ![t] = 0]
      /\ UNCHANGED <<nextLsn, ring, nextToFlush, settled, batch>>
  BY Zenon DEF Result, Answer, Goto, ringVars
<1>4. pc'[t] = "idle" /\ \A u \in Threads : u # t => pc'[u] = pc[u]
  BY <1>2, <1>3, Zenon DEF LeaderInv
<1>5. lsn \in [Threads -> 0 .. MaxLsn] /\ target \in [Threads -> 0 .. MaxLsn + 1]
  BY <1>1, Zenon DEF TypeInv
<1>6. lsn'[t] = 0 /\ \A u \in Threads : u # t => lsn'[u] = lsn[u] /\ target'[u] = target[u]
  BY <1>2, <1>3, <1>5, Zenon
<1>7. Done' = Done /\ Done \in Int
  <2>1. \A w \in Writers : pc'[w] \in {"retire"} <=> pc[w] \in {"retire"}
    BY <1>2, <1>3, <1>4, Zenon
  <2> QED
    BY <1>1, <1>3, <2>1, PastSame, PastFacts, Zenon DEF Done
<1>8. lsn[t] < Done
  BY <1>1, <1>3, Zenon DEF WriterOK
<1>9. nextLsn \in Nat \ {0} /\ MaxLsn \in Nat /\ lsn[t] \in Nat
  BY <1>1, <1>2, BoundsAssumption DEF TypeInv
<1>10. TypeInv'
  <2>1. 0 \in 0 .. MaxLsn /\ 0 \in 0 .. MaxLsn + 1
    BY <1>9
  <2> QED
    BY <1>1, <1>3, <1>5, <2>1, Zenon DEF TypeInv
<1>11. BatchInv'
  <2>1. batch # << >> => \E w \in Writers : pc'[w] \in Rounds
    BY <1>1, <1>2, <1>3, <1>4, Zenon DEF BatchInv, Rounds
  <2> QED
    BY <1>1, <1>3, <2>1, Zenon DEF BatchInv
<1>12. SlotInv'
  BY <1>1, <1>3, Zenon DEF SlotInv, Slot
<1>13. OwnerInv'
  <2>1. \A l \in Done .. nextLsn - 1 : l # lsn[t]
    BY <1>7, <1>8, <1>9
  <2>2. \A l \in Done .. nextLsn - 1 : \E w \in Writers : w # t /\ lsn[w] = l
    BY <1>1, <2>1, Zenon DEF OwnerInv
  <2>3. ASSUME NEW w \in Writers, NEW u \in Writers, lsn'[w] = lsn'[u], lsn'[w] # 0
        PROVE  w = u
    <3>1. w # t /\ u # t
      BY <1>6, <2>3, Zenon
    <3>2. lsn[w] = lsn[u] /\ lsn[w] # 0
      BY <1>2, <1>6, <2>3, <3>1, Zenon
    <3> QED
      BY <1>1, <3>2, Zenon DEF OwnerInv
  <2> QED
    BY <1>1, <1>2, <1>3, <1>6, <1>7, <2>2, <2>3, Zenon DEF OwnerInv
<1>14. RotatorOK'
  BY <1>1, <1>2, <1>3, <1>4, <1>6, Zenon DEF RotatorOK
<1>15. ASSUME NEW w \in Writers PROVE WriterOK(w)'
  <2>1. WriterOK(w) /\ nextLsn \in Int /\ nextLsn <= nextLsn /\ Done <= Done /\ 0 < nextLsn
    BY <1>1, <1>7, <1>9
  <2>2. CASE w # t
    <3>1. pc[w] = "publish" => nextToFlush <= lsn[w] /\ ring[Slot(lsn[w])] # lsn[w]
      BY <2>1, Zenon DEF WriterOK
    <3> QED
      BY <1>1, <1>2, <1>3, <1>4, <1>6, <1>7, <2>1, <2>2, <3>1, OtherWriter, Zenon
  <2>3. CASE w = t
    BY <1>3, <1>4, <1>6, <2>1, <2>3, Zenon DEF WriterOK, Rounds, WriterSteps
  <2> QED
    BY <2>2, <2>3, Zenon
<1> QED
  BY <1>10, <1>11, <1>12, <1>13, <1>14, <1>15, Zenon DEF RingInv

\* fail_all_pending_and_release_leadership() takes a record out of the ring.
LEMMA SweepRing ==
  ASSUME LeaderInv, RingInv, Fits, SweepRecord(Rotator) PROVE RingInv'
<1>1. /\ TypeInv /\ BatchInv /\ SlotInv /\ OwnerInv /\ RotatorOK
      /\ \A w \in Writers : WriterOK(w)
  BY Zenon DEF RingInv
<1>2. /\ pc[Rotator] = "sweep" /\ nextToFlush # target[Rotator]
      /\ ring[Slot(nextToFlush)] # 0
      /\ ring' = [ring EXCEPT ![Slot(nextToFlush)] = 0] /\ nextToFlush' = nextToFlush + 1
      /\ UNCHANGED <<nextLsn, settled, batch, pc, lsn, target>>
  BY Zenon DEF SweepRecord
<1>3. Rotator \in Threads /\ \A w \in Writers : w # Rotator /\ w \in Threads
  BY ThreadsAssumption, Zenon DEF Threads
<1>4. batch = << >> /\ \A w \in Writers : pc[w] \notin Rounds
  BY <1>2, <1>3, LeaderAlone, Zenon DEF Leading
<1>5. /\ nextToFlush \in Nat \ {0} /\ nextLsn \in Nat /\ target[Rotator] \in Nat
      /\ Len(batch) = 0 /\ RingCap \in Nat \ {0} /\ MaxLsn \in Nat
  BY <1>1, <1>3, <1>4, BoundsAssumption DEF TypeInv
<1>6. nextToFlush < target[Rotator] /\ target[Rotator] <= nextLsn
  BY <1>1, <1>2, <1>5 DEF RotatorOK
<1>7. ring[Slot(nextToFlush)] = nextToFlush /\ Slot(nextToFlush) \in 0 .. RingCap - 1
  <2>1. Len(batch) < RingCap
    BY <1>5
  <2> QED
    BY <1>1, <1>2, <1>5, <2>1, NextSlot, SlotRange, Zenon
<1>8. ring \in [0 .. RingCap - 1 -> 0 .. MaxLsn]
  BY <1>1, Zenon DEF TypeInv
<1>9. /\ ring'[Slot(nextToFlush)] = 0
      /\ \A s \in 0 .. RingCap - 1 : s # Slot(nextToFlush) => ring'[s] = ring[s]
  BY <1>2, <1>7, <1>8, Zenon
<1>10. Done = nextToFlush /\ Done' = nextToFlush + 1
  <2>1. nextToFlush - Len(batch) = nextToFlush /\ (nextToFlush + 1) - Len(batch) = nextToFlush + 1
    BY <1>5
  <2> QED
    BY <1>2, <1>4, <2>1, Zenon DEF Done, Past, Rounds
<1>11. TypeInv'
  <2>1. 0 \in 0 .. MaxLsn /\ nextToFlush' \in 1 .. nextLsn
    BY <1>2, <1>5, <1>6
  <2> QED
    BY <1>1, <1>2, <1>8, <2>1, Zenon DEF TypeInv
<1>12. BatchInv'
  <2>1. Len(batch) < nextToFlush' /\ 1 .. Len(batch) = {}
    BY <1>2, <1>5
  <2> QED
    BY <1>1, <1>2, <1>4, <2>1, Zenon DEF BatchInv
<1>13. SlotInv'
  <2> SUFFICES ASSUME NEW s \in 0 .. RingCap - 1, ring'[s] # 0
               PROVE  Slot(ring'[s]) = s /\ nextToFlush + 1 <= ring'[s] /\ ring'[s] < nextLsn
    BY <1>2, <1>5 DEF SlotInv, Slot
  <2>1. ring'[s] = ring[s] /\ s # Slot(nextToFlush)
    BY <1>9, Zenon
  <2>2. /\ Slot(ring[s]) = s /\ nextToFlush - Len(batch) <= ring[s] /\ ring[s] < nextLsn
        /\ ring[s] \in 0 .. MaxLsn /\ ring[s] # nextToFlush
    BY <1>1, <1>8, <2>1, Zenon DEF SlotInv
  <2> QED
    BY <1>5, <2>1, <2>2
<1>14. OwnerInv'
  <2>1. \A l \in nextToFlush + 1 .. nextLsn - 1 : l \in nextToFlush .. nextLsn - 1
    BY <1>5
  <2>2. settled < nextToFlush + 1
    BY <1>1, <1>5, <1>10 DEF OwnerInv, TypeInv
  <2> QED
    BY <1>1, <1>2, <1>10, <2>1, <2>2, Zenon DEF OwnerInv
<1>15. RotatorOK'
  <2>1. nextToFlush' <= target[Rotator]
    BY <1>2, <1>5, <1>6
  <2> QED
    BY <1>1, <1>2, <1>6, <2>1, Zenon DEF RotatorOK
<1>16. ASSUME NEW w \in Writers PROVE WriterOK(w)'
  <2>1. WriterOK(w) /\ nextLsn \in Int /\ nextLsn <= nextLsn
        /\ nextToFlush + 1 \in Int /\ nextToFlush <= nextToFlush + 1
    BY <1>1, <1>5
  <2>2. ASSUME pc[w] = "publish"
        PROVE  nextToFlush' <= lsn[w] /\ ring'[Slot(lsn[w])] # lsn[w]
    <3>1. nextToFlush <= lsn[w] /\ ring[Slot(lsn[w])] # lsn[w] /\ lsn[w] # 0
      BY <2>1, <2>2, Zenon DEF WriterOK
    <3>2. lsn[w] \in Nat
      BY <1>1, <1>3 DEF TypeInv
    <3>3. nextToFlush # lsn[w]
      BY <1>7, <3>1, Zenon
    <3>4. Slot(lsn[w]) \in 0 .. RingCap - 1
      BY <3>2, SlotRange, Zenon
    <3>5. nextToFlush + 1 <= lsn[w]
      BY <1>5, <3>1, <3>2, <3>3
    <3> QED
      BY <1>2, <1>9, <3>1, <3>4, <3>5, Zenon
  <2> QED
    BY <1>1, <1>2, <1>4, <1>10, <2>1, <2>2, OtherWriter, Zenon
<1> QED
  BY <1>11, <1>12, <1>13, <1>14, <1>15, <1>16, Zenon DEF RingInv

-----------------------------------------------------------------------------
(* Every step but a crash.                                                 *)

LEMMA RingInit == Init => RingInv
<1> SUFFICES ASSUME Init PROVE RingInv
  OBVIOUS
<1>1. /\ nextLsn = 1 /\ nextToFlush = 1 /\ ring = [s \in 0 .. RingCap - 1 |-> 0]
      /\ batch = << >> /\ settled = 0
      /\ lsn = [t \in Threads |-> 0] /\ target = [t \in Threads |-> 0]
  BY Zenon DEF Init
<1>2. \A t \in Threads : pc[t] = "idle" /\ lsn[t] = 0
  BY Zenon DEF Init
<1>3. MaxLsn \in Nat /\ RingCap \in Nat \ {0}
  BY BoundsAssumption, Zenon
<1>4. Len(batch) = 0 /\ batch \in Seq(Lsns)
  BY <1>1
<1>5. Done = 1
  <2>1. 1 - 0 = 1
    OBVIOUS
  <2> QED
    BY <1>1, <1>4, <2>1, Zenon DEF Done, Past
<1>6. TypeInv
  <2>1. /\ 1 \in 1 .. MaxLsn + 1 /\ 1 \in 1 .. 1 /\ 0 \in 0 .. MaxLsn
        /\ 0 \in 0 .. MaxLsn + 1 /\ 0 \in Nat
    BY <1>3
  <2> QED
    BY <1>1, <1>4, <2>1, Zenon DEF TypeInv
<1>7. BatchInv
  BY <1>1, <1>3, <1>4 DEF BatchInv
<1>8. SlotInv
  BY <1>1, Zenon DEF SlotInv
<1>9. \A w \in Writers : w \in Threads
  BY Zenon DEF Threads
<1>10. OwnerInv
  BY <1>1, <1>2, <1>5, <1>9 DEF OwnerInv
<1>11. RotatorOK
  BY <1>2, Zenon DEF RotatorOK, RotatorSteps, Threads
<1>12. ASSUME NEW w \in Writers PROVE WriterOK(w)
  <2>1. lsn[w] < nextLsn
    BY <1>1, <1>2, <1>9
  <2> QED
    BY <1>2, <1>9, <2>1, Zenon DEF WriterOK, WriterSteps, Rounds
<1> QED
  BY <1>6, <1>7, <1>8, <1>10, <1>11, <1>12, Zenon DEF RingInv

\* The calls between their reservation and their answer: a follower leaves when
\* its record is settled, a leader when it has flushed up to its target.
LEMMA CallRing ==
  ASSUME LeaderInv, RingInv, NEW t \in Writers,
         \/ CheckPoisoned(t) \/ Elect(t) \/ Wake(t) \/ TimeOut(t) \/ StartDrain(t)
         \/ Release(t) \/ Recheck(t) \/ Reclaim(t)
  PROVE  RingInv'
<1>1. /\ WriterOK(t) /\ TypeInv /\ OwnerInv
  BY Zenon DEF RingInv
<1>2. /\ Done \in Int /\ settled \in Nat /\ settled < Done
      /\ lsn[t] \in 0 .. MaxLsn
  BY <1>1, PastFacts, Zenon DEF TypeInv, OwnerInv, Threads
<1>3. CASE CheckPoisoned(t)
  BY <1>3, MoveRing, Zenon DEF CheckPoisoned, Goto, ringVars, WriterSteps, Rounds
<1>4. CASE Elect(t)
  BY <1>4, MoveRing, Zenon DEF Elect, Goto, ringVars, WriterSteps, Rounds
<1>5. CASE Wake(t)
  <2>1. settled >= lsn[t]
    BY <1>5, Zenon DEF Wake
  <2>2. lsn[t] < Done
    BY <1>2, <2>1
  <2> QED
    BY <1>5, <2>2, MoveRing, Zenon DEF Wake, Goto, ringVars, WriterSteps, Rounds
<1>6. CASE TimeOut(t)
  BY <1>6, MoveRing, Zenon DEF TimeOut, Goto, ringVars, WriterSteps, Rounds
<1>7. CASE StartDrain(t)
  BY <1>7, MoveRing, Zenon DEF StartDrain, Goto, ringVars, WriterSteps, Rounds
<1>8. CASE Release(t)
  <2>1. pc[t] = "collect" /\ nextToFlush = target[t] /\ batch = << >>
    BY <1>8, Zenon DEF Release
  <2>2. nextToFlush - Len(batch) <= Done /\ lsn[t] < target[t] /\ nextToFlush \in Nat
        /\ Len(batch) = 0
    BY <1>1, <2>1, PastFacts DEF WriterOK, Rounds, TypeInv
  <2>3. lsn[t] < Done
    BY <1>2, <2>1, <2>2
  <2> QED
    BY <1>8, <2>3, MoveRing, Zenon DEF Release, Goto, ringVars, WriterSteps, Rounds
<1>9. CASE Recheck(t)
  <2>1. lsn[t] < Done
    BY <1>1, <1>9, Zenon DEF WriterOK, Recheck
  <2> QED
    BY <1>9, <2>1, MoveRing, Zenon DEF Recheck, Goto, ringVars, WriterSteps, Rounds
<1>10. CASE Reclaim(t)
  <2>1. lsn[t] < Done
    BY <1>1, <1>10, Zenon DEF WriterOK, Reclaim
  <2> QED
    BY <1>10, <2>1, MoveRing, Zenon DEF Reclaim, Goto, ringVars, WriterSteps, Rounds
<1> QED
  BY <1>3, <1>4, <1>5, <1>6, <1>7, <1>8, <1>9, <1>10, Zenon

\* rotate_segment(), and the sweep after its open() failed.
LEMMA RotateRing ==
  ASSUME LeaderInv, RingInv, Fits, RotateCheck \/ RotateStep PROVE RingInv'
<1>1. /\ TypeInv /\ RotatorOK /\ Rotator \in Threads
      /\ target \in [Threads -> 0 .. MaxLsn + 1]
  BY Zenon DEF RingInv, TypeInv, Threads
<1>2. nextLsn \in 0 .. MaxLsn + 1 /\ nextToFlush <= nextLsn /\ nextLsn <= nextLsn
      /\ 0 \in 0 .. MaxLsn + 1
  BY <1>1, BoundsAssumption DEF TypeInv
<1>3. target[Rotator] \in 0 .. MaxLsn + 1
      /\ target = [target EXCEPT ![Rotator] = target[Rotator]]
  BY <1>1, Zenon
<1>4. ASSUME NEW step \in RotatorSteps \ {"sweep"}, pc' = [pc EXCEPT ![Rotator] = step],
             UNCHANGED <<nextLsn, ring, nextToFlush, batch, lsn, target>>,
             settled' = settled \/ (settled' = nextToFlush - 1 /\ pc[Rotator] \in Leading)
      PROVE  RingInv'
  <2>1. target' = [target EXCEPT ![Rotator] = target[Rotator]]
    BY <1>3, <1>4, Zenon
  <2>2. step \in RotatorSteps /\ step # "sweep"
    BY <1>4, Zenon
  <2>3. UNCHANGED <<nextLsn, ring, nextToFlush, batch, lsn>>
    BY <1>4, Zenon
  <2> QED
    BY <1>3, <1>4, <2>1, <2>2, <2>3, MoveRotator, Zenon
<1>5. ASSUME NEW x \in {0, nextLsn}, NEW step \in {"idle", "sweep"},
             step = "sweep" => x = nextLsn,
             pc' = [pc EXCEPT ![Rotator] = step], target' = [target EXCEPT ![Rotator] = x],
             UNCHANGED <<nextLsn, ring, nextToFlush, batch, lsn, settled>>
      PROVE  RingInv'
  <2>1. step \in RotatorSteps /\ x \in 0 .. MaxLsn + 1
        /\ (step = "sweep" => nextToFlush <= x /\ x <= nextLsn)
    BY <1>2, <1>5, Zenon DEF RotatorSteps, Failing
  <2>2. /\ pc' = [pc EXCEPT ![Rotator] = step] /\ target' = [target EXCEPT ![Rotator] = x]
        /\ UNCHANGED <<nextLsn, ring, nextToFlush, batch, lsn>> /\ settled' = settled
    BY <1>5, Zenon
  <2> QED
    BY <2>1, <2>2, MoveRotator, Zenon
<1>6. /\ {"idle", "rotate", "open", "unlink", "failAll", "settleAll", "unflush"}
           \subseteq RotatorSteps \ {"sweep"}
      /\ "settleAll" \in Leading
  BY Zenon DEF RotatorSteps, Failing, Leading
<1>7. CASE RotateCheck \/ RotateElect \/ OpenSegment \/ OpenFails \/ Unlink
  <2>1. UNCHANGED <<nextLsn, ring, nextToFlush, batch, lsn, target>> /\ settled' = settled
    BY <1>7, Zenon DEF RotateCheck, RotateElect, OpenSegment, OpenFails, Unlink, ringVars
  <2>2. \E step \in RotatorSteps \ {"sweep"} : pc' = [pc EXCEPT ![Rotator] = step]
    BY <1>6, <1>7, Zenon DEF RotateCheck, RotateElect, OpenSegment, OpenFails, Unlink, Goto
  <2> QED
    BY <1>4, <2>1, <2>2, Zenon
<1>9. CASE FailAll(Rotator)
  BY <1>5, <1>9, Zenon DEF FailAll, Goto, ringVars
<1>10. CASE SweepAgain(Rotator)
  <2>1. pc[Rotator] = "sweep" /\ pc = [pc EXCEPT ![Rotator] = "sweep"]
    BY <1>1, <1>10, Zenon DEF SweepAgain, LeaderInv
  <2>2. CASE nextLsn = target[Rotator]
    <3>1. /\ pc' = [pc EXCEPT ![Rotator] = "settleAll"] /\ settled' = settled
          /\ UNCHANGED <<nextLsn, ring, nextToFlush, batch, lsn, target>>
      BY <1>10, <2>2, Zenon DEF SweepAgain, Goto, ringVars
    <3>2. "settleAll" \in RotatorSteps \ {"sweep"}
      BY <1>6, Zenon
    <3> QED
      BY <1>4, <3>1, <3>2, Zenon
  <2>3. CASE nextLsn # target[Rotator]
    <3>1. /\ pc' = pc /\ target' = [target EXCEPT ![Rotator] = nextLsn]
          /\ UNCHANGED <<nextLsn, ring, nextToFlush, batch, lsn, settled>>
      BY <1>10, <2>3, Zenon DEF SweepAgain, ringVars
    <3>2. pc' = [pc EXCEPT ![Rotator] = "sweep"]
      BY <2>1, <3>1, Zenon
    <3> QED
      BY <1>5, <3>1, <3>2, Zenon
  <2> QED
    BY <2>2, <2>3, Zenon
<1>11. CASE SettleAll(Rotator)
  BY <1>4, <1>6, <1>11, Zenon DEF SettleAll, Goto, ringVars
<1>12. CASE Throw(Rotator)
  BY <1>5, <1>12, ThreadsAssumption, Zenon DEF Throw, Goto, ringVars
<1>13. CASE SweepRecord(Rotator)
  BY <1>13, SweepRing, Zenon
<1> QED
  BY <1>7, <1>9, <1>10, <1>11, <1>12, <1>13, Zenon DEF RotateStep, FailAllStep

\* A writer never sweeps: "slot lsn mismatch" is its only way there.
LEMMA NoWriterSweeps ==
  ASSUME RingInv, NEW w \in Writers PROVE ~FailAllStep(w)
<1>1. pc[w] \in WriterSteps
  BY Zenon DEF RingInv, WriterOK
<1>2. pc[w] \notin {"failAll", "sweep", "settleAll", "unflush"}
  BY <1>1, Zenon DEF WriterSteps, Rounds
<1> QED
  BY <1>2, Zenon DEF FailAllStep, FailAll, SweepRecord, SweepAgain, SettleAll, Throw

LEMMA RingStep ==
  ASSUME LeaderInv, RingInv, Fits, [Next]_vars, \A n \in 0 .. RingCap : ~Crash(n)
  PROVE  RingInv'
<1>1. ASSUME NEW w \in Writers, CheckPoisoned(w) \/ AppendStep(w) PROVE RingInv'
  <2>1. CASE WriteBatch(w) \/ WriteFails(w)
    BY <2>1, TriedRing, Zenon DEF WriteBatch, WriteFails, Goto, ringVars
  <2> QED
    BY <1>1, <2>1, CallRing, FetchRing, PublishRing, CollectRing, SettleRing, RetireRing,
       ResultRing, NoWriterSweeps, Zenon DEF AppendStep
<1>2. CASE UNCHANGED vars
  <2>1. UNCHANGED <<nextLsn, ring, nextToFlush, settled, batch, pc, lsn, target>>
    BY <1>2, Zenon DEF vars, ringVars
  <2>2. Done' = Done
    BY <2>1, Zenon DEF Done, Past
  <2> QED
    BY <2>1, <2>2, Zenon DEF RingInv, TypeInv, BatchInv, SlotInv, OwnerInv, WriterOK,
       RotatorOK
<1> QED
  BY <1>1, <1>2, RotateRing, Zenon DEF Next

\* A log that was opened again has an empty ring, whatever LSN it resumes at.
LEMMA CrashRing ==
  ASSUME RingInv, NEW n \in 0 .. RingCap, Crash(n), nextLsn' \in 1 .. MaxLsn + 1
  PROVE  RingInv'
<1>1. TypeInv
  BY Zenon DEF RingInv
<1>2. /\ nextToFlush' = nextLsn'
      /\ ring' = [s \in DOMAIN ring |-> 0] /\ batch' = << >> /\ settled' = 0
      /\ lsn' = [t \in Threads |-> 0] /\ target' = [t \in Threads |-> 0]
  BY Zenon DEF Crash, Resume
<1>3. \A t \in Threads : pc'[t] \in {"idle", "down"}
  BY Zenon DEF Crash
<1>4. nextLsn' \in 1 .. MaxLsn + 1
  OBVIOUS
<1>5. MaxLsn \in Nat /\ RingCap \in Nat \ {0} /\ nextLsn' \in Nat \ {0}
  BY <1>4, BoundsAssumption
<1>6. ring' = [s \in 0 .. RingCap - 1 |-> 0]
  BY <1>1, <1>2, Zenon DEF TypeInv
<1>7. 0 \in 0 .. MaxLsn /\ 0 \in 0 .. MaxLsn + 1 /\ 0 \in Nat
  BY <1>5
<1>8. Len(batch') = 0 /\ batch' \in Seq(Lsns)
  <2>1. Len(<< >>) = 0 /\ \A S : << >> \in Seq(S)
    OBVIOUS
  <2> QED
    BY <1>2, <2>1, Zenon
<1>9. TypeInv'
  <2>1. nextToFlush' \in 1 .. nextLsn'
    BY <1>2, <1>5
  <2> QED
    BY <1>2, <1>4, <1>6, <1>7, <1>8, <2>1, Zenon DEF TypeInv
<1>10. \A w \in Writers : w \in Threads
  BY Zenon DEF Threads
<1>11. Done' = nextLsn'
  <2>1. \A x \in Nat : x - 0 = x
    OBVIOUS
  <2>2. nextToFlush' - 0 = nextLsn'
    BY <1>2, <1>5, <2>1, Zenon
  <2> QED
    BY <1>2, <1>8, <2>2, Zenon DEF Done, Past
<1>12. BatchInv'
  <2>1. Len(batch') < nextToFlush' /\ Len(batch') <= RingCap /\ 1 .. Len(batch') = {}
    BY <1>2, <1>5, <1>8
  <2> QED
    BY <1>2, <2>1, Zenon DEF BatchInv
<1>13. SlotInv'
  BY <1>6, Zenon DEF SlotInv
<1>14. \A w \in Writers : lsn'[w] = 0
  BY <1>2, <1>10, Zenon
<1>15. OwnerInv'
  <2>1. 0 < nextLsn' /\ \A l \in nextLsn' .. nextLsn' - 1 : l # l
    <3> DEFINE n1 == nextLsn'
    <3>1. n1 \in Nat \ {0}
      BY <1>5, Zenon
    <3> HIDE DEF n1
    <3>2. 0 < n1 /\ \A l \in n1 .. n1 - 1 : l # l
      BY <3>1
    <3> QED
      BY <3>2, Zenon DEF n1
  <2> QED
    BY <1>2, <1>11, <1>14, <2>1, Zenon DEF OwnerInv
<1>16. RotatorOK'
  BY <1>3, Zenon DEF RotatorOK, RotatorSteps, Threads
<1>17. ASSUME NEW w \in Writers PROVE WriterOK(w)'
  <2>1. 0 < nextLsn'
    BY <1>5
  <2> QED
    BY <1>3, <1>10, <1>14, <2>1, Zenon DEF WriterOK, WriterSteps, Rounds
<1> QED
  BY <1>9, <1>12, <1>13, <1>15, <1>16, <1>17, Zenon DEF RingInv

-----------------------------------------------------------------------------
(* scan_and_validate() and the LSN a constructor resumes at.               *)

LEMMA Prefix ==
  ASSUME NEW S, NEW s \in Seq(S), NEW n \in 0 .. Len(s)
  PROVE  /\ SubSeq(s, 1, n) \in Seq(S) /\ Len(SubSeq(s, 1, n)) = n
         /\ \A i \in 1 .. n : SubSeq(s, 1, n)[i] = s[i]
OBVIOUS

LEMMA Elements ==
  ASSUME NEW S, NEW s \in Seq(S)
  PROVE  Len(s) \in Nat /\ DOMAIN s = 1 .. Len(s) /\ \A i \in DOMAIN s : s[i] \in S
OBVIOUS

Ordered(d) ==
  \A g, h \in DOMAIN d : \A i \in DOMAIN d[g], j \in DOMAIN d[h] :
    (g < h \/ (g = h /\ i < j)) /\ d[h][j] # 0 => d[g][i] < d[h][j]

\* The natural numbers are well ordered: what CHOOSE rests on in ValidPrefix and
\* NextLsn.  WalTheorems has the proof, from the library.
WellOrdered == \A S \in SUBSET Nat : S # {} => \E m \in S : \A k \in S : m <= k

LEMMA Greatest ==
  ASSUME WellOrdered, NEW n \in Nat, NEW S \in SUBSET (0 .. n), S # {}
  PROVE  \E m \in S : \A k \in S : k <= m
<1> DEFINE T == {n - k : k \in S}
<1>1. T \in SUBSET Nat /\ T # {}
  <2>1. ASSUME NEW k \in S PROVE n - k \in Nat
    <3>1. k \in 0 .. n
      BY Zenon
    <3> QED
      BY <3>1
  <2> QED
    BY <2>1, Zenon
<1>2. PICK d \in T : \A e \in T : d <= e
  BY <1>1, Zenon DEF WellOrdered
<1>3. PICK m \in S : d = n - m
  BY <1>2, Zenon
<1>4. ASSUME NEW k \in S PROVE k <= m
  <2>1. n - m <= n - k
    BY <1>2, <1>3, Zenon
  <2>2. m \in 0 .. n /\ k \in 0 .. n
    BY Zenon
  <2> QED
    BY <2>1, <2>2
<1> QED
  BY <1>4, Zenon

\* The valid prefix ends at the end of the segment or before its first torn
\* bytes.
LEMMA ValidPrefixFacts ==
  ASSUME WellOrdered, NEW s \in Seq(0 .. MaxLsn)
  PROVE  \E n \in 0 .. Len(s) :
           /\ ValidPrefix(s) = SubSeq(s, 1, n)
           /\ \A i \in 1 .. n : s[i] # 0
           /\ n = Len(s) \/ s[n + 1] = 0
<1> DEFINE P(n) == 0 \notin Range(SubSeq(s, 1, n)) /\ (n = Len(s) \/ s[n + 1] = 0)
           Z == {i \in 1 .. Len(s) : s[i] = 0}
<1>1. ASSUME NEW n \in 0 .. Len(s)
      PROVE  0 \notin Range(SubSeq(s, 1, n)) <=> \A i \in 1 .. n : s[i] # 0
  <2>1. DOMAIN SubSeq(s, 1, n) = 1 .. n /\ \A i \in 1 .. n : SubSeq(s, 1, n)[i] = s[i]
    OBVIOUS
  <2> QED
    BY <2>1, Zenon DEF Range
<1>2. \E n \in 0 .. Len(s) : P(n)
  <2>1. CASE Z = {}
    <3>1. Len(s) \in 0 .. Len(s)
      OBVIOUS
    <3>2. \A i \in 1 .. Len(s) : s[i] # 0
      BY <2>1, Zenon
    <3> QED
      BY <1>1, <3>1, <3>2, Zenon
  <2>2. CASE Z # {}
    <3> Z \in SUBSET Nat
      OBVIOUS
    <3>1. PICK z \in Z : \A k \in Z : z <= k
      BY <2>2, Zenon DEF WellOrdered
    <3>2. z - 1 \in 0 .. Len(s) /\ s[z] = 0 /\ (z - 1) + 1 = z
      BY <3>1
    <3>3. \A i \in 1 .. z - 1 : s[i] # 0
      BY <3>1
    <3> QED
      BY <1>1, <3>2, <3>3, Zenon
  <2> QED
    BY <2>1, <2>2, Zenon
<1> DEFINE n == CHOOSE n \in 0 .. Len(s) : P(n)
<1>3. n \in 0 .. Len(s) /\ P(n)
  BY <1>2, Zenon
<1>4. ValidPrefix(s) = SubSeq(s, 1, n)
  BY Zenon DEF ValidPrefix
<1> HIDE DEF n
<1> QED
  BY <1>1, <1>3, <1>4, Zenon

\* Where the constructor finds the last LSN.
LEMMA NextLsnFacts ==
  ASSUME WellOrdered, NEW n \in Nat, NEW D \in SUBSET (0 .. n),
         NEW disk \in [D -> Seq(0 .. MaxLsn)]
  PROVE  \/ NextLsn(disk) = 1 /\ \A g \in D : ValidPrefix(disk[g]) = << >>
         \/ \E g \in D : /\ ValidPrefix(disk[g]) # << >>
                         /\ \A h \in D : ValidPrefix(disk[h]) # << >> => h <= g
                         /\ NextLsn(disk) = ValidPrefix(disk[g])[Len(ValidPrefix(disk[g]))] + 1
<1> DEFINE found == {g \in D : ValidPrefix(disk[g]) # << >>}
<1>1. DOMAIN disk = D
  BY Zenon
<1>2. CASE found = {}
  BY <1>1, <1>2, Zenon DEF NextLsn
<1>3. CASE found # {}
  <2>1. \E g \in found : \A h \in found : h <= g
    BY <1>3, Greatest, Zenon
  <2> DEFINE m == CHOOSE g \in found : \A h \in found : h <= g
  <2>2. m \in found /\ \A h \in found : h <= m
    BY <2>1, Zenon
  <2>3. NextLsn(disk) = ValidPrefix(disk[m])[Len(ValidPrefix(disk[m]))] + 1
    BY <1>1, <1>3, Zenon DEF NextLsn
  <2> HIDE DEF m
  <2> QED
    BY <2>2, <2>3, Zenon
<1> QED
  BY <1>2, <1>3, Zenon

\* The valid prefix by its length.
LEMMA ValidLength ==
  ASSUME WellOrdered, NEW s \in Seq(0 .. MaxLsn)
  PROVE  LET v == ValidPrefix(s)
         IN /\ v \in Seq(0 .. MaxLsn) /\ Len(v) \in 0 .. Len(s)
            /\ \A i \in 1 .. Len(v) : v[i] = s[i] /\ s[i] # 0
            /\ v = s <=> \A i \in 1 .. Len(s) : s[i] # 0
            /\ \A i \in 1 .. Len(s) : (\A j \in 1 .. i : s[j] # 0) => i <= Len(v)
<1>1. PICK n \in 0 .. Len(s) : /\ ValidPrefix(s) = SubSeq(s, 1, n)
                               /\ \A i \in 1 .. n : s[i] # 0
                               /\ n = Len(s) \/ s[n + 1] = 0
  BY ValidPrefixFacts, Zenon
<1> DEFINE v == ValidPrefix(s)
<1>2. v \in Seq(0 .. MaxLsn) /\ Len(v) = n /\ \A i \in 1 .. n : v[i] = s[i]
  <2> DEFINE S == 0 .. MaxLsn
  <2> HIDE DEF S
  <2>1. s \in Seq(S)
    BY Zenon DEF S
  <2>2. /\ SubSeq(s, 1, n) \in Seq(S) /\ Len(SubSeq(s, 1, n)) = n
        /\ \A i \in 1 .. n : SubSeq(s, 1, n)[i] = s[i]
    BY <2>1, Prefix
  <2> QED
    BY <1>1, <2>2, Zenon DEF S
<1>3. Len(s) \in Nat /\ n \in Nat /\ n <= Len(s)
  OBVIOUS
<1>4. n = Len(s) => v = s
  <2> DEFINE S == 0 .. MaxLsn
  <2> HIDE DEF S
  <2>1. \A q \in Seq(S) : SubSeq(q, 1, Len(q)) = q
    OBVIOUS
  <2> QED
    BY <1>1, <2>1, Zenon DEF S
<1> HIDE DEF v
<1>5. ASSUME n # Len(s) PROVE n + 1 \in 1 .. Len(s) /\ s[n + 1] = 0
  BY <1>1, <1>3, <1>5
<1>6. v = s <=> \A i \in 1 .. Len(s) : s[i] # 0
  BY <1>1, <1>2, <1>4, <1>5, Zenon
<1>7. ASSUME NEW i \in 1 .. Len(s), \A j \in 1 .. i : s[j] # 0 PROVE i <= n
  <2>1. CASE n = Len(s)
    BY <1>3, <2>1
  <2>2. CASE n # Len(s)
    <3>1. n + 1 \notin 1 .. i
      BY <1>5, <1>7, <2>2, Zenon
    <3> QED
      BY <1>3, <3>1
  <2> QED
    BY <2>1, <2>2, Zenon
<1> QED
  BY <1>1, <1>2, <1>6, <1>7, Zenon DEF v

\* The number the constructor resumes at is larger than that of every record
\* it keeps.
LEMMA NextLsnBound ==
  ASSUME WellOrdered, NEW n \in Nat, NEW D \in SUBSET (0 .. n),
         NEW disk \in [D -> Seq(0 .. MaxLsn)], Ordered(disk)
  PROVE  /\ NextLsn(disk) \in 1 .. MaxLsn + 1
         /\ \A g \in D : \A i \in 1 .. Len(ValidPrefix(disk[g])) : disk[g][i] < NextLsn(disk)
<1> DEFINE V(g) == Len(ValidPrefix(disk[g]))
<1>1. ASSUME NEW g \in D
      PROVE  /\ disk[g] \in Seq(0 .. MaxLsn) /\ V(g) \in Nat /\ V(g) <= Len(disk[g])
             /\ ValidPrefix(disk[g]) \in Seq(0 .. MaxLsn)
             /\ \A i \in 1 .. V(g) : ValidPrefix(disk[g])[i] = disk[g][i] /\ disk[g][i] # 0
             /\ \A i \in 1 .. V(g) : i \in DOMAIN disk[g] /\ disk[g][i] \in 0 .. MaxLsn
  <2>1. disk[g] \in Seq(0 .. MaxLsn)
    BY Zenon
  <2>2. /\ V(g) \in 0 .. Len(disk[g]) /\ ValidPrefix(disk[g]) \in Seq(0 .. MaxLsn)
        /\ \A i \in 1 .. V(g) : ValidPrefix(disk[g])[i] = disk[g][i] /\ disk[g][i] # 0
    BY <2>1, ValidLength, Zenon
  <2>3. /\ Len(disk[g]) \in Nat /\ DOMAIN disk[g] = 1 .. Len(disk[g])
        /\ \A i \in DOMAIN disk[g] : disk[g][i] \in 0 .. MaxLsn
    BY <2>1, Elements, Zenon
  <2>4. V(g) \in Nat /\ V(g) <= Len(disk[g]) /\ \A i \in 1 .. V(g) : i \in 1 .. Len(disk[g])
    BY <2>2, <2>3
  <2> QED
    BY <2>1, <2>2, <2>3, <2>4, Zenon
<1>2. MaxLsn \in Nat
  BY BoundsAssumption, Zenon
<1>3. ASSUME NEW g \in D PROVE ValidPrefix(disk[g]) = << >> <=> V(g) = 0
  <2>1. \A v \in Seq(0 .. MaxLsn) : v = << >> <=> Len(v) = 0
    OBVIOUS
  <2> QED
    BY <1>1, <2>1, Zenon
<1>4. CASE NextLsn(disk) = 1 /\ \A g \in D : ValidPrefix(disk[g]) = << >>
  <2>1. \A i \in 1 .. 0 : i # i
    OBVIOUS
  <2>2. 1 \in 1 .. MaxLsn + 1
    BY <1>2
  <2> QED
    BY <1>3, <1>4, <2>1, <2>2, Zenon
<1>5. ASSUME NEW m \in D, ValidPrefix(disk[m]) # << >>,
             \A h \in D : ValidPrefix(disk[h]) # << >> => h <= m,
             NextLsn(disk) = ValidPrefix(disk[m])[Len(ValidPrefix(disk[m]))] + 1
      PROVE  /\ NextLsn(disk) \in 1 .. MaxLsn + 1
             /\ \A g \in D : \A i \in 1 .. V(g) : disk[g][i] < NextLsn(disk)
  <2> DEFINE last == disk[m][V(m)]
  <2>1. V(m) \in 1 .. V(m)
    <3>1. V(m) \in Nat /\ V(m) # 0
      BY <1>1, <1>3, <1>5, Zenon
    <3> QED
      BY <3>1
  <2>2. NextLsn(disk) = last + 1 /\ last \in 0 .. MaxLsn /\ last # 0 /\ V(m) \in DOMAIN disk[m]
    BY <1>1, <1>5, <2>1, Zenon
  <2>3. ASSUME NEW g \in D, NEW i \in 1 .. V(g) PROVE disk[g][i] < last \/ disk[g][i] = last
    <3>1. V(g) \in Nat /\ V(g) # 0
      BY <1>1, <2>3
    <3>2. g <= m /\ i \in DOMAIN disk[g]
      BY <1>1, <1>3, <1>5, <3>1, Zenon
    <3>3. g \in Int /\ m \in Int
      OBVIOUS
    <3>4. g < m \/ (g = m /\ i < V(m)) \/ (g = m /\ i = V(m))
      BY <3>1, <3>2, <3>3
    <3> QED
      BY <2>2, <3>2, <3>4, Zenon DEF Ordered
  <2> HIDE DEF last
  <2>4. NextLsn(disk) \in 1 .. MaxLsn + 1
    <3>1. \A x \in 0 .. MaxLsn : x + 1 \in 1 .. MaxLsn + 1
      BY <1>2
    <3> QED
      BY <2>2, <3>1, Zenon
  <2>5. ASSUME NEW g \in D, NEW i \in 1 .. V(g) PROVE disk[g][i] < NextLsn(disk)
    <3>1. disk[g][i] \in 0 .. MaxLsn /\ (disk[g][i] < last \/ disk[g][i] = last)
      BY <1>1, <2>3, Zenon
    <3>2. \A x, y \in 0 .. MaxLsn : x < y \/ x = y => x < y + 1
      OBVIOUS
    <3> QED
      BY <2>2, <3>1, <3>2, Zenon
  <2> QED
    BY <2>4, <2>5, Zenon
<1> QED
  BY <1>4, <1>5, NextLsnFacts, Zenon

=============================================================================
