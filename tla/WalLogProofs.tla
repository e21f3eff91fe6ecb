---------------------------- MODULE WalLogProofs -----------------------------
(***************************************************************************)
(* What the segments of Wal hold while the log is open: records in order,  *)
(* and every durable one where it was written, across failed rounds and    *)
(* rotations; and the files a crash leaves.                                *)
(***************************************************************************)
EXTENDS WalProofs

SegType ==
  /\ gen \in Nat \ {0} /\ gen \in DOMAIN seg /\ DOMAIN seg \subseteq 1 .. gen
  /\ seg \in [DOMAIN seg -> Seq(0 .. MaxLsn)]

LogType ==
  /\ home \in [Lsns -> 0 .. gen]
  /\ acked \in SUBSET Lsns /\ error \in SUBSET Lsns

\* The constructor threw, because of torn bytes in an older segment.
Down == pc[Rotator] = "down"

DownInv ==
  /\ \A w \in Writers : pc[w] = "down" <=> Down
  /\ Down => \E g \in DOMAIN seg \ {gen} : \E i \in DOMAIN seg[g] : seg[g][i] = 0

\* Records become durable, or fail, in LSN order, and segments follow it.
HomeInv ==
  /\ \A l \in Lsns : home[l] # 0 => l < Tried /\ l \notin error
  /\ \A e \in error : e < Tried
  /\ \A l, m \in Lsns : home[l] # 0 /\ home[m] # 0 /\ l < m => home[l] <= home[m]
  /\ \A l \in acked : home[l] # 0
  /\ \A w \in Writers : lsn[w] # 0 /\ lsn[w] < Tried =>
       home[lsn[w]] # 0 \/ lsn[w] \in error

\* A log that was opened holds tried records only; torn bytes have a failed
\* round in front of everything written since.
SegInv ==
  ~Down => \A g \in DOMAIN seg : \A i \in DOMAIN seg[g] :
             seg[g][i] < Tried /\ (seg[g][i] = 0 => error # {})

\* Where a durable record is.
Located(l) ==
  /\ home[l] \in DOMAIN seg
  /\ \E i \in DOMAIN seg[home[l]] :
       /\ seg[home[l]][i] = l
       /\ (\A e \in error : l < e) => \A j \in 1 .. i : seg[home[l]][j] # 0
LocatedInv == \A l \in Lsns : home[l] # 0 /\ home[l] > gen - 2 => Located(l)

LogInv ==
  SegType /\ LogType /\ DownInv /\ HomeInv /\ SegInv /\ LogOrdered /\ LocatedInv

LEMMA SegElement ==
  ASSUME SegType, NEW g \in DOMAIN seg
  PROVE  /\ seg[g] \in Seq(0 .. MaxLsn) /\ Len(seg[g]) \in Nat
         /\ DOMAIN seg[g] = 1 .. Len(seg[g])
         /\ \A i \in DOMAIN seg[g] : seg[g][i] \in 0 .. MaxLsn /\ seg[g][i] \in Int
<1>1. seg[g] \in Seq(0 .. MaxLsn)
  BY Zenon DEF SegType
<1>2. ASSUME NEW S, NEW s \in Seq(S)
      PROVE  Len(s) \in Nat /\ DOMAIN s = 1 .. Len(s) /\ \A i \in DOMAIN s : s[i] \in S
  OBVIOUS
<1>3. 0 .. MaxLsn \subseteq Int
  BY BoundsAssumption
<1> QED
  BY <1>1, <1>2, <1>3, Zenon

-----------------------------------------------------------------------------
(* Steps that write nothing.                                               *)

LEMMA LogSame ==
  ASSUME LogInv, UNCHANGED <<gen, seg, home, error>>, Tried' = Tried,
         \A t \in Threads : pc'[t] = "down" <=> pc[t] = "down",
         \A w \in Writers : lsn'[w] = 0 \/ lsn'[w] = lsn[w] \/ ~(lsn'[w] < Tried),
         \A l \in acked' : l \in acked \/ (l \in Lsns /\ home[l] # 0)
  PROVE  LogInv'
<1>1. Rotator \in Threads /\ \A w \in Writers : w \in Threads
  BY Zenon DEF Threads
<1>2. Down' <=> Down
  BY <1>1, Zenon DEF Down
<1>3. SegType' /\ LogOrdered'
  <2>1. gen' = gen /\ seg' = seg
    BY Zenon
  <2>2. LogOrdered' = LogOrdered
    BY <2>1 DEF LogOrdered
  <2> QED
    BY <2>1, <2>2, Zenon DEF LogInv, SegType
<1>4. LogType'
  BY Zenon DEF LogInv, LogType
<1>5. DownInv'
  BY <1>1, <1>2, Zenon DEF LogInv, DownInv
<1>6. HomeInv'
  BY Zenon DEF LogInv, HomeInv
<1>7. SegInv'
  BY <1>2, Zenon DEF LogInv, SegInv
<1>8. LocatedInv'
  <2>1. ASSUME NEW l \in Lsns, Located(l) PROVE Located(l)'
    BY <2>1, Zenon DEF Located
  <2> QED
    BY <2>1, Zenon DEF LogInv, LocatedInv
<1> QED
  BY <1>3, <1>4, <1>5, <1>6, <1>7, <1>8, Zenon DEF LogInv

\* A step of a writer that leaves the files alone.
LEMMA MoveLog ==
  ASSUME LeaderInv, LogInv, NEW t \in Writers, NEW step,
         pc' = [pc EXCEPT ![t] = step], pc[t] # "down", step # "down",
         UNCHANGED <<nextToFlush, batch, gen, seg, home, error, acked>>,
         pc[t] \in {"settle", "retire"} <=> step \in {"settle", "retire"},
         \A w \in Writers : lsn'[w] = 0 \/ lsn'[w] = lsn[w] \/ ~(lsn'[w] < Tried)
  PROVE  LogInv'
<1>1. t \in Threads
  BY Zenon DEF Threads
<1>2. pc'[t] = step /\ \A u \in Threads : u # t => pc'[u] = pc[u]
  BY <1>1, Zenon DEF LeaderInv
<1>3. \A w \in Writers : pc'[w] \in {"settle", "retire"} <=> pc[w] \in {"settle", "retire"}
  BY <1>2, Zenon DEF Threads
<1>4. Tried' = Tried
  BY <1>3, PastSame, Zenon DEF Tried
<1>5. \A u \in Threads : pc'[u] = "down" <=> pc[u] = "down"
  BY <1>2, Zenon
<1> QED
  BY <1>4, <1>5, LogSame, Zenon

LEMMA CallLog ==
  ASSUME LeaderInv, LogInv, NEW t \in Writers,
         \/ CheckPoisoned(t) \/ Publish(t) \/ Elect(t) \/ Wake(t) \/ TimeOut(t)
         \/ StartDrain(t) \/ Settle(t) \/ Release(t) \/ Recheck(t) \/ Reclaim(t)
  PROVE  LogInv'
<1>1. UNCHANGED <<nextToFlush, batch, gen, seg, home, error, acked>> /\ lsn' = lsn
  BY Zenon DEF CheckPoisoned, Publish, Elect, Wake, TimeOut, StartDrain, Settle, Release,
     Recheck, Reclaim, ringVars, fileVars, histVars
<1>2. ASSUME NEW step, pc' = [pc EXCEPT ![t] = step], step \notin {"settle", "retire", "down"},
             pc[t] \notin {"settle", "retire", "down"}
      PROVE  LogInv'
  BY <1>1, <1>2, MoveLog, Zenon
<1>3. CASE Settle(t)
  <2>1. pc[t] = "settle" /\ pc' = [pc EXCEPT ![t] = "retire"]
    BY <1>3, Zenon DEF Settle, Goto
  <2> QED
    BY <1>1, <2>1, MoveLog, Zenon
<1>4. CASE CheckPoisoned(t) \/ Publish(t) \/ Wake(t) \/ TimeOut(t)
  BY <1>2, <1>4, Zenon DEF CheckPoisoned, Publish, Wake, TimeOut, Goto
<1>5. CASE StartDrain(t) \/ Release(t)
  BY <1>2, <1>5, Zenon DEF StartDrain, Release, Goto
<1>6. CASE Elect(t) \/ Recheck(t) \/ Reclaim(t)
  BY <1>2, <1>6, Zenon DEF Elect, Recheck, Reclaim, Goto
<1> QED
  BY <1>3, <1>4, <1>5, <1>6, Zenon

LEMMA FetchLog ==
  ASSUME LeaderInv, RingInv, LogInv, NEW t \in Writers, FetchAdd(t) PROVE LogInv'
<1>1. /\ pc[t] = "fetch" /\ pc' = [pc EXCEPT ![t] = "publish"]
      /\ UNCHANGED <<nextToFlush, batch, gen, seg, home, error, acked>>
      /\ lsn' = [lsn EXCEPT ![t] = nextLsn]
  BY Zenon DEF FetchAdd, Goto, fileVars, histVars
<1>2. TypeInv /\ lsn \in [Threads -> 0 .. MaxLsn] /\ \A w \in Writers : w \in Threads
  BY Zenon DEF RingInv, TypeInv, Threads
<1>3. \A w \in Writers : lsn'[w] = lsn[w] \/ lsn'[w] = nextLsn
  BY <1>1, <1>2, Zenon
<1>4. ~(nextLsn < Tried)
  BY <1>2, PastFacts DEF TypeInv
<1> QED
  BY <1>1, <1>3, <1>4, MoveLog, Zenon

\* Only the leader is in a round; before it is tried, the batch is what is.
LEMMA NotTried ==
  ASSUME LeaderInv, RingInv, NEW t \in Writers, pc[t] = "collect"
  PROVE  Tried = nextToFlush - Len(batch) /\ \A w \in Writers : pc[w] \notin {"settle", "retire"}
<1>1. \A w \in Writers : w # t => pc[w] \notin Rounds
  BY LeaderAlone, Zenon DEF Leading, Threads
<1>2. \A w \in Writers : pc[w] \notin {"settle", "retire"}
  BY <1>1, Zenon DEF Rounds
<1> QED
  BY <1>2, Zenon DEF Tried, Past

LEMMA CollectLog ==
  ASSUME LeaderInv, RingInv, LogInv, NEW t \in Writers, Collect(t) PROVE LogInv'
<1>1. /\ pc[t] = "collect" /\ UNCHANGED <<gen, seg, home, error, acked, lsn>>
      /\ \/ pc' = [pc EXCEPT ![t] = "failAll"] /\ batch' = batch /\ nextToFlush' = nextToFlush
         \/ pc' = pc /\ batch' = Append(batch, nextToFlush) /\ nextToFlush' = nextToFlush + 1
  BY Zenon DEF Collect, Goto, fileVars, histVars
<1>2. /\ Tried = nextToFlush - Len(batch)
      /\ \A w \in Writers : pc[w] \notin {"settle", "retire"}
  BY <1>1, NotTried, Zenon
<1>3. \A u \in Threads : pc'[u] = pc[u] \/ (pc[u] = "collect" /\ pc'[u] = "failAll")
  BY <1>1, Zenon DEF LeaderInv, Threads
<1>4. \A w \in Writers : pc'[w] \notin {"settle", "retire"}
  BY <1>2, <1>3, Zenon DEF Threads
<1>5. Tried' = nextToFlush' - Len(batch')
  BY <1>4, Zenon DEF Tried, Past
<1>6. batch \in Seq(Lsns) /\ nextToFlush \in Nat
  BY DEF RingInv, TypeInv
<1>7. nextToFlush' - Len(batch') = nextToFlush - Len(batch)
  BY <1>1, <1>6
<1>8. \A u \in Threads : pc'[u] = "down" <=> pc[u] = "down"
  BY <1>3, Zenon
<1> QED
  BY <1>1, <1>2, <1>5, <1>7, <1>8, LogSame, Zenon

LEMMA RetireLog ==
  ASSUME LeaderInv, RingInv, LogInv, NEW t \in Writers, Retire(t) PROVE LogInv'
<1>1. /\ pc[t] = "retire" /\ pc' = [pc EXCEPT ![t] = "collect"]
      /\ UNCHANGED <<gen, seg, home, error, acked, lsn, nextToFlush>> /\ batch' = << >>
  BY Zenon DEF Retire, Goto, fileVars, histVars
<1>2. Tried = nextToFlush
  BY <1>1, Zenon DEF Tried, Past
<1>3. nextToFlush \in Nat /\ Len(<< >>) = 0
  BY DEF RingInv, TypeInv
<1>4. nextToFlush - Len(<< >>) = nextToFlush
  BY <1>3
<1>5. Tried' = Tried
  BY <1>1, <1>2, <1>4, Zenon DEF Tried, Past
<1>6. \A u \in Threads : pc'[u] = pc[u] \/ (pc[u] = "retire" /\ pc'[u] = "collect")
  BY <1>1, Zenon DEF LeaderInv, Threads
<1>7. \A u \in Threads : pc'[u] = "down" <=> pc[u] = "down"
  BY <1>6, Zenon
<1> QED
  BY <1>1, <1>5, <1>7, LogSame, Zenon

\* A call returns the LSN only of a record that is durable.
LEMMA ResultDurable ==
  ASSUME RingInv, LogInv, NEW t \in Writers, pc[t] = "result", lsn[t] \notin error
  PROVE  lsn[t] \in Lsns /\ home[lsn[t]] # 0
<1>1. TypeInv /\ WriterOK(t) /\ HomeInv
  BY Zenon DEF RingInv, LogInv
<1>2. lsn[t] # 0 /\ lsn[t] < Done
  BY <1>1, Zenon DEF WriterOK
<1>3. lsn[t] \in 0 .. MaxLsn
  BY <1>1, Zenon DEF TypeInv, Threads
<1>4. lsn[t] \in Lsns
  BY <1>2, <1>3 DEF Lsns
<1>5. lsn[t] < Tried
  BY <1>1, <1>2, <1>3, PastFacts
<1> QED
  BY <1>1, <1>2, <1>4, <1>5, Zenon DEF HomeInv

LEMMA ResultLog ==
  ASSUME LeaderInv, RingInv, LogInv, NEW t \in Writers, Result(t) PROVE LogInv'
<1>1. /\ pc[t] = "result" /\ pc' = [pc EXCEPT ![t] = "idle"]
      /\ UNCHANGED <<gen, seg, home, error, nextToFlush, batch>>
      /\ lsn' = [lsn EXCEPT ![t] = 0]
      /\ acked' = IF lsn[t] \notin error THEN acked \cup {lsn[t]} ELSE acked
  BY Zenon DEF Result, Answer, Goto, ringVars, fileVars
<1>2. lsn \in [Threads -> 0 .. MaxLsn] /\ \A w \in Writers : w \in Threads
  BY Zenon DEF RingInv, TypeInv, Threads
<1>3. \A w \in Writers : lsn'[w] = lsn[w] \/ lsn'[w] = 0
  BY <1>1, <1>2, Zenon
<1>4. \A l \in acked' : l \in acked \/ (l \in Lsns /\ home[l] # 0)
  BY <1>1, ResultDurable, Zenon
<1>5. \A u \in Threads : pc'[u] = pc[u] \/ (pc[u] = "result" /\ pc'[u] = "idle")
  BY <1>1, Zenon DEF LeaderInv
<1>6. \A w \in Writers : pc'[w] \in {"settle", "retire"} <=> pc[w] \in {"settle", "retire"}
  BY <1>2, <1>5, Zenon
<1>7. Tried' = Tried
  BY <1>1, <1>6, PastSame, Zenon DEF Tried
<1>8. \A u \in Threads : pc'[u] = "down" <=> pc[u] = "down"
  BY <1>5, Zenon
<1> QED
  BY <1>1, <1>3, <1>4, <1>7, <1>8, LogSame, Zenon

\* rotate_segment() up to its new segment, and the sweep but for its records.
LEMMA RotatorLog ==
  ASSUME LeaderInv, LogInv,
         \/ RotateCheck \/ RotateElect \/ OpenFails
         \/ FailAll(Rotator) \/ SweepAgain(Rotator) \/ SettleAll(Rotator) \/ Throw(Rotator)
  PROVE  LogInv'
<1>1. UNCHANGED <<nextToFlush, batch, gen, seg, home, error>> /\ acked' = acked /\ lsn' = lsn
  <2>1. CASE RotateCheck \/ RotateElect \/ OpenFails
    BY <2>1, Zenon DEF RotateCheck, RotateElect, OpenFails, ringVars, fileVars, histVars
  <2>2. CASE FailAll(Rotator) \/ SweepAgain(Rotator) \/ SettleAll(Rotator)
    BY <2>2, Zenon DEF FailAll, SweepAgain, SettleAll, ringVars, fileVars, histVars
  <2>3. CASE Throw(Rotator)
    BY <2>3, ThreadsAssumption, Zenon DEF Throw, ringVars, fileVars
  <2> QED
    BY <2>1, <2>2, <2>3, Zenon
<1>2. /\ pc[Rotator] # "down"
      /\ pc' = pc \/ \E step : pc' = [pc EXCEPT ![Rotator] = step] /\ step # "down"
  <2>1. CASE RotateCheck \/ RotateElect \/ OpenFails
    BY <2>1, Zenon DEF RotateCheck, RotateElect, OpenFails, Goto
  <2>2. CASE FailAll(Rotator) \/ SweepAgain(Rotator) \/ SettleAll(Rotator)
    BY <2>2, Zenon DEF FailAll, SweepAgain, SettleAll, Goto
  <2>3. CASE Throw(Rotator)
    BY <2>3, ThreadsAssumption, Zenon DEF Throw, Goto
  <2> QED
    BY <2>1, <2>2, <2>3, Zenon
<1>3. Rotator \in Threads /\ Rotator \notin Writers /\ \A w \in Writers : w \in Threads
  BY ThreadsAssumption, Zenon DEF Threads
<1>4. pc'[Rotator] # "down" /\ \A u \in Threads : u # Rotator => pc'[u] = pc[u]
  BY <1>2, <1>3, Zenon DEF LeaderInv
<1>5. \A w \in Writers : pc'[w] \in {"settle", "retire"} <=> pc[w] \in {"settle", "retire"}
  BY <1>3, <1>4, Zenon
<1>6. Tried' = Tried
  BY <1>1, <1>5, PastSame, Zenon DEF Tried
<1>7. \A u \in Threads : pc'[u] = "down" <=> pc[u] = "down"
  BY <1>2, <1>4, Zenon
<1> QED
  BY <1>1, <1>6, <1>7, LogSame, Zenon

-----------------------------------------------------------------------------
(* Records that fail.                                                      *)

\* The records that are tried now have failed.
LEMMA FailHome ==
  ASSUME LogType, HomeInv, lsn \in [Threads -> 0 .. MaxLsn],
         Tried \in Int, Tried' \in Int, Tried <= Tried',
         UNCHANGED <<home, acked, lsn>>, NEW S \in SUBSET Lsns, error' = error \cup S,
         \A l \in Lsns : l \in S <=> Tried <= l /\ l < Tried'
  PROVE  HomeInv' /\ error' \in SUBSET Lsns
<1>1. \A l \in Lsns : l \in Int /\ (l < Tried => l < Tried' /\ l \notin S)
                      /\ (l < Tried' => l < Tried \/ l \in S)
  BY BoundsAssumption DEF Lsns
<1>2. \A l \in S : l < Tried'
  BY Zenon
<1>3. \A w \in Writers : lsn[w] # 0 => lsn[w] \in Lsns
  BY DEF Threads, Lsns
<1>4. error \in SUBSET Lsns /\ acked \in SUBSET Lsns
  BY Zenon DEF LogType
<1>5. \A e \in error' : e < Tried'
  BY <1>1, <1>2, <1>4, Zenon DEF HomeInv
<1>6. \A l \in Lsns : home[l] # 0 => l < Tried' /\ l \notin error'
  BY <1>1, Zenon DEF HomeInv
<1>7. \A w \in Writers : lsn[w] # 0 /\ lsn[w] < Tried' => home[lsn[w]] # 0 \/ lsn[w] \in error'
  BY <1>1, <1>3, Zenon DEF HomeInv
<1> QED
  BY <1>4, <1>5, <1>6, <1>7, Zenon DEF HomeInv

LEMMA SweepLog ==
  ASSUME LeaderInv, RingInv, LogInv, Fits, SweepRecord(Rotator) PROVE LogInv'
<1>1. /\ pc[Rotator] = "sweep" /\ ring[Slot(nextToFlush)] # 0
      /\ UNCHANGED <<gen, seg, home, acked, lsn>> /\ pc' = pc /\ batch' = batch
      /\ error' = error \cup {ring[Slot(nextToFlush)]} /\ nextToFlush' = nextToFlush + 1
  BY Zenon DEF SweepRecord, fileVars, histVars
<1>2. Rotator \in Threads /\ Rotator \notin Writers /\ TypeInv /\ SlotInv
  BY ThreadsAssumption, Zenon DEF Threads, RingInv
<1>3. batch = << >> /\ \A w \in Writers : pc[w] \notin Rounds
  BY <1>1, <1>2, LeaderAlone, Zenon DEF Leading
<1>4. Len(batch) = 0 /\ RingCap \in Nat \ {0} /\ nextToFlush \in Nat \ {0}
  BY <1>2, <1>3, BoundsAssumption DEF TypeInv
<1>5. Len(batch) < RingCap
  BY <1>4
<1>6. ring[Slot(nextToFlush)] = nextToFlush
  BY <1>1, <1>2, <1>5, NextSlot, Zenon
<1>7. Slot(nextToFlush) \in 0 .. RingCap - 1
  BY <1>4, SlotRange, Zenon
<1>8. nextToFlush \in 0 .. MaxLsn
  BY <1>2, <1>6, <1>7, Zenon DEF TypeInv
<1>9. nextToFlush \in Lsns /\ nextToFlush - Len(batch) = nextToFlush
      /\ nextToFlush' - Len(batch) = nextToFlush + 1
  BY <1>1, <1>4, <1>8 DEF Lsns
<1>10. Tried = nextToFlush /\ Tried' = nextToFlush + 1
  BY <1>1, <1>3, <1>9, Zenon DEF Tried, Past, Rounds
<1>11. /\ Tried \in Int /\ Tried' \in Int /\ Tried <= Tried'
       /\ \A l \in Lsns : l \in {nextToFlush} <=> Tried <= l /\ l < Tried'
  BY <1>4, <1>10 DEF Lsns
<1>12. HomeInv' /\ error' \in SUBSET Lsns
  BY <1>1, <1>2, <1>6, <1>9, <1>11, FailHome, Zenon DEF LogInv, TypeInv
<1>13. error \subseteq error' /\ (error # {} => error' # {})
  BY <1>1, Zenon
<1>14. SegType' /\ LogType' /\ LogOrdered' = LogOrdered
  BY <1>1, <1>12, Zenon DEF LogInv, SegType, LogType, LogOrdered
<1>15. DownInv'
  BY <1>1, Zenon DEF LogInv, DownInv, Down
<1>16. SegInv'
  <2>1. ASSUME NEW g \in DOMAIN seg, NEW i \in DOMAIN seg[g], seg[g][i] < Tried
        PROVE  seg[g][i] < Tried'
    <3>1. seg[g][i] \in Int
      BY SegElement, Zenon DEF LogInv
    <3> QED
      BY <2>1, <3>1, <1>11
  <2> QED
    BY <1>1, <1>13, <2>1, Zenon DEF LogInv, SegInv, Down
<1>17. LocatedInv'
  <2>1. ASSUME NEW l \in Lsns, Located(l) PROVE Located(l)'
    BY <1>1, <1>13, <2>1, Zenon DEF Located
  <2> QED
    BY <1>1, <2>1, Zenon DEF LogInv, LocatedInv
<1> QED
  BY <1>12, <1>14, <1>15, <1>16, <1>17, Zenon DEF LogInv

-----------------------------------------------------------------------------
(* Segments come and go.                                                   *)

LEMMA OpenLog ==
  ASSUME LeaderInv, LogInv, OpenSegment PROVE LogInv'
<1>1. /\ pc[Rotator] = "open" /\ pc' = [pc EXCEPT ![Rotator] = "unlink"]
      /\ gen' = gen + 1
      /\ seg' = [g \in DOMAIN seg \cup {gen + 1} |-> IF g = gen + 1 THEN << >> ELSE seg[g]]
      /\ UNCHANGED <<nextToFlush, batch, lsn, home, error, acked>>
  BY Zenon DEF OpenSegment, Goto, ringVars, histVars
<1>2. Rotator \in Threads /\ Rotator \notin Writers /\ \A w \in Writers : w \in Threads
  BY ThreadsAssumption, Zenon DEF Threads
<1>3. pc'[Rotator] = "unlink" /\ \A w \in Writers : pc'[w] = pc[w]
  BY <1>1, <1>2, Zenon DEF LeaderInv
<1>4. Tried' = Tried /\ UNCHANGED <<home, error, acked, lsn>>
  BY <1>1, <1>3, PastSame, Zenon DEF Tried
<1>5. ~Down /\ ~Down'
  BY <1>1, <1>3, Zenon DEF Down
<1>6. /\ gen \in Nat \ {0} /\ gen' \in Nat \ {0} /\ 0 .. gen \subseteq 0 .. gen'
      /\ gen' \notin DOMAIN seg /\ DOMAIN seg \cup {gen'} \subseteq 1 .. gen'
      /\ \A h : h \in 0 .. gen /\ h > gen' - 2 => h > gen - 2
      /\ \A h \in DOMAIN seg : ~(gen' < h)
  BY <1>1 DEF LogInv, SegType
<1>7. /\ DOMAIN seg' = DOMAIN seg \cup {gen'} /\ seg'[gen'] = << >>
      /\ \A g \in DOMAIN seg : seg'[g] = seg[g]
  BY <1>1, <1>6, Zenon
<1>8. << >> \in Seq(0 .. MaxLsn) /\ \A i \in DOMAIN << >> : i # i
  OBVIOUS
<1>9. SegType'
  <2>1. seg' \in [DOMAIN seg' -> Seq(0 .. MaxLsn)]
    BY <1>1, <1>8, Zenon DEF LogInv, SegType
  <2> QED
    BY <1>6, <1>7, <2>1, Zenon DEF SegType
<1>10. LogType'
  BY <1>4, <1>6, Zenon DEF LogInv, LogType
<1>11. DownInv'
  BY <1>3, <1>5, Zenon DEF LogInv, DownInv
<1>12. HomeInv'
  BY <1>4, Zenon DEF LogInv, HomeInv
<1>13. \A g \in DOMAIN seg' : \A i \in DOMAIN seg'[g] :
         g \in DOMAIN seg /\ i \in DOMAIN seg[g] /\ seg'[g] = seg[g]
  BY <1>7, <1>8, Zenon
<1>14. SegInv'
  BY <1>4, <1>5, <1>13, Zenon DEF LogInv, SegInv
<1>15. LogOrdered'
  <2> SUFFICES ASSUME NEW g \in DOMAIN seg', NEW h \in DOMAIN seg',
                      NEW i \in DOMAIN seg'[g], NEW j \in DOMAIN seg'[h],
                      g < h \/ (g = h /\ i < j), seg'[h][j] # 0
               PROVE  seg'[g][i] < seg'[h][j]
    BY Zenon DEF LogOrdered
  <2>1. /\ g \in DOMAIN seg /\ i \in DOMAIN seg[g] /\ seg'[g] = seg[g]
        /\ h \in DOMAIN seg /\ j \in DOMAIN seg[h] /\ seg'[h] = seg[h]
    BY <1>13, Zenon
  <2> QED
    BY <2>1, Zenon DEF LogInv, LogOrdered
<1>16. LocatedInv'
  <2>1. ASSUME NEW l \in Lsns, home[l] # 0, home[l] > gen' - 2 PROVE Located(l)'
    <3>1. home[l] \in 0 .. gen
      BY Zenon DEF LogInv, LogType
    <3>2. Located(l)
      BY <1>6, <2>1, <3>1, Zenon DEF LogInv, LocatedInv
    <3>3. home[l] \in DOMAIN seg' /\ seg'[home[l]] = seg[home[l]]
      BY <1>7, <3>2, Zenon DEF Located
    <3> QED
      BY <1>4, <3>2, <3>3, Zenon DEF Located
  <2> QED
    BY <1>1, <2>1, Zenon DEF LocatedInv
<1> QED
  BY <1>9, <1>10, <1>11, <1>12, <1>14, <1>15, <1>16, Zenon DEF LogInv

LEMMA UnlinkLog ==
  ASSUME LeaderInv, LogInv, Unlink PROVE LogInv'
<1>1. /\ pc[Rotator] = "unlink" /\ pc' = [pc EXCEPT ![Rotator] = "idle"]
      /\ gen' = gen /\ seg' = [g \in DOMAIN seg \ {gen - 2} |-> seg[g]]
      /\ UNCHANGED <<nextToFlush, batch, lsn, home, error, acked>>
  BY Zenon DEF Unlink, Goto, ringVars, histVars
<1>2. Rotator \in Threads /\ Rotator \notin Writers /\ \A w \in Writers : w \in Threads
  BY ThreadsAssumption, Zenon DEF Threads
<1>3. pc'[Rotator] = "idle" /\ \A w \in Writers : pc'[w] = pc[w]
  BY <1>1, <1>2, Zenon DEF LeaderInv
<1>4. Tried' = Tried /\ UNCHANGED <<home, error, acked, lsn>>
  BY <1>1, <1>3, PastSame, Zenon DEF Tried
<1>5. ~Down /\ ~Down'
  BY <1>1, <1>3, Zenon DEF Down
<1>6. gen # gen - 2 /\ \A h \in 0 .. gen : h > gen - 2 => h # gen - 2
  BY DEF LogInv, SegType
<1>7. /\ DOMAIN seg' = DOMAIN seg \ {gen - 2}
      /\ \A g \in DOMAIN seg' : seg'[g] = seg[g]
  BY <1>1, Zenon
<1>8. SegType'
  BY <1>1, <1>6, <1>7, Zenon DEF LogInv, SegType
<1>9. LogType'
  BY <1>1, Zenon DEF LogInv, LogType
<1>10. DownInv'
  BY <1>3, <1>5, Zenon DEF LogInv, DownInv
<1>11. HomeInv'
  BY <1>4, Zenon DEF LogInv, HomeInv
<1>12. SegInv'
  BY <1>4, <1>5, <1>7, Zenon DEF LogInv, SegInv
<1>13. LogOrdered'
  BY <1>7, Zenon DEF LogInv, LogOrdered
<1>14. LocatedInv'
  <2>1. ASSUME NEW l \in Lsns, home[l] # 0, home[l] > gen - 2 PROVE Located(l)'
    <3>1. home[l] \in 0 .. gen
      BY Zenon DEF LogInv, LogType
    <3>2. Located(l) /\ home[l] # gen - 2
      BY <1>6, <2>1, <3>1, Zenon DEF LogInv, LocatedInv
    <3>3. home[l] \in DOMAIN seg' /\ seg'[home[l]] = seg[home[l]]
      BY <1>7, <3>2, Zenon DEF Located
    <3> QED
      BY <1>4, <3>2, <3>3, Zenon DEF Located
  <2> QED
    BY <1>1, <2>1, Zenon DEF LocatedInv
<1> QED
  BY <1>8, <1>9, <1>10, <1>11, <1>12, <1>13, <1>14, Zenon DEF LogInv

-----------------------------------------------------------------------------
(* Rounds.                                                                 *)

LEMMA Concat ==
  ASSUME NEW S, NEW s \in Seq(S), NEW b \in Seq(S)
  PROVE  /\ s \o b \in Seq(S) /\ Len(s \o b) = Len(s) + Len(b)
         /\ \A i \in 1 .. Len(s) : (s \o b)[i] = s[i]
         /\ \A k \in 1 .. Len(b) : (s \o b)[Len(s) + k] = b[k]
OBVIOUS

LEMMA Associative ==
  \A s, b, c \in Seq(0 .. MaxLsn) : s \o b \o c = s \o (b \o c)
<1> DEFINE S == 0 .. MaxLsn
<1> SUFFICES \A s, b, c \in Seq(S) : s \o b \o c = s \o (b \o c)
  BY Zenon
<1> HIDE DEF S
<1> QED
  OBVIOUS

LEMMA Larger ==
  ASSUME NEW S, NEW T, S \subseteq T, NEW s \in Seq(S) PROVE s \in Seq(T)
OBVIOUS

LEMMA OrderedNow == LogOrdered <=> Ordered(seg)
BY DEF LogOrdered, Ordered

LEMMA OrderedNext == LogOrdered' <=> Ordered(seg')
BY DEF LogOrdered, Ordered

\* The files with b appended to the active segment.
Appended(b) == [seg EXCEPT ![gen] = @ \o b]

\* What is in them: what was there, and b behind it.
LEMMA AppendedFacts ==
  ASSUME SegType, NEW b \in Seq(0 .. MaxLsn)
  PROVE  /\ Appended(b) \in [DOMAIN seg -> Seq(0 .. MaxLsn)]
         /\ \A g \in DOMAIN seg : g # gen => Appended(b)[g] = seg[g]
         /\ DOMAIN Appended(b)[gen] = 1 .. Len(seg[gen]) + Len(b)
         /\ \A g \in DOMAIN seg : \A i \in DOMAIN seg[g] :
              i \in DOMAIN Appended(b)[g] /\ Appended(b)[g][i] = seg[g][i]
         /\ \A k \in 1 .. Len(b) : Appended(b)[gen][Len(seg[gen]) + k] = b[k]
<1>1. gen \in DOMAIN seg /\ seg \in [DOMAIN seg -> Seq(0 .. MaxLsn)]
  BY Zenon DEF SegType
<1>2. /\ seg[gen] \in Seq(0 .. MaxLsn) /\ Len(seg[gen]) \in Nat /\ Len(b) \in Nat
      /\ DOMAIN seg[gen] = 1 .. Len(seg[gen])
  BY <1>1, Elements, Zenon
<1>3. /\ Appended(b)[gen] = seg[gen] \o b
      /\ \A g \in DOMAIN seg : g # gen => Appended(b)[g] = seg[g]
  BY <1>1, Zenon DEF Appended
<1>4. /\ seg[gen] \o b \in Seq(0 .. MaxLsn) /\ Len(seg[gen] \o b) = Len(seg[gen]) + Len(b)
      /\ \A i \in 1 .. Len(seg[gen]) : (seg[gen] \o b)[i] = seg[gen][i]
      /\ \A k \in 1 .. Len(b) : (seg[gen] \o b)[Len(seg[gen]) + k] = b[k]
  <2>1. seg[gen] \in Seq(0 .. MaxLsn)
    BY <1>2, Zenon
  <2> QED
    BY <2>1, Concat
<1>5. Appended(b) \in [DOMAIN seg -> Seq(0 .. MaxLsn)]
  <2>1. ASSUME NEW D, NEW S, NEW d \in [D -> S], NEW g \in D, NEW v \in S
        PROVE  [d EXCEPT ![g] = v] \in [D -> S]
    OBVIOUS
  <2> QED
    BY <1>1, <1>4, <2>1, Zenon DEF Appended
<1>6. DOMAIN (seg[gen] \o b) = 1 .. Len(seg[gen]) + Len(b)
  BY <1>4, Elements, Zenon
<1>7. 1 .. Len(seg[gen]) \subseteq 1 .. Len(seg[gen]) + Len(b)
  BY <1>2
<1>8. ASSUME NEW g \in DOMAIN seg, NEW i \in DOMAIN seg[g]
      PROVE  i \in DOMAIN Appended(b)[g] /\ Appended(b)[g][i] = seg[g][i]
  BY <1>2, <1>3, <1>4, <1>6, <1>7, Zenon
<1> QED
  BY <1>3, <1>4, <1>5, <1>6, <1>8, Zenon

\* Every record in them is an old one or of b.
LEMMA OldOrNew ==
  ASSUME SegType, NEW b \in Seq(0 .. MaxLsn),
         NEW g \in DOMAIN seg, NEW i \in DOMAIN Appended(b)[g]
  PROVE  \/ i \in DOMAIN seg[g] /\ Appended(b)[g][i] = seg[g][i]
         \/ /\ g = gen
            /\ \E k \in 1 .. Len(b) : i = Len(seg[gen]) + k /\ Appended(b)[g][i] = b[k]
<1>1. CASE g # gen
  BY <1>1, AppendedFacts, Zenon
<1>2. CASE g = gen /\ i \in DOMAIN seg[gen]
  BY <1>2, AppendedFacts, Zenon
<1>3. CASE g = gen /\ i \notin DOMAIN seg[gen]
  <2>1. /\ DOMAIN seg[gen] = 1 .. Len(seg[gen]) /\ Len(seg[gen]) \in Nat /\ Len(b) \in Nat
        /\ i \in 1 .. Len(seg[gen]) + Len(b)
    BY <1>3, SegElement, Elements, AppendedFacts, Zenon
  <2>2. i - Len(seg[gen]) \in 1 .. Len(b) /\ i = Len(seg[gen]) + (i - Len(seg[gen]))
    BY <1>3, <2>1
  <2>3. \A k \in 1 .. Len(b) : Appended(b)[gen][Len(seg[gen]) + k] = b[k]
    BY AppendedFacts, Zenon
  <2>4. \E k \in 1 .. Len(b) : i = Len(seg[gen]) + k
    BY <2>2, Zenon
  <2> QED
    BY <1>3, <2>3, <2>4, Zenon
<1> QED
  BY <1>1, <1>2, <1>3, Zenon

\* A round of records from T on keeps the log in order, whatever part of it is
\* written.
LEMMA AppendedOrdered ==
  ASSUME SegType, LogOrdered, NEW T \in Int,
         \A g \in DOMAIN seg : \A i \in DOMAIN seg[g] : seg[g][i] < T,
         NEW b \in Seq(0 .. MaxLsn),
         \A k \in 1 .. Len(b) : b[k] = 0 \/ T <= b[k],
         \A j, k \in 1 .. Len(b) : j < k /\ b[k] # 0 => b[j] < b[k]
  PROVE  Ordered(Appended(b))
<1> DEFINE d == Appended(b)
<1>1. DOMAIN d = DOMAIN seg
  BY AppendedFacts, Zenon
<1> SUFFICES ASSUME NEW g \in DOMAIN seg, NEW h \in DOMAIN seg,
                    NEW i \in DOMAIN d[g], NEW j \in DOMAIN d[h],
                    g < h \/ (g = h /\ i < j), d[h][j] # 0
             PROVE  d[g][i] < d[h][j]
  BY <1>1, Zenon DEF Ordered
<1>2. \/ i \in DOMAIN seg[g] /\ d[g][i] = seg[g][i]
      \/ g = gen /\ \E k \in 1 .. Len(b) : i = Len(seg[gen]) + k /\ d[g][i] = b[k]
  BY OldOrNew, Zenon
<1>3. \/ j \in DOMAIN seg[h] /\ d[h][j] = seg[h][j]
      \/ h = gen /\ \E k \in 1 .. Len(b) : j = Len(seg[gen]) + k /\ d[h][j] = b[k]
  BY OldOrNew, Zenon
<1> HIDE DEF d
<1>4. g \in Nat /\ h \in Nat /\ gen \in Nat /\ g <= gen /\ h <= gen
  BY DEF SegType
<1>5. Len(seg[gen]) \in Nat /\ DOMAIN seg[gen] = 1 .. Len(seg[gen])
  BY SegElement, Zenon DEF SegType
<1>6. ASSUME NEW G \in DOMAIN seg, NEW I \in DOMAIN seg[G] PROVE seg[G][I] \in Int
  BY SegElement, Zenon
<1>7. \A k \in 1 .. Len(b) : b[k] \in Int
  <2>1. 0 .. MaxLsn \subseteq Int
    BY BoundsAssumption
  <2> QED
    BY <2>1, Elements, Zenon
<1>8. CASE j \in DOMAIN seg[h] /\ d[h][j] = seg[h][j]
  <2>1. CASE i \in DOMAIN seg[g] /\ d[g][i] = seg[g][i]
    BY <1>8, <2>1, Zenon DEF LogOrdered
  <2>2. ASSUME g = gen, NEW k \in 1 .. Len(b), i = Len(seg[gen]) + k PROVE FALSE
    <3>1. g = h /\ i < j
      BY <1>4, <2>2
    <3> QED
      BY <1>5, <1>8, <2>2, <3>1
  <2> QED
    BY <1>2, <2>1, <2>2, Zenon
<1>9. ASSUME h = gen, NEW m \in 1 .. Len(b), j = Len(seg[gen]) + m, d[h][j] = b[m]
      PROVE  d[g][i] < d[h][j]
  <2>1. CASE i \in DOMAIN seg[g] /\ d[g][i] = seg[g][i]
    <3>1. seg[g][i] < T /\ T <= b[m]
      BY <1>9, <2>1, Zenon
    <3>2. seg[g][i] \in Int /\ b[m] \in Int
      BY <1>6, <1>7, <2>1, Zenon
    <3> QED
      BY <1>9, <2>1, <3>1, <3>2
  <2>2. ASSUME g = gen, NEW k \in 1 .. Len(b), i = Len(seg[gen]) + k, d[g][i] = b[k]
        PROVE  d[g][i] < d[h][j]
    <3>1. k < m
      BY <1>4, <1>5, <1>9, <2>2
    <3> QED
      BY <1>9, <2>2, <3>1, Zenon
  <2> QED
    BY <1>2, <2>1, <2>2, Zenon
<1> QED
  BY <1>3, <1>8, <1>9, Zenon

\* The round that is tried: the records from Tried on, in order.
LEMMA Round ==
  ASSUME LeaderInv, RingInv, NEW t \in Writers, pc[t] = "collect"
  PROVE  /\ batch \in Seq(Lsns) /\ batch \in Seq(0 .. MaxLsn) /\ Len(batch) \in Nat
         /\ nextToFlush \in Nat /\ Tried \in Nat \ {0} /\ Tried <= nextToFlush
         /\ \A k \in 1 .. Len(batch) : batch[k] = Tried + k - 1 /\ batch[k] \in Lsns
         /\ \A l \in Lsns : l \in Range(batch) <=> Tried <= l /\ l < nextToFlush
         /\ Range(batch) \subseteq Lsns
<1>1. Tried = nextToFlush - Len(batch)
  BY NotTried, Zenon
<1>2. batch \in Seq(Lsns) /\ nextToFlush \in Nat /\ BatchInv
  <2>1. TypeInv /\ BatchInv
    BY Zenon DEF RingInv
  <2>2. nextToFlush \in Nat
    BY <2>1, BoundsAssumption DEF TypeInv
  <2> QED
    BY <2>1, <2>2, Zenon DEF TypeInv
<1>3. Len(batch) \in Nat /\ DOMAIN batch = 1 .. Len(batch) /\ \A k \in DOMAIN batch : batch[k] \in Lsns
  BY <1>2, Elements, Zenon
<1>4. Len(batch) < nextToFlush
      /\ \A k \in 1 .. Len(batch) : batch[k] = nextToFlush - Len(batch) + k - 1
  BY <1>2, Zenon DEF BatchInv
<1>5. Tried \in Nat \ {0} /\ Tried <= nextToFlush /\ nextToFlush = Tried + Len(batch)
  <2>1. nextToFlush \in Nat /\ Len(batch) \in Nat /\ Len(batch) < nextToFlush
    BY <1>2, <1>3, <1>4, Zenon
  <2> QED
    BY <1>1, <2>1
<1>6. \A k \in 1 .. Len(batch) : batch[k] = Tried + k - 1
  BY <1>1, <1>4, Zenon
<1>7. Lsns \subseteq 0 .. MaxLsn
  BY BoundsAssumption DEF Lsns
<1>8. ASSUME NEW l \in Lsns PROVE l \in Range(batch) <=> Tried <= l /\ l < nextToFlush
  <2>1. l \in Range(batch) <=> \E k \in 1 .. Len(batch) : l = Tried + k - 1
    BY <1>3, <1>6, Zenon DEF Range
  <2>2. l \in Int
    BY DEF Lsns
  <2>3. ASSUME Tried <= l, l < nextToFlush PROVE \E k \in 1 .. Len(batch) : l = Tried + k - 1
    <3>1. l - Tried + 1 \in 1 .. Len(batch) /\ l = Tried + (l - Tried + 1) - 1
      BY <1>3, <1>5, <2>2, <2>3
    <3> QED
      BY <3>1, Zenon
  <2>4. ASSUME NEW k \in 1 .. Len(batch), l = Tried + k - 1
        PROVE  Tried <= l /\ l < nextToFlush
    BY <1>3, <1>5, <2>2, <2>4
  <2> QED
    BY <2>1, <2>3, <2>4, Zenon
<1>9. batch \in Seq(0 .. MaxLsn)
  BY <1>2, <1>7, Larger, Zenon
<1>10. Range(batch) \subseteq Lsns
  BY <1>3, Zenon DEF Range
<1> QED
  BY <1>2, <1>3, <1>5, <1>6, <1>8, <1>9, <1>10, Zenon

\* A durable record stays where it is when segments only grow.
LEMMA LocatedStill ==
  ASSUME SegType, NEW l \in Lsns, Located(l), home'[l] = home[l], error \subseteq error',
         home[l] \in DOMAIN seg',
         \A i \in DOMAIN seg[home[l]] :
           i \in DOMAIN seg'[home[l]] /\ seg'[home[l]][i] = seg[home[l]][i]
  PROVE  Located(l)'
<1>1. home[l] \in DOMAIN seg
  BY Zenon DEF Located
<1>2. PICK i \in DOMAIN seg[home[l]] :
        /\ seg[home[l]][i] = l
        /\ (\A e \in error : l < e) => \A j \in 1 .. i : seg[home[l]][j] # 0
  BY Zenon DEF Located
<1>3. \A j \in 1 .. i : j \in DOMAIN seg[home[l]]
  <2>1. Len(seg[home[l]]) \in Nat /\ DOMAIN seg[home[l]] = 1 .. Len(seg[home[l]])
    BY <1>1, SegElement, Zenon
  <2> QED
    BY <2>1
<1>4. /\ i \in DOMAIN seg'[home[l]] /\ seg'[home[l]][i] = l
      /\ (\A e \in error' : l < e) => \A j \in 1 .. i : seg'[home[l]][j] # 0
  BY <1>2, <1>3, Zenon
<1> QED
  BY <1>4, Zenon DEF Located

\* What a round leaves of the invariants, whatever part of it is written.
LEMMA RoundLog ==
  ASSUME LeaderInv, LogInv, NEW t \in Writers, pc[t] = "collect",
         pc' = [pc EXCEPT ![t] = "settle"],
         NEW b \in Seq(0 .. MaxLsn), seg' = Appended(b), gen' = gen,
         Tried \in Int, Tried' \in Int, Tried <= Tried',
         \A k \in 1 .. Len(b) : b[k] = 0 \/ (Tried <= b[k] /\ b[k] < Tried'),
         \A j, k \in 1 .. Len(b) : j < k /\ b[k] # 0 => b[j] < b[k],
         0 < Tried', error \subseteq error', (\E k \in 1 .. Len(b) : b[k] = 0) => error' # {}
  PROVE  /\ SegType' /\ DownInv' /\ SegInv' /\ LogOrdered'
         /\ \A l \in Lsns : home'[l] = home[l] /\ Located(l) => Located(l)'
         /\ \A g \in DOMAIN seg : \A i \in DOMAIN seg[g] :
              seg[g][i] < Tried /\ (seg[g][i] = 0 => error # {})
<1>1. Rotator \in Threads /\ Rotator # t /\ \A w \in Writers : w \in Threads
  BY ThreadsAssumption, Zenon DEF Threads
<1>2. pc'[t] = "settle" /\ \A u \in Threads : u # t => pc'[u] = pc[u]
  BY <1>1, Zenon DEF LeaderInv
<1>3. ~Down /\ ~Down'
  BY <1>1, <1>2, Zenon DEF LogInv, DownInv, Down
<1>4. DownInv'
  BY <1>1, <1>2, <1>3, Zenon DEF LogInv, DownInv
<1>5. SegType /\ DOMAIN seg' = DOMAIN seg
  BY AppendedFacts, Zenon DEF LogInv
<1>6. SegType'
  BY <1>5, AppendedFacts, Zenon DEF SegType
<1>7. \A g \in DOMAIN seg : \A i \in DOMAIN seg[g] :
        seg[g][i] < Tried /\ (seg[g][i] = 0 => error # {})
  BY <1>3, Zenon DEF LogInv, SegInv
<1>8. LogOrdered'
  <2>1. Ordered(Appended(b))
    BY <1>5, <1>7, AppendedOrdered, Zenon DEF LogInv
  <2> QED
    BY <2>1, OrderedNext, Zenon
<1>9. SegInv'
  <2>1. ASSUME NEW g \in DOMAIN seg, NEW i \in DOMAIN seg'[g]
        PROVE  seg'[g][i] < Tried' /\ (seg'[g][i] = 0 => error' # {})
    <3>1. \/ i \in DOMAIN seg[g] /\ seg'[g][i] = seg[g][i]
          \/ \E k \in 1 .. Len(b) : seg'[g][i] = b[k]
      BY <1>5, OldOrNew, Zenon
    <3>2. CASE i \in DOMAIN seg[g] /\ seg'[g][i] = seg[g][i]
      <4>1. seg[g][i] \in Int /\ seg[g][i] < Tried
        BY <1>5, <1>7, <3>2, SegElement, Zenon
      <4>2. seg'[g][i] < Tried'
        BY <3>2, <4>1
      <4> QED
        BY <1>7, <3>2, <4>2, Zenon
    <3> QED
      BY <3>1, <3>2, Zenon
  <2> QED
    BY <1>5, <2>1, Zenon DEF SegInv
<1>10. ASSUME NEW l \in Lsns, home'[l] = home[l], Located(l) PROVE Located(l)'
  <2>1. home[l] \in DOMAIN seg
    BY <1>10, Zenon DEF Located
  <2>2. \A i \in DOMAIN seg[home[l]] :
          i \in DOMAIN seg'[home[l]] /\ seg'[home[l]][i] = seg[home[l]][i]
    BY <1>5, <2>1, AppendedFacts, Zenon
  <2> QED
    BY <1>5, <1>10, <2>1, <2>2, LocatedStill, Zenon
<1> QED
  BY <1>4, <1>6, <1>7, <1>8, <1>9, <1>10, Zenon

\* Once the round was tried, so were all records before next_to_flush_.
LEMMA RoundTried ==
  ASSUME LeaderInv, NEW t \in Writers, pc' = [pc EXCEPT ![t] = "settle"],
         nextToFlush' = nextToFlush
  PROVE  Tried' = nextToFlush
<1>1. pc'[t] = "settle"
  BY Zenon DEF LeaderInv, Threads
<1> QED
  BY <1>1, Zenon DEF Tried, Past

LEMMA WriteLog ==
  ASSUME LeaderInv, RingInv, LogInv, NEW t \in Writers, WriteBatch(t) PROVE LogInv'
<1>1. /\ pc[t] = "collect" /\ pc' = [pc EXCEPT ![t] = "settle"] /\ batch # << >>
      /\ seg' = Appended(batch) /\ gen' = gen
      /\ UNCHANGED <<nextToFlush, lsn, error, acked>>
      /\ home' = [l \in Lsns |-> IF l \in Range(batch) THEN gen ELSE home[l]]
  BY Zenon DEF WriteBatch, Goto, ringVars, Appended
<1>2. /\ batch \in Seq(0 .. MaxLsn) /\ Len(batch) \in Nat
      /\ nextToFlush \in Nat /\ Tried \in Nat \ {0} /\ Tried <= nextToFlush
      /\ \A k \in 1 .. Len(batch) : batch[k] = Tried + k - 1 /\ batch[k] \in Lsns
      /\ \A l \in Lsns : l \in Range(batch) <=> Tried <= l /\ l < nextToFlush
  BY <1>1, Round, Zenon
<1>3. Tried' = nextToFlush
  BY <1>1, RoundTried, Zenon
<1>4. /\ Tried \in Int /\ Tried' \in Int /\ Tried <= Tried' /\ 0 < Tried'
      /\ \A l \in Lsns : l \in Int /\ l # 0
  BY <1>2, <1>3 DEF Lsns
<1>5. /\ \A k \in 1 .. Len(batch) : batch[k] # 0 /\ k \in DOMAIN batch
      /\ \A k \in 1 .. Len(batch) : Tried <= batch[k] /\ batch[k] < Tried'
  <2>1. DOMAIN batch = 1 .. Len(batch)
    BY <1>2, Elements, Zenon
  <2> QED
    BY <1>2, <1>3, <1>4, <2>1, Zenon DEF Range
<1>6. \A j, k \in 1 .. Len(batch) : j < k => batch[j] < batch[k]
  BY <1>2
<1>7. /\ SegType' /\ DownInv' /\ SegInv' /\ LogOrdered'
      /\ \A l \in Lsns : home'[l] = home[l] /\ Located(l) => Located(l)'
      /\ \A g \in DOMAIN seg : \A i \in DOMAIN seg[g] :
           seg[g][i] < Tried /\ (seg[g][i] = 0 => error # {})
  BY <1>1, <1>2, <1>4, <1>5, <1>6, RoundLog, Zenon
<1>8. /\ SegType /\ HomeInv /\ LocatedInv /\ home \in [Lsns -> 0 .. gen]
      /\ acked \in SUBSET Lsns /\ error \in SUBSET Lsns
  BY Zenon DEF LogInv, LogType
<1>9. /\ \A l \in Lsns : Tried <= l /\ l < nextToFlush => home'[l] = gen
      /\ \A l \in Lsns : ~(Tried <= l /\ l < nextToFlush) => home'[l] = home[l]
  BY <1>1, <1>2, Zenon
<1>10. /\ gen \in Nat \ {0} /\ gen # 0 /\ gen \in 0 .. gen /\ gen <= gen
       /\ \A l \in Lsns : home[l] \in 0 .. gen /\ home[l] <= gen
  BY <1>8 DEF SegType
<1>11. LogType'
  <2>1. home' \in [Lsns -> 0 .. gen]
    BY <1>1, <1>8, <1>10, Zenon
  <2> QED
    BY <1>1, <1>8, <2>1, Zenon DEF LogType
<1>12. \A l \in Lsns : l < Tried => ~(Tried <= l /\ l < nextToFlush) /\ l < nextToFlush
  BY <1>2, <1>4
<1>13. \A l, m \in Lsns : home'[l] # 0 /\ home'[m] # 0 /\ l < m => home'[l] <= home'[m]
  <2> SUFFICES ASSUME NEW l \in Lsns, NEW m \in Lsns, home'[l] # 0, home'[m] # 0, l < m
               PROVE  home'[l] <= home'[m]
    BY Zenon
  <2>1. CASE Tried <= m /\ m < nextToFlush
    BY <1>9, <1>10, <2>1, Zenon
  <2>2. CASE ~(Tried <= m /\ m < nextToFlush)
    <3>1. m < Tried
      BY <1>8, <1>9, <2>2, Zenon DEF HomeInv
    <3>2. ~(Tried <= l /\ l < nextToFlush)
      BY <1>4, <3>1
    <3> QED
      BY <1>8, <1>9, <2>2, <3>2, Zenon DEF HomeInv
  <2> QED
    BY <2>1, <2>2, Zenon
<1>14. HomeInv'
  <2>1. \A l \in Lsns : home'[l] # 0 => l < Tried' /\ l \notin error'
    <3>1. ASSUME NEW l \in Lsns, Tried <= l PROVE l \notin error
      <4>1. ~(l < Tried)
        BY <1>4, <3>1
      <4> QED
        BY <1>8, <4>1, Zenon DEF HomeInv
    <3> QED
      BY <1>1, <1>3, <1>8, <1>9, <1>12, <3>1, Zenon DEF HomeInv
  <2>2. \A e \in error' : e < Tried'
    BY <1>1, <1>3, <1>8, <1>12, Zenon DEF HomeInv
  <2>3. \A l \in acked' : home'[l] # 0
    BY <1>1, <1>8, <1>9, <1>10, Zenon DEF HomeInv
  <2>4. ASSUME NEW w \in Writers, lsn[w] # 0, lsn[w] < Tried'
        PROVE  home'[lsn[w]] # 0 \/ lsn[w] \in error
    <3>1. lsn[w] \in Lsns
      BY <2>4 DEF RingInv, TypeInv, Lsns, Threads
    <3>2. CASE lsn[w] < Tried
      BY <1>8, <1>9, <1>10, <2>4, <3>1, <3>2, Zenon DEF HomeInv
    <3>3. CASE ~(lsn[w] < Tried)
      <4>1. Tried <= lsn[w]
        BY <1>4, <3>1, <3>3
      <4> QED
        BY <1>3, <1>9, <1>10, <2>4, <3>1, <4>1, Zenon
    <3> QED
      BY <3>2, <3>3, Zenon
  <2> QED
    BY <1>1, <1>13, <2>1, <2>2, <2>3, <2>4, Zenon DEF HomeInv
<1>15. ASSUME NEW l \in Lsns, Tried <= l, l < nextToFlush PROVE Located(l)'
  <2>1. PICK k \in 1 .. Len(batch) : batch[k] = l
    <3>1. l \in Range(batch)
      BY <1>2, <1>15, Zenon
    <3>2. DOMAIN batch = 1 .. Len(batch)
      BY <1>2, Elements, Zenon
    <3> QED
      BY <3>1, <3>2, Zenon DEF Range
  <2> DEFINE i == Len(seg[gen]) + k
  <2>2. /\ DOMAIN seg'[gen] = 1 .. Len(seg[gen]) + Len(batch) /\ gen \in DOMAIN seg'
        /\ \A m \in 1 .. Len(batch) : seg'[gen][Len(seg[gen]) + m] = batch[m]
    BY <1>1, <1>2, <1>8, AppendedFacts, Zenon DEF SegType
  <2>3. Len(seg[gen]) \in Nat
    BY <1>8, SegElement, Zenon DEF SegType
  <2>4. i \in DOMAIN seg'[gen] /\ seg'[gen][i] = l /\ home'[l] = gen
    <3>1. i \in 1 .. Len(seg[gen]) + Len(batch)
      BY <1>2, <2>3
    <3> QED
      BY <1>9, <1>15, <2>1, <2>2, <3>1, Zenon
  <2>5. ASSUME \A e \in error' : l < e, NEW j \in 1 .. i PROVE seg'[gen][j] # 0
    <3>1. error = {}
      <4>1. ASSUME NEW e \in error PROVE FALSE
        <5>1. e \in Lsns /\ e < Tried /\ l < e
          BY <1>1, <1>8, <2>5, Zenon DEF HomeInv
        <5> QED
          BY <1>4, <1>15, <5>1
      <4> QED
        BY <4>1, Zenon
    <3>2. \/ j \in DOMAIN seg[gen] /\ seg'[gen][j] = seg[gen][j]
          \/ \E m \in 1 .. Len(batch) : seg'[gen][j] = batch[m]
      <4>1. j \in DOMAIN seg'[gen]
        BY <1>2, <2>2, <2>3
      <4>2. SegType /\ gen \in DOMAIN seg /\ batch \in Seq(0 .. MaxLsn)
        BY <1>2, <1>8, Zenon DEF SegType
      <4>3. j \in DOMAIN Appended(batch)[gen]
        BY <1>1, <4>1, Zenon
      <4>4. \/ j \in DOMAIN seg[gen] /\ Appended(batch)[gen][j] = seg[gen][j]
            \/ \E m \in 1 .. Len(batch) : Appended(batch)[gen][j] = batch[m]
        BY <4>2, <4>3, OldOrNew, Zenon
      <4> QED
        BY <1>1, <4>4, Zenon
    <3> QED
      BY <1>5, <1>7, <1>8, <3>1, <3>2, Zenon DEF SegType
  <2> HIDE DEF i
  <2>6. /\ home'[l] \in DOMAIN seg' /\ i \in DOMAIN seg'[home'[l]] /\ seg'[home'[l]][i] = l
        /\ (\A e \in error' : l < e) => \A j \in 1 .. i : seg'[home'[l]][j] # 0
    BY <2>2, <2>4, <2>5, Zenon
  <2> QED
    BY <2>6, Zenon DEF Located
<1>16. LocatedInv'
  <2> SUFFICES ASSUME NEW l \in Lsns, home'[l] # 0, home'[l] > gen - 2 PROVE Located(l)'
    BY <1>1, Zenon DEF LocatedInv
  <2>1. CASE ~(Tried <= l /\ l < nextToFlush)
    BY <1>7, <1>8, <1>9, <2>1, Zenon DEF LocatedInv
  <2> QED
    BY <1>15, <2>1, Zenon
<1> QED
  BY <1>7, <1>11, <1>14, <1>16, Zenon DEF LogInv

LEMMA WriteFailsLog ==
  ASSUME LeaderInv, RingInv, LogInv, NEW t \in Writers, WriteFails(t) PROVE LogInv'
<1>1. /\ pc[t] = "collect" /\ pc' = [pc EXCEPT ![t] = "settle"] /\ batch # << >>
      /\ gen' = gen /\ UNCHANGED <<nextToFlush, lsn, home, acked>>
      /\ error' = error \cup Range(batch)
  BY Zenon DEF WriteFails, Goto, histVars
<1>2. /\ batch \in Seq(0 .. MaxLsn) /\ Len(batch) \in Nat
      /\ nextToFlush \in Nat /\ Tried \in Nat \ {0} /\ Tried <= nextToFlush
      /\ \A k \in 1 .. Len(batch) : batch[k] = Tried + k - 1 /\ batch[k] \in Lsns
      /\ \A l \in Lsns : l \in Range(batch) <=> Tried <= l /\ l < nextToFlush
      /\ Range(batch) \in SUBSET Lsns
  BY <1>1, Round, Zenon
<1>3. Tried' = nextToFlush
  BY <1>1, RoundTried, Zenon
<1>4. Tried \in Int /\ Tried' \in Int /\ Tried <= Tried' /\ 0 < Tried'
  BY <1>2, <1>3
<1>5. error \subseteq error' /\ error' # {}
  <2>1. batch[1] \in Range(batch)
    <3>1. 1 \in DOMAIN batch
      BY <1>1, <1>2
    <3> QED
      BY <3>1, Zenon DEF Range
  <2> QED
    BY <1>1, <2>1, Zenon
<1> DEFINE Grown ==
      \E b \in Seq(0 .. MaxLsn) :
        /\ seg' = Appended(b)
        /\ \A k \in 1 .. Len(b) : b[k] = 0 \/ (Tried <= b[k] /\ b[k] < Tried')
        /\ \A j, k \in 1 .. Len(b) : j < k /\ b[k] # 0 => b[j] < b[k]
<1>6. Grown
  <2>1. CASE UNCHANGED seg
    <3>1. << >> \in Seq(0 .. MaxLsn) /\ \A k \in 1 .. Len(<< >>) : k # k
      OBVIOUS
    <3>2. seg[gen] \o << >> = seg[gen]
      <4>1. seg[gen] \in Seq(0 .. MaxLsn)
        BY Zenon DEF LogInv, SegType
      <4> QED
        BY <4>1
    <3>3. seg = [seg EXCEPT ![gen] = seg[gen]]
      BY Zenon DEF LogInv, SegType
    <3>4. seg' = Appended(<< >>)
      BY <2>1, <3>2, <3>3, Zenon DEF Appended
    <3> QED
      BY <3>1, <3>4, Zenon
  <2>3. ASSUME NEW n \in 0 .. Len(batch),
               seg' = [seg EXCEPT ![gen] = @ \o SubSeq(batch, 1, n)]
        PROVE  Grown
    <3> DEFINE b == SubSeq(batch, 1, n)
    <3>1. /\ b \in Seq(0 .. MaxLsn) /\ Len(b) = n /\ \A k \in 1 .. n : b[k] = batch[k]
      BY <1>2, Prefix, Zenon
    <3>2. seg' = Appended(b)
      BY <2>3, Zenon DEF Appended
    <3> HIDE DEF b
    <3>3. ASSUME NEW k \in 1 .. n
          PROVE  k \in Int /\ k \in 1 .. Len(batch) /\ k <= Len(batch) /\ 1 <= k
      BY <1>2
    <3>4. \A k \in 1 .. n : b[k] = Tried + k - 1
      BY <1>2, <3>1, <3>3, Zenon
    <3>5. nextToFlush = Tried + Len(batch)
      BY <1>1, <1>2, NotTried
    <3>6. \A k \in 1 .. Len(b) : b[k] = 0 \/ (Tried <= b[k] /\ b[k] < Tried')
      BY <1>2, <1>3, <3>1, <3>3, <3>4, <3>5
    <3>7. \A j, k \in 1 .. Len(b) : j < k /\ b[k] # 0 => b[j] < b[k]
      BY <1>2, <3>1, <3>3, <3>4
    <3> QED
      BY <3>1, <3>2, <3>6, <3>7, Zenon
  <2>2. ASSUME NEW n \in 0 .. Len(batch) - 1,
               seg' = [seg EXCEPT ![gen] = @ \o SubSeq(batch, 1, n) \o << 0 >>]
        PROVE  Grown
    <3> DEFINE p == SubSeq(batch, 1, n)
               b == p \o <<0>>
    <3>1. /\ p \in Seq(0 .. MaxLsn) /\ Len(p) = n /\ n \in Nat /\ n < Len(batch)
          /\ \A i \in 1 .. n : p[i] = batch[i]
      <4>1. n \in 0 .. Len(batch) /\ n \in Nat /\ n < Len(batch)
        BY <1>2
      <4> QED
        BY <1>2, <4>1, Prefix, Zenon
    <3>2. <<0>> \in Seq(0 .. MaxLsn) /\ Len(<<0>>) = 1 /\ <<0>>[1] = 0
      BY BoundsAssumption
    <3> HIDE DEF p
    <3>3. /\ b \in Seq(0 .. MaxLsn) /\ Len(b) = n + 1
          /\ (\A i \in 1 .. n : b[i] = p[i]) /\ b[n + 1] = 0
      BY <3>1, <3>2
    <3>4. seg[gen] \o p \o <<0>> = seg[gen] \o b
      <4>1. seg[gen] \in Seq(0 .. MaxLsn)
        BY Zenon DEF LogInv, SegType
      <4>2. p \in Seq(0 .. MaxLsn) /\ <<0>> \in Seq(0 .. MaxLsn)
        BY <3>1, <3>2, Zenon
      <4> QED
        BY <4>1, <4>2, Associative, Zenon
    <3>5. seg' = Appended(b)
      BY <2>2, <3>4, Zenon DEF Appended, p
    <3> HIDE DEF b
    <3>6. ASSUME NEW k \in 1 .. Len(b)
          PROVE  k \in Int /\ ((k <= n /\ b[k] = Tried + k - 1) \/ (k = n + 1 /\ b[k] = 0))
      <4>1. k \in Int /\ (k \in 1 .. n \/ k = n + 1)
        BY <3>1, <3>3
      <4>2. CASE k \in 1 .. n
        <5>1. k \in 1 .. Len(batch) /\ k <= n
          BY <1>2, <3>1, <4>2
        <5> QED
          BY <1>2, <3>1, <3>3, <4>1, <4>2, <5>1, Zenon
      <4> QED
        BY <3>3, <4>1, <4>2, Zenon
    <3>7. \A k \in 1 .. Len(b) : b[k] = 0 \/ (Tried <= b[k] /\ b[k] < Tried')
      <4>1. nextToFlush = Tried + Len(batch)
        BY <1>1, <1>2, NotTried
      <4> QED
        BY <1>2, <1>3, <3>1, <3>6, <4>1
    <3>8. ASSUME NEW j \in 1 .. Len(b), NEW k \in 1 .. Len(b), j < k, b[k] # 0
          PROVE  b[j] < b[k]
      <4>1. k \in Int /\ k <= n /\ b[k] = Tried + k - 1 /\ j \in Int
        BY <3>6, <3>8, Zenon
      <4>2. j # n + 1
        BY <3>1, <3>8, <4>1
      <4>3. b[j] = Tried + j - 1
        BY <3>6, <4>2, Zenon
      <4> QED
        BY <1>2, <3>8, <4>1, <4>3
    <3> QED
      BY <3>3, <3>5, <3>7, <3>8, Zenon
  <2>4. ASSUME NEW n \in 0 .. Len(batch), n < Len(batch) PROVE n \in 0 .. Len(batch) - 1
    BY <1>2, <2>4
  <2> QED
    BY <2>1, <2>2, <2>3, <2>4, Zenon DEF WriteFails
<1>7. /\ SegType' /\ DownInv' /\ SegInv' /\ LogOrdered'
      /\ \A l \in Lsns : home'[l] = home[l] /\ Located(l) => Located(l)'
  BY <1>1, <1>4, <1>5, <1>6, RoundLog, Zenon
<1>8. HomeInv' /\ error' \in SUBSET Lsns
  <2>1. lsn \in [Threads -> 0 .. MaxLsn] /\ LogType /\ HomeInv
    BY Zenon DEF RingInv, TypeInv, LogInv
  <2> QED
    BY <1>1, <1>2, <1>3, <1>4, <2>1, FailHome, Zenon
<1>9. LogType'
  BY <1>1, <1>8, Zenon DEF LogInv, LogType
<1>10. LocatedInv'
  BY <1>1, <1>7, Zenon DEF LogInv, LocatedInv
<1> QED
  BY <1>7, <1>8, <1>9, <1>10, Zenon DEF LogInv

\* Every step but a crash.
LEMMA LogStep ==
  ASSUME LeaderInv, RingInv, Fits, LogInv, [Next]_vars, \A n \in 0 .. RingCap : ~Crash(n)
  PROVE  LogInv'
<1>1. ASSUME NEW w \in Writers, CheckPoisoned(w) \/ AppendStep(w) PROVE LogInv'
  BY <1>1, CallLog, FetchLog, CollectLog, WriteLog, WriteFailsLog, RetireLog, ResultLog,
     NoWriterSweeps, Zenon DEF AppendStep
<1>2. CASE RotateCheck \/ RotateStep
  BY <1>2, RotatorLog, SweepLog, OpenLog, UnlinkLog, Zenon DEF RotateStep, FailAllStep
<1>3. CASE UNCHANGED vars
  <2>1. UNCHANGED <<nextToFlush, batch, gen, seg, home, error>> /\ acked' = acked
        /\ lsn' = lsn /\ pc' = pc
    BY <1>3, Zenon DEF vars, ringVars, fileVars, histVars
  <2>2. Tried' = Tried
    BY <2>1, Zenon DEF Tried, Past
  <2> QED
    BY <2>1, <2>2, LogSame, Zenon
<1> QED
  BY <1>1, <1>2, <1>3, Zenon DEF Next

LEMMA LogInit == Init => LogInv
<1> SUFFICES ASSUME Init PROVE LogInv
  OBVIOUS
<1>1. /\ gen = 1 /\ seg = [g \in {1} |-> << >>] /\ home = [l \in Lsns |-> 0]
      /\ acked = {} /\ error = {} /\ nextToFlush = 1 /\ batch = << >>
      /\ pc = [t \in Threads |-> "idle"] /\ lsn = [t \in Threads |-> 0]
  BY Zenon DEF Init
<1>2. /\ \A t \in Threads : pc[t] = "idle" /\ lsn[t] = 0
      /\ Rotator \in Threads /\ \A w \in Writers : w \in Threads
  BY <1>1, Zenon DEF Threads
<1>3. /\ DOMAIN seg = {1} /\ \A g \in DOMAIN seg : \A i \in DOMAIN seg[g] : i # i
  BY <1>1
<1>4. SegType
  BY <1>1 DEF SegType
<1>5. LogType
  BY <1>1 DEF LogType
<1>6. \A l \in Lsns : home[l] = 0
  BY <1>1, Zenon
<1> QED
  BY <1>1, <1>2, <1>3, <1>4, <1>5, <1>6, Zenon
     DEF LogInv, DownInv, Down, HomeInv, SegInv, LogOrdered, LocatedInv

-----------------------------------------------------------------------------
(* The files after a crash.                                                *)

\* What has reached the file of the round being written, the files with it,
\* those of them with torn bytes, and the durable records that are not lost.
Written(n) == SubSeq(InWrite, 1, n)
Disk(n) == Appended(Written(n))
Torn(n) == {g \in DOMAIN Disk(n) : ValidPrefix(Disk(n)[g]) # Disk(n)[g]}
Kept(l, n) == home[l] > gen - 2 /\ (Torn(n) = {} \/ \A e \in error : l < e)

LEMMA CrashStep ==
  ASSUME NEW n \in 0 .. RingCap, Crash(n)
  PROVE  /\ n \in 0 .. Len(InWrite) /\ nextLsn' = NextLsn(Disk(n)) /\ nextToFlush' = nextLsn'
         /\ batch' = << >> /\ error' = {} /\ gen' = gen
         /\ seg' = IF Torn(n) \subseteq {gen}
                     THEN [Disk(n) EXCEPT ![gen] = ValidPrefix(@)] ELSE Disk(n)
         /\ pc' = [t \in Threads |-> IF Torn(n) \subseteq {gen} THEN "idle" ELSE "down"]
         /\ lsn' = [t \in Threads |-> 0]
         /\ home' = [l \in Lsns |-> IF l \in Range(Written(n)) /\ Torn(n) = {} THEN gen
                                    ELSE IF Kept(l, n) THEN home[l] ELSE 0]
         /\ acked' = {l \in acked : Kept(l, n)}
BY Zenon DEF Crash, Resume, Disk, Torn, Kept, Appended, Written

\* A part of a round is a run of LSNs from the first untried one on.
LEMMA WrittenFacts ==
  ASSUME LeaderInv, RingInv, LogInv, NEW n \in 0 .. Len(InWrite)
  PROVE  /\ Written(n) \in Seq(0 .. MaxLsn) /\ Len(Written(n)) \in Nat
         /\ \A k \in 1 .. Len(Written(n)) :
              Written(n)[k] = Tried + k - 1 /\ Written(n)[k] \in Lsns
         /\ \A l \in Range(Written(n)) :
              /\ l \in Lsns /\ Tried <= l
              /\ \E k \in 1 .. Len(Written(n)) : l = Written(n)[k]
         /\ Down => Len(Written(n)) = 0
<1> DEFINE b == Written(n)
<1>1. CASE \E w \in Writers : pc[w] = "collect" /\ BatchFull(w)
  <2>1. PICK w \in Writers : pc[w] = "collect"
    BY <1>1, Zenon
  <2>2. InWrite = batch
    BY <1>1, Zenon DEF InWrite
  <2>3. /\ batch \in Seq(0 .. MaxLsn) /\ Len(batch) \in Nat /\ Tried \in Nat \ {0}
        /\ \A k \in 1 .. Len(batch) : batch[k] = Tried + k - 1 /\ batch[k] \in Lsns
    BY <2>1, Round, Zenon
  <2>4. b \in Seq(0 .. MaxLsn) /\ Len(b) = n /\ \A k \in 1 .. n : b[k] = batch[k]
    <3>1. n \in 0 .. Len(batch)
      BY <2>2, Zenon
    <3> QED
      BY <2>2, <2>3, <3>1, Prefix, Zenon DEF Written
  <2> HIDE DEF b
  <2>5. n \in Nat /\ \A k \in 1 .. n : k \in 1 .. Len(batch) /\ Tried <= Tried + k - 1
    BY <2>2, <2>3
  <2>6. \A k \in 1 .. n : b[k] = Tried + k - 1 /\ b[k] \in Lsns /\ Tried <= b[k]
    BY <2>3, <2>4, <2>5, Zenon
  <2>7. DOMAIN b = 1 .. n
    BY <2>4, Elements, Zenon
  <2>8. ~Down
    BY <2>1, Zenon DEF LogInv, DownInv
  <2> QED
    BY <2>4, <2>5, <2>6, <2>7, <2>8, Zenon DEF b, Range
<1>2. CASE ~ \E w \in Writers : pc[w] = "collect" /\ BatchFull(w)
  <2>1. InWrite = << >>
    BY <1>2, Zenon DEF InWrite
  <2>2. ASSUME NEW m \in 0 .. Len(<< >>)
        PROVE  SubSeq(<< >>, 1, m) = << >>
    OBVIOUS
  <2>3. b = << >>
    BY <2>1, <2>2, Zenon DEF Written
  <2>4. Len(<< >>) = 0 /\ 0 \in Nat /\ (\A S : << >> \in Seq(S)) /\ \A k \in 1 .. 0 : k # k
    OBVIOUS
  <2>5. \A l \in Range(b) : l # l
    <3>1. DOMAIN << >> = 1 .. 0
      OBVIOUS
    <3> QED
      BY <2>3, <2>4, <3>1, Zenon DEF Range
  <2> QED
    BY <2>3, <2>4, <2>5, Zenon
<1> QED
  BY <1>1, <1>2, Zenon

LEMMA DiskOrdered ==
  ASSUME LeaderInv, RingInv, LogInv, NEW n \in 0 .. Len(InWrite)
  PROVE  /\ Disk(n) \in [DOMAIN seg -> Seq(0 .. MaxLsn)] /\ Ordered(Disk(n))
         /\ gen \in Nat /\ DOMAIN seg \in SUBSET (0 .. gen)
<1> DEFINE b == Written(n)
<1>1. /\ b \in Seq(0 .. MaxLsn) /\ Len(b) \in Nat
      /\ \A k \in 1 .. Len(b) : b[k] = Tried + k - 1 /\ b[k] \in Lsns
      /\ Down => Len(b) = 0
  BY WrittenFacts, Zenon
<1>2. SegType /\ LogOrdered /\ SegInv
  BY Zenon DEF LogInv
<1>3. Disk(n) \in [DOMAIN seg -> Seq(0 .. MaxLsn)]
  BY <1>1, <1>2, AppendedFacts, Zenon DEF Disk
<1>4. gen \in Nat /\ DOMAIN seg \in SUBSET (0 .. gen)
  BY <1>2 DEF SegType
<1>5. CASE Down
  <2>1. \A s \in Seq(0 .. MaxLsn) : s \o << >> = s
    <3> DEFINE S == 0 .. MaxLsn
    <3> HIDE DEF S
    <3>1. \A s \in Seq(S) : s \o << >> = s
      OBVIOUS
    <3> QED
      BY <3>1, Zenon DEF S
  <2>2. \A s \in Seq(0 .. MaxLsn) : Len(s) = 0 => s = << >>
    OBVIOUS
  <2>3. b = << >>
    BY <1>1, <1>5, <2>2, Zenon
  <2>4. seg[gen] \o << >> = seg[gen]
    BY <1>2, <2>1, SegElement, Zenon DEF SegType
  <2>5. Disk(n) = [seg EXCEPT ![gen] = seg[gen]]
    BY <2>3, <2>4, Zenon DEF Disk, Appended
  <2>6. Disk(n) = seg
    BY <1>2, <2>5 DEF SegType
  <2> QED
    BY <1>2, <1>3, <1>4, <2>6, OrderedNow, Zenon
<1>6. CASE ~Down
  <2>1. TypeInv /\ Tried \in Int
    BY PastFacts, Zenon DEF RingInv
  <2>2. \A k \in 1 .. Len(b) : Tried <= b[k]
    <3>1. \A k \in 1 .. Len(b) : Tried <= Tried + k - 1
      BY <1>1, <2>1
    <3> QED
      BY <1>1, <3>1, Zenon
  <2>3. \A j, k \in 1 .. Len(b) : j < k => b[j] < b[k]
    <3>1. \A j, k \in 1 .. Len(b) : j < k => Tried + j - 1 < Tried + k - 1
      BY <1>1, <2>1
    <3> QED
      BY <1>1, <3>1, Zenon
  <2>4. Ordered(Appended(b))
    BY <1>1, <1>2, <1>6, <2>1, <2>2, <2>3, AppendedOrdered, Zenon DEF SegInv
  <2> QED
    BY <1>3, <1>4, <2>4, Zenon DEF Disk
<1> QED
  BY <1>5, <1>6, Zenon

=============================================================================
