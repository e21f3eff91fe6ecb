---------------------------- MODULE WalTheorems -----------------------------
(***************************************************************************)
(* What the constructor of Wal keeps after a crash, and the refinement of  *)
(* DurableLog.  Then what holds of every behaviour: for any number of      *)
(* callers that the ring has room for, any faults, rotations and crashes.  *)
(***************************************************************************)
EXTENDS WalLogProofs, FiniteSetTheorems

-----------------------------------------------------------------------------
(* The records a crash leaves.                                             *)

\* The record is in the file before any torn bytes, ...
Whole(l, s) == \E i \in DOMAIN s : s[i] = l /\ \A j \in 1 .. i : s[j] # 0

\* ... on disk after the crash.
Found(l, g, n) == g \in DOMAIN seg /\ Whole(l, Disk(n)[g])

\* The records that are kept are found, in the segment they were written to.
LEMMA KeptFound ==
  ASSUME WellOrdered, LeaderInv, RingInv, LogInv, NEW n \in 0 .. Len(InWrite),
         NEW l \in Lsns, home[l] # 0, Kept(l, n)
  PROVE  Found(l, home[l], n)
<1> DEFINE g == home[l]
<1>1. SegType /\ Located(l)
  BY Zenon DEF LogInv, LocatedInv, Kept
<1>2. PICK i \in DOMAIN seg[g] : /\ seg[g][i] = l
                                 /\ (\A e \in error : l < e) => \A j \in 1 .. i : seg[g][j] # 0
  BY <1>1, Zenon DEF Located
<1>3. g \in DOMAIN seg
  BY <1>1, Zenon DEF Located
<1> HIDE DEF g
<1>4. /\ Written(n) \in Seq(0 .. MaxLsn)
      /\ \A j \in DOMAIN seg[g] : j \in DOMAIN Disk(n)[g] /\ Disk(n)[g][j] = seg[g][j]
  BY <1>1, <1>3, WrittenFacts, AppendedFacts, Zenon DEF Disk
<1>5. \A j \in 1 .. i : j \in DOMAIN seg[g]
  <2>1. DOMAIN seg[g] = 1 .. Len(seg[g]) /\ Len(seg[g]) \in Nat
    BY <1>1, <1>3, SegElement, Zenon
  <2>2. \A x \in 1 .. Len(seg[g]) : \A j \in 1 .. x : j \in 1 .. Len(seg[g])
    BY <2>1
  <2> QED
    BY <2>1, <2>2, Zenon
<1>6. ASSUME Torn(n) = {}, NEW j \in 1 .. i PROVE Disk(n)[g][j] # 0
  <2>1. Disk(n) \in [DOMAIN seg -> Seq(0 .. MaxLsn)]
    BY DiskOrdered, Zenon
  <2>2. Disk(n)[g] \in Seq(0 .. MaxLsn) /\ ValidPrefix(Disk(n)[g]) = Disk(n)[g]
    BY <1>3, <1>6, <2>1, Zenon DEF Torn
  <2>3. DOMAIN Disk(n)[g] = 1 .. Len(Disk(n)[g])
    BY <2>2, Elements, Zenon
  <2>4. \A k \in 1 .. Len(Disk(n)[g]) : Disk(n)[g][k] # 0
    BY <2>2, ValidLength, Zenon
  <2> QED
    BY <1>4, <1>5, <2>3, <2>4, Zenon
<1>7. \A j \in 1 .. i : Disk(n)[g][j] # 0
  BY <1>2, <1>4, <1>5, <1>6, Zenon DEF Kept
<1>8. i \in DOMAIN Disk(n)[g] /\ Disk(n)[g][i] = l
  BY <1>2, <1>4, Zenon
<1>9. Found(l, g, n)
  BY <1>3, <1>7, <1>8, Zenon DEF Found, Whole
<1> QED
  BY <1>9, Zenon DEF g

\* So are those of the round being written, when nothing is torn.
LEMMA NewFound ==
  ASSUME WellOrdered, LeaderInv, RingInv, LogInv, NEW n \in 0 .. Len(InWrite),
         NEW l \in Range(Written(n)), Torn(n) = {}
  PROVE  Found(l, gen, n)
<1> DEFINE b == Written(n)
<1>1. SegType /\ gen \in DOMAIN seg /\ b \in Seq(0 .. MaxLsn) /\ Len(b) \in Nat
  BY WrittenFacts, Zenon DEF LogInv, SegType
<1>2. PICK k \in 1 .. Len(b) : l = b[k]
  BY WrittenFacts, Zenon
<1> HIDE DEF b
<1> DEFINE i == Len(seg[gen]) + k
<1>3. /\ DOMAIN Disk(n)[gen] = 1 .. Len(seg[gen]) + Len(b)
      /\ Disk(n)[gen][i] = l
  BY <1>1, <1>2, AppendedFacts, Zenon DEF Disk, b
<1>4. Len(seg[gen]) \in Nat
  BY <1>1, SegElement, Zenon
<1>5. i \in DOMAIN Disk(n)[gen]
  <2>1. i \in 1 .. Len(seg[gen]) + Len(b)
    BY <1>1, <1>4
  <2> QED
    BY <1>3, <2>1, Zenon
<1> HIDE DEF i
<1>6. Disk(n) \in [DOMAIN seg -> Seq(0 .. MaxLsn)]
  BY DiskOrdered, Zenon
<1>7. Disk(n)[gen] \in Seq(0 .. MaxLsn) /\ ValidPrefix(Disk(n)[gen]) = Disk(n)[gen]
  BY <1>1, <1>6, Zenon DEF Torn
<1>8. \A j \in 1 .. Len(Disk(n)[gen]) : Disk(n)[gen][j] # 0
  BY <1>7, ValidLength, Zenon
<1>9. \A j \in 1 .. i : j \in 1 .. Len(Disk(n)[gen])
  <2>1. DOMAIN Disk(n)[gen] = 1 .. Len(Disk(n)[gen]) /\ Len(Disk(n)[gen]) \in Nat
    BY <1>7, Elements, Zenon
  <2>2. \A x \in 1 .. Len(Disk(n)[gen]) : \A j \in 1 .. x : j \in 1 .. Len(Disk(n)[gen])
    BY <2>1
  <2> QED
    BY <1>5, <2>1, <2>2, Zenon
<1> QED
  BY <1>1, <1>3, <1>5, <1>8, <1>9, Zenon DEF Found, Whole

\* The constructor keeps of each segment its valid part, or all.
LEMMA CrashSeg ==
  ASSUME WellOrdered, LeaderInv, RingInv, LogInv, NEW n \in 0 .. RingCap, Crash(n),
         NEW g \in DOMAIN seg
  PROVE  LET d == Disk(n)[g]
             v == Len(ValidPrefix(d))
         IN /\ seg'[g] \in Seq(0 .. MaxLsn)
            /\ \A i \in DOMAIN seg'[g] : i \in DOMAIN d /\ seg'[g][i] = d[i]
            /\ \A i \in 1 .. v : i \in DOMAIN seg'[g]
            /\ Torn(n) \subseteq {gen} =>
                 \A i \in DOMAIN seg'[g] : i \in 1 .. v /\ seg'[g][i] # 0
<1> DEFINE d == Disk(n)[g]
           p == ValidPrefix(d)
<1>1. Disk(n) \in [DOMAIN seg -> Seq(0 .. MaxLsn)] /\ gen \in DOMAIN seg
  BY CrashStep, DiskOrdered, Zenon DEF LogInv, SegType
<1>2. d \in Seq(0 .. MaxLsn)
  BY <1>1, Zenon
<1>3. seg'[g] = IF g = gen /\ Torn(n) \subseteq {gen} THEN p ELSE d
  <2>1. seg' = IF Torn(n) \subseteq {gen}
                 THEN [Disk(n) EXCEPT ![gen] = ValidPrefix(@)] ELSE Disk(n)
    BY CrashStep, Zenon
  <2> QED
    BY <1>1, <2>1, Zenon
<1>4. g # gen /\ Torn(n) \subseteq {gen} => p = d
  BY <1>1, Zenon DEF Torn
<1> HIDE DEF d, p
<1>5. /\ p \in Seq(0 .. MaxLsn) /\ Len(p) \in 0 .. Len(d)
      /\ \A i \in 1 .. Len(p) : p[i] = d[i] /\ d[i] # 0
  BY <1>2, ValidLength, Zenon DEF p
<1>6. /\ DOMAIN d = 1 .. Len(d) /\ Len(d) \in Nat
      /\ DOMAIN p = 1 .. Len(p) /\ Len(p) \in Nat
  BY <1>2, <1>5, Elements, Zenon
<1>7. \A i \in 1 .. Len(p) : i \in 1 .. Len(d)
  BY <1>5, <1>6
<1> QED
  BY <1>2, <1>3, <1>4, <1>5, <1>6, <1>7, Zenon DEF d, p

\* A record that is found is older than those to come.
LEMMA FoundValid ==
  ASSUME WellOrdered, LeaderInv, RingInv, LogInv, NEW n \in 0 .. RingCap, Crash(n),
         NEW l \in Lsns, NEW g \in DOMAIN seg, Found(l, g, n)
  PROVE  /\ l < nextLsn'
         /\ Whole(l, seg'[g])
<1> DEFINE d == Disk(n)[g]
           v == Len(ValidPrefix(d))
<1>1. /\ n \in 0 .. Len(InWrite) /\ nextLsn' = NextLsn(Disk(n)) /\ g \in DOMAIN seg
  BY CrashStep, Zenon DEF Found
<1>2. /\ Disk(n) \in [DOMAIN seg -> Seq(0 .. MaxLsn)] /\ Ordered(Disk(n))
      /\ gen \in Nat /\ DOMAIN seg \in SUBSET (0 .. gen)
  BY <1>1, DiskOrdered, Zenon
<1>3. d \in Seq(0 .. MaxLsn)
  BY <1>1, <1>2, Zenon
<1>4. PICK i \in DOMAIN d : d[i] = l /\ \A j \in 1 .. i : d[j] # 0
  BY Zenon DEF Found, Whole
<1>5. /\ \A j \in 1 .. v : j \in DOMAIN seg'[g]
      /\ \A j \in DOMAIN seg'[g] : seg'[g][j] = d[j]
  BY <1>1, CrashSeg, Zenon
<1>6. \A h \in DOMAIN seg : \A j \in 1 .. Len(ValidPrefix(Disk(n)[h])) :
        Disk(n)[h][j] < NextLsn(Disk(n))
  BY <1>2, NextLsnBound, Zenon
<1>7. \A j \in 1 .. v : d[j] < nextLsn'
  BY <1>1, <1>6, Zenon
<1> HIDE DEF d
<1>8. v \in 0 .. Len(d) /\ i <= v
  <2>1. i \in 1 .. Len(d)
    BY <1>3, Elements, Zenon
  <2> QED
    BY <1>3, <1>4, <2>1, ValidLength, Zenon
<1>9. i \in 1 .. v /\ \A j \in 1 .. i : j \in 1 .. v
  <2>1. Len(d) \in Nat /\ i \in 1 .. Len(d)
    BY <1>3, Elements, Zenon
  <2> HIDE DEF v
  <2> QED
    BY <1>8, <2>1
<1> HIDE DEF v
<1>10. i \in DOMAIN seg'[g] /\ seg'[g][i] = l /\ \A j \in 1 .. i : seg'[g][j] # 0
  BY <1>4, <1>5, <1>9, Zenon
<1> QED
  BY <1>1, <1>4, <1>7, <1>9, <1>10, Zenon DEF Whole

\* Where the history has a record after a crash, and where it had it before.
LEMMA CrashHome ==
  ASSUME WellOrdered, LeaderInv, RingInv, LogInv, NEW n \in 0 .. RingCap, Crash(n),
         NEW l \in Lsns, home'[l] # 0
  PROVE  /\ Found(l, home'[l], n)
         /\ \/ l \in Range(Written(n)) /\ home'[l] = gen /\ Tried <= l
            \/ home'[l] = home[l] /\ Kept(l, n)
<1>1. n \in 0 .. Len(InWrite)
  BY CrashStep, Zenon
<1>2. home'[l] = IF l \in Range(Written(n)) /\ Torn(n) = {} THEN gen
                 ELSE IF Kept(l, n) THEN home[l] ELSE 0
  BY CrashStep, Zenon
<1>3. CASE l \in Range(Written(n)) /\ Torn(n) = {}
  BY <1>1, <1>2, <1>3, NewFound, WrittenFacts, Zenon
<1>4. CASE ~(l \in Range(Written(n)) /\ Torn(n) = {})
  <2>1. home'[l] = home[l] /\ Kept(l, n)
    BY <1>2, <1>4, Zenon
  <2> QED
    BY <1>1, <2>1, KeptFound, Zenon
<1> QED
  BY <1>3, <1>4, Zenon

\* The log is in order after a crash, and has what it had.
LEMMA CrashLog ==
  ASSUME WellOrdered, LeaderInv, RingInv, LogInv, NEW n \in 0 .. RingCap, Crash(n)
  PROVE  LogInv' /\ nextLsn' \in 1 .. MaxLsn + 1
<1>1. /\ n \in 0 .. Len(InWrite) /\ nextLsn' = NextLsn(Disk(n)) /\ nextToFlush' = nextLsn'
      /\ batch' = << >> /\ error' = {} /\ gen' = gen
  BY CrashStep, Zenon
<1>2. /\ Disk(n) \in [DOMAIN seg -> Seq(0 .. MaxLsn)] /\ Ordered(Disk(n))
      /\ gen \in Nat /\ DOMAIN seg \in SUBSET (0 .. gen)
  BY <1>1, DiskOrdered, Zenon
<1>3. /\ NextLsn(Disk(n)) \in 1 .. MaxLsn + 1
      /\ \A g \in DOMAIN seg : \A i \in 1 .. Len(ValidPrefix(Disk(n)[g])) :
           Disk(n)[g][i] < NextLsn(Disk(n))
  BY <1>2, NextLsnBound, Zenon
<1>4. SegType /\ HomeInv /\ LogType
  BY Zenon DEF LogInv
<1>5. gen \in DOMAIN seg /\ gen # 0
  BY <1>4, Zenon DEF SegType
<1>6. Tried' = nextLsn'
  <2>1. \A x \in 1 .. MaxLsn + 1 : x - 0 = x
    OBVIOUS
  <2>2. Len(<< >>) = 0
    OBVIOUS
  <2> QED
    BY <1>1, <1>3, <2>1, <2>2, Zenon DEF Tried, Past
<1>7. seg' = IF Torn(n) \subseteq {gen}
               THEN [Disk(n) EXCEPT ![gen] = ValidPrefix(@)] ELSE Disk(n)
  BY CrashStep, Zenon
<1>8. DOMAIN seg' = DOMAIN seg /\ \A g \in DOMAIN seg : seg'[g] \in Seq(0 .. MaxLsn)
  BY <1>2, <1>7, CrashSeg, Zenon
<1>9. SegType'
  <2>1. seg' \in [DOMAIN seg -> Seq(0 .. MaxLsn)]
    <3>1. seg' = [g \in DOMAIN seg |-> seg'[g]]
      BY <1>2, <1>5, <1>7, Zenon
    <3> QED
      BY <1>8, <3>1, Zenon
  <2> QED
    BY <1>1, <1>4, <1>8, <2>1, Zenon DEF SegType
<1>10. home' = [l \in Lsns |-> IF l \in Range(Written(n)) /\ Torn(n) = {} THEN gen
                               ELSE IF Kept(l, n) THEN home[l] ELSE 0]
  BY CrashStep, Zenon
<1>11. acked' = {l \in acked : Kept(l, n)}
  BY CrashStep, Zenon
<1>12. LogType'
  <2>1. 0 \in 0 .. gen /\ gen \in 0 .. gen
    BY <1>2
  <2>2. ASSUME NEW l \in Lsns PROVE home'[l] \in 0 .. gen
    <3>1. home[l] \in 0 .. gen
      BY <1>4, Zenon DEF LogType
    <3> QED
      BY <1>10, <2>1, <3>1, Zenon
  <2>3. home' \in [Lsns -> 0 .. gen]
    BY <1>10, <2>2, Zenon
  <2> QED
    BY <1>1, <1>4, <1>11, <2>3, Zenon DEF LogType
<1>13. pc' = [t \in Threads |-> IF Torn(n) \subseteq {gen} THEN "idle" ELSE "down"]
  BY CrashStep, Zenon
<1>14. (Down' <=> ~(Torn(n) \subseteq {gen})) /\ \A w \in Writers : pc'[w] = "down" <=> Down'
  BY <1>13, Zenon DEF Down, Threads
<1>15. DownInv'
  <2>1. ASSUME Down'
        PROVE  \E g \in DOMAIN seg' \ {gen} : \E i \in DOMAIN seg'[g] : seg'[g][i] = 0
    <3>1. PICK g \in DOMAIN seg \ {gen} : ValidPrefix(Disk(n)[g]) # Disk(n)[g]
      BY <1>2, <1>14, <2>1, Zenon DEF Torn
    <3>2. seg'[g] = Disk(n)[g] /\ Disk(n)[g] \in Seq(0 .. MaxLsn)
      BY <1>2, <1>7, <1>14, <2>1, Zenon
    <3>3. \E i \in 1 .. Len(Disk(n)[g]) : Disk(n)[g][i] = 0
      BY <3>1, <3>2, ValidLength, Zenon
    <3>4. DOMAIN Disk(n)[g] = 1 .. Len(Disk(n)[g])
      BY <3>2, Elements, Zenon
    <3>5. \E i \in DOMAIN seg'[g] : seg'[g][i] = 0
      BY <3>2, <3>3, <3>4, Zenon
    <3> QED
      BY <1>8, <3>5, Zenon
  <2> QED
    BY <1>1, <1>14, <2>1, Zenon DEF DownInv
<1>16. ASSUME NEW l \in Lsns, home'[l] # 0
       PROVE  /\ l < nextLsn' /\ home'[l] \in DOMAIN seg
              /\ Whole(l, seg'[home'[l]])
  <2> DEFINE g == home'[l]
  <2>1. Found(l, g, n) /\ g \in DOMAIN seg
    BY <1>16, CrashHome, Zenon DEF Found
  <2> HIDE DEF g
  <2>2. /\ l < nextLsn'
        /\ Whole(l, seg'[g])
    BY <2>1, FoundValid, Zenon
  <2> QED
    BY <2>1, <2>2, Zenon DEF g
<1>17. ASSUME NEW l \in Lsns, NEW m \in Lsns, home'[l] # 0, home'[m] # 0, l < m
       PROVE  home'[l] <= home'[m]
  <2>1. home[l] \in 0 .. gen /\ home'[l] \in 0 .. gen
    BY <1>1, <1>4, <1>12, Zenon DEF LogType
  <2>2. CASE home'[m] = gen
    BY <1>2, <2>1, <2>2
  <2>3. CASE home'[m] = home[m] /\ home'[l] = home[l]
    BY <1>4, <1>17, <2>3, Zenon DEF HomeInv
  <2>4. CASE home'[m] = home[m] /\ Tried <= l
    <3>1. m < Tried
      BY <1>4, <1>17, <2>4, Zenon DEF HomeInv
    <3>2. Tried \in Int
      BY PastFacts, Zenon DEF RingInv
    <3> QED
      BY <1>17, <2>4, <3>1, <3>2 DEF Lsns
  <2> QED
    BY <1>17, <2>2, <2>3, <2>4, CrashHome, Zenon
<1>18. HomeInv'
  <2>1. ASSUME NEW l \in acked' PROVE home'[l] # 0
    <3>1. l \in Lsns /\ Kept(l, n) /\ home[l] # 0
      BY <1>4, <1>11, Zenon DEF HomeInv, LogType
    <3> QED
      BY <1>5, <1>10, <3>1, Zenon
  <2>2. \A w \in Writers : lsn'[w] = 0
    BY CrashStep, Zenon DEF Threads
  <2> QED
    BY <1>1, <1>6, <1>16, <1>17, <2>1, <2>2, Zenon DEF HomeInv
<1>19. SegInv'
  <2>1. ASSUME Torn(n) \subseteq {gen}, NEW g \in DOMAIN seg, NEW i \in DOMAIN seg'[g]
        PROVE  seg'[g][i] < Tried' /\ seg'[g][i] # 0
    <3>1. i \in 1 .. Len(ValidPrefix(Disk(n)[g])) /\ seg'[g][i] # 0 /\ seg'[g][i] = Disk(n)[g][i]
      BY <2>1, CrashSeg, Zenon
    <3> QED
      BY <1>1, <1>3, <1>6, <3>1, Zenon
  <2> QED
    BY <1>8, <1>14, <2>1, Zenon DEF SegInv
<1>20. LogOrdered'
  <2>1. ASSUME NEW g \in DOMAIN seg', NEW i \in DOMAIN seg'[g]
        PROVE  g \in DOMAIN Disk(n) /\ i \in DOMAIN Disk(n)[g] /\ seg'[g][i] = Disk(n)[g][i]
    <3>1. g \in DOMAIN seg
      BY <1>8, Zenon
    <3>2. i \in DOMAIN Disk(n)[g] /\ seg'[g][i] = Disk(n)[g][i]
      BY <3>1, CrashSeg, Zenon
    <3> QED
      BY <1>2, <3>1, <3>2, Zenon
  <2> DEFINE d == Disk(n)
  <2>2. Ordered(d)
    BY <1>2, Zenon
  <2> HIDE DEF d
  <2>3. ASSUME NEW g \in DOMAIN seg', NEW h \in DOMAIN seg',
               NEW i \in DOMAIN seg'[g], NEW j \in DOMAIN seg'[h],
               g < h \/ (g = h /\ i < j), seg'[h][j] # 0
        PROVE  seg'[g][i] < seg'[h][j]
    <3>1. g \in DOMAIN d /\ i \in DOMAIN d[g] /\ seg'[g][i] = d[g][i]
      BY <2>1, Zenon DEF d
    <3>2. h \in DOMAIN d /\ j \in DOMAIN d[h] /\ seg'[h][j] = d[h][j]
      BY <2>1, Zenon DEF d
    <3> QED
      BY <2>2, <2>3, <3>1, <3>2, Zenon DEF Ordered
  <2>4. Ordered(seg')
    BY <2>3, Zenon DEF Ordered
  <2> QED
    BY <2>4, OrderedNext, Zenon
<1>21. LocatedInv'
  <2>1. ASSUME NEW l \in Lsns, home'[l] # 0 PROVE Located(l)'
    <3>1. PICK i \in DOMAIN seg'[home'[l]] :
            seg'[home'[l]][i] = l /\ \A j \in 1 .. i : seg'[home'[l]][j] # 0
      BY <1>16, <2>1, Zenon DEF Whole
    <3>2. home'[l] \in DOMAIN seg'
      BY <1>8, <1>16, <2>1, Zenon
    <3> QED
      BY <3>1, <3>2, Zenon DEF Located
  <2> QED
    BY <2>1, Zenon DEF LocatedInv
<1> QED
  BY <1>1, <1>3, <1>9, <1>12, <1>15, <1>18, <1>19, <1>20, <1>21, Zenon DEF LogInv

-----------------------------------------------------------------------------
(* The steps of DurableLog.                                                *)

Durable == {l \in Lsns : home[l] # 0}

LEMMA PromiseInit == Init => Promise!Init
BY Zenon DEF Init, Promise!Init

\* A step that fails records that are not durable.
LEMMA FailStep ==
  ASSUME LogInv', UNCHANGED <<home, acked>>, NEW S \in SUBSET Lsns, error' = error \cup S
  PROVE  Promise!Next
<1>1. \A l \in Lsns : home[l] # 0 => l \notin S
  BY Zenon DEF LogInv, HomeInv
<1>2. Promise!Fail(S)
  BY <1>1, Zenon DEF Promise!Fail
<1> QED
  BY <1>2, Zenon DEF Promise!Next

\* A round of group commit.
LEMMA CommitStep ==
  ASSUME LeaderInv, RingInv, LogInv, NEW w \in Writers, WriteBatch(w) PROVE Promise!Next
<1>1. /\ pc[w] = "collect" /\ batch # << >> /\ UNCHANGED <<error, acked>>
      /\ home' = [l \in Lsns |-> IF l \in Range(batch) THEN gen ELSE home[l]]
  BY Zenon DEF WriteBatch, ringVars
<1>2. /\ batch \in Seq(Lsns) /\ Tried \in Nat \ {0} /\ Range(batch) \subseteq Lsns
      /\ \A l \in Lsns : l \in Range(batch) <=> Tried <= l /\ l < nextToFlush
  BY <1>1, Round, Zenon
<1>3. HomeInv /\ LogType /\ gen # 0
  BY Zenon DEF LogInv, SegType
<1>4. Range(batch) # {}
  <2>1. \A s \in Seq(Lsns) : s # << >> => 1 \in DOMAIN s
    OBVIOUS
  <2> QED
    BY <1>1, <1>2, <2>1, Zenon DEF Range
<1>5. \A l, d \in Lsns : Tried <= l /\ d < Tried => d < l /\ l # d
  BY <1>2 DEF Lsns
<1>6. \A l \in Range(batch) : \A d \in Lsns : home[d] # 0 \/ d \in error => d < l /\ l # d
  BY <1>2, <1>3, <1>5, Zenon DEF HomeInv
<1>7. Range(batch) \cap (Durable \cup error) = {}
  BY <1>2, <1>3, <1>6, Zenon DEF Durable, LogType
<1>8. Durable' = Durable \cup Range(batch)
  BY <1>1, <1>2, <1>3, Zenon DEF Durable
<1>9. PICK S \in SUBSET Lsns : S = Range(batch)
  BY <1>2, Zenon
<1>10. Promise!Commit(S)
  BY <1>1, <1>4, <1>6, <1>7, <1>8, <1>9, Zenon DEF Promise!Commit, Durable
<1> QED
  BY <1>10, Zenon DEF Promise!Next

\* The answer to a caller.
LEMMA AckStep ==
  ASSUME RingInv, LogInv, NEW w \in Writers, Result(w)
  PROVE  Promise!Next \/ UNCHANGED <<home, acked, error>>
<1>1. /\ pc[w] = "result" /\ UNCHANGED <<home, error>>
      /\ acked' = IF lsn[w] \notin error THEN acked \cup {lsn[w]} ELSE acked
  BY Zenon DEF Result, Answer, ringVars
<1>2. CASE lsn[w] \notin error
  <2>1. lsn[w] \in Lsns /\ home[lsn[w]] # 0
    BY <1>1, <1>2, ResultDurable, Zenon
  <2>2. Promise!Ack(lsn[w])
    BY <1>1, <1>2, <2>1, Zenon DEF Promise!Ack
  <2> QED
    BY <2>1, <2>2, Zenon DEF Promise!Next
<1> QED
  BY <1>1, <1>2, Zenon

\* Every step but a crash.
LEMMA PromiseStep ==
  ASSUME LeaderInv, RingInv, LogInv, LogInv', [Next]_vars, \A n \in 0 .. RingCap : ~Crash(n)
  PROVE  Promise!Next \/ UNCHANGED <<home, acked, error>>
<1>1. ASSUME NEW w \in Writers, CheckPoisoned(w) \/ AppendStep(w)
      PROVE  Promise!Next \/ UNCHANGED <<home, acked, error>>
  <2>1. CASE WriteFails(w)
    <3>1. pc[w] = "collect" /\ UNCHANGED <<home, acked>> /\ error' = error \cup Range(batch)
      BY <2>1, Zenon DEF WriteFails, histVars
    <3>2. Range(batch) \in SUBSET Lsns
      BY <3>1, Round, Zenon
    <3> QED
      BY <3>1, <3>2, FailStep, Zenon
  <2>2. CASE \/ CheckPoisoned(w) \/ FetchAdd(w) \/ Publish(w) \/ Elect(w) \/ Wake(w)
             \/ TimeOut(w) \/ StartDrain(w) \/ Collect(w) \/ Settle(w) \/ Retire(w)
             \/ Release(w) \/ Recheck(w) \/ Reclaim(w)
    BY <2>2, Zenon DEF CheckPoisoned, FetchAdd, Publish, Elect, Wake, TimeOut, StartDrain,
       Collect, Settle, Retire, Release, Recheck, Reclaim, ringVars, histVars
  <2> QED
    BY <1>1, <2>1, <2>2, CommitStep, AckStep, NoWriterSweeps, Zenon DEF AppendStep
<1>2. CASE RotateCheck \/ RotateStep
  <2>1. CASE SweepRecord(Rotator)
    <3> DEFINE S == {ring[Slot(nextToFlush)]}
    <3>1. UNCHANGED <<home, acked>> /\ error' = error \cup S
      BY <2>1, Zenon DEF SweepRecord, histVars
    <3>2. S \in SUBSET Lsns
      BY <3>1, Zenon DEF LogInv, LogType
    <3> QED
      BY <3>1, <3>2, FailStep, Zenon
  <2>2. CASE \/ RotateCheck \/ RotateElect \/ OpenSegment \/ OpenFails \/ Unlink
             \/ FailAll(Rotator) \/ SweepAgain(Rotator) \/ SettleAll(Rotator)
    BY <2>2, Zenon DEF RotateCheck, RotateElect, OpenSegment, OpenFails, Unlink, FailAll,
       SweepAgain, SettleAll, ringVars, histVars
  <2>3. CASE Throw(Rotator)
    BY <2>3, ThreadsAssumption, Zenon DEF Throw, ringVars
  <2> QED
    BY <1>2, <2>1, <2>2, <2>3, Zenon DEF RotateStep, FailAllStep
<1>3. CASE UNCHANGED vars
  BY <1>3, Zenon DEF vars, ringVars, histVars
<1> QED
  BY <1>1, <1>2, <1>3, Zenon DEF Next

\* Where the log begins after a crash: durable records from there on are in
\* segments that are not deleted.
LEMMA FirstKept ==
  ASSUME WellOrdered, LogInv
  PROVE  \E first \in Lsns \cup {l + 1 : l \in Lsns} :
           \A d \in Durable : d >= first => home[d] > gen - 2
<1> DEFINE K == {l \in Lsns : home[l] # 0 /\ home[l] > gen - 2}
<1>1. MaxLsn \in Nat \ {0} /\ HomeInv /\ LogType /\ gen \in Nat
  BY BoundsAssumption, Zenon DEF LogInv, SegType
<1>2. CASE K = {}
  <2>1. MaxLsn \in Lsns /\ \A d \in Lsns : ~(d >= MaxLsn + 1)
    BY <1>1 DEF Lsns
  <2> QED
    BY <1>2, <2>1, Zenon DEF Durable
<1>3. CASE K # {}
  <2>1. K \in SUBSET Nat
    BY DEF Lsns
  <2>2. PICK m \in K : \A k \in K : m <= k
    BY <1>3, <2>1, Zenon DEF WellOrdered
  <2>3. ASSUME NEW d \in Durable, d >= m PROVE home[d] > gen - 2
    <3>1. d \in Lsns /\ home[d] # 0 /\ m \in Lsns /\ home[m] # 0 /\ home[m] > gen - 2
      BY Zenon DEF Durable
    <3>2. d = m \/ m < d
      BY <2>3, <3>1 DEF Lsns
    <3>3. CASE m < d
      <4>1. home[m] <= home[d]
        BY <1>1, <3>1, <3>3, Zenon DEF HomeInv
      <4>2. home[m] \in 0 .. gen /\ home[d] \in 0 .. gen
        BY <1>1, <3>1, Zenon DEF LogType
      <4> QED
        BY <1>1, <3>1, <4>1, <4>2
    <3> QED
      BY <3>1, <3>2, <3>3, Zenon
  <2> QED
    BY <2>3, Zenon
<1> QED
  BY <1>2, <1>3, Zenon

\* The constructor after a crash.
LEMMA ReopenStep ==
  ASSUME WellOrdered, LeaderInv, RingInv, LogInv, NEW n \in 0 .. RingCap, Crash(n)
  PROVE  Promise!Next
<1> DEFINE S == IF Torn(n) = {} THEN Range(Written(n)) ELSE {}
           kept == {l \in Durable : Kept(l, n)}
<1>1. PICK first \in Lsns \cup {l + 1 : l \in Lsns} :
        \A d \in Durable : d >= first => home[d] > gen - 2
  BY FirstKept, Zenon
<1>2. /\ n \in 0 .. Len(InWrite) /\ error' = {}
      /\ home' = [l \in Lsns |-> IF l \in Range(Written(n)) /\ Torn(n) = {} THEN gen
                                 ELSE IF Kept(l, n) THEN home[l] ELSE 0]
      /\ acked' = {l \in acked : Kept(l, n)}
  BY CrashStep, Zenon
<1>3. HomeInv /\ LogType /\ gen # 0
  BY Zenon DEF LogInv, SegType
<1>4. S \in SUBSET Lsns /\ \A l \in S : Tried <= l
  BY <1>2, WrittenFacts, Zenon
<1>5. \A l, d \in Lsns : Tried <= l /\ d < Tried => d < l /\ l # d
  <2>1. Tried \in Int
    BY PastFacts, Zenon DEF RingInv
  <2> QED
    BY <2>1 DEF Lsns
<1>6. \A l \in S : \A d \in Lsns : home[d] # 0 \/ d \in error => d < l /\ l # d
  BY <1>3, <1>4, <1>5, Zenon DEF HomeInv
<1>7. S \cap (Durable \cup error) = {}
  BY <1>3, <1>4, <1>6, Zenon DEF Durable, LogType
<1>8. \A l \in Lsns : home'[l] # 0 <=> l \in S \/ (home[l] # 0 /\ Kept(l, n))
  BY <1>2, <1>3, Zenon
<1>9. \A d \in Durable : d >= first /\ (\A f \in error : d < f) => d \in kept
  BY <1>1, Zenon DEF Kept
<1> HIDE DEF S
<1>10. Durable' = kept \cup S
  BY <1>4, <1>8, Zenon DEF Durable
<1>11. acked' = acked \cap Durable'
  <2>1. \A l \in acked : l \in Durable /\ l \notin S
    BY <1>3, <1>7, Zenon DEF HomeInv, LogType, Durable
  <2> QED
    BY <1>2, <1>10, <2>1, Zenon
<1>12. PICK R \in SUBSET Lsns : R = S
  BY <1>4, Zenon
<1>13. Promise!Reopen(first, R)
  <2>1. \A l \in S : \A d \in Durable : d < l
    BY <1>6, Zenon DEF Durable
  <2>2. kept \in SUBSET Durable
    BY Zenon
  <2> HIDE DEF kept
  <2> QED
    BY <1>2, <1>7, <1>9, <1>10, <1>11, <1>12, <2>1, <2>2, Zenon DEF Promise!Reopen, Durable
<1> QED
  BY <1>13, Zenon DEF Promise!Next

-----------------------------------------------------------------------------
(* Every behaviour.                                                        *)

\* There are never more unsettled records than slots.
LEMMA Outstanding ==
  ASSUME TypeInv, OwnerInv PROVE Fits
<1> DEFINE S == Done .. nextLsn - 1
           W == {w \in Writers : lsn[w] \in S}
<1>1. Done \in Int /\ nextLsn \in Int /\ RingCap \in Nat \ {0}
  BY PastFacts, BoundsAssumption DEF TypeInv
<1>2. IsFiniteSet(W) /\ Cardinality(W) <= Cardinality(Writers)
  BY RingAssumption, FS_Subset, Zenon
<1>3. [w \in W |-> lsn[w]] \in Surjection(W, S)
  BY Zenon DEF OwnerInv, Surjection
<1>4. IsFiniteSet(S) /\ Cardinality(S) <= Cardinality(W)
  BY <1>2, <1>3, FS_Surjection, Zenon
<1>5. CASE Done <= nextLsn - 1
  <2>1. Cardinality(S) = nextLsn - 1 - Done + 1
    BY <1>1, <1>5, FS_Interval
  <2>2. Cardinality(W) \in Nat /\ Cardinality(Writers) \in Nat
    BY <1>2, RingAssumption, FS_CardinalityType, Zenon
  <2> QED
    BY <1>1, <1>2, <1>4, <2>1, <2>2, RingAssumption DEF Fits
<1> QED
  BY <1>1, <1>5 DEF Fits

\* A set of numbers that is not empty has a least one.
LEMMA Least == WellOrdered
<1> SUFFICES ASSUME NEW S \in SUBSET Nat, S # {} PROVE \E m \in S : \A k \in S : m <= k
  BY Zenon DEF WellOrdered
<1> DEFINE LT == {ss \in Nat \X Nat : ss[1] < ss[2]}
<1>1. IsWellFoundedOn(LT, Nat)
  BY NatLessThanWellFounded, Zenon DEF OpToRel
<1> HIDE DEF LT
<1>2. PICK m \in S : \A k \in S : ~(<<k, m>> \in LT)
  BY <1>1, WFMin, Zenon
<1>3. ASSUME NEW k \in S PROVE m <= k
  <2>1. k \in Nat /\ m \in Nat
    BY Zenon
  <2>2. ~(k < m)
    BY <1>2, <2>1, Zenon DEF LT
  <2> QED
    BY <2>1, <2>2
<1> QED
  BY <1>3, Zenon

-----------------------------------------------------------------------------
\* Leadership, the ring, and the files: what the log keeps, step by step.
Inv == LeaderInv /\ RingInv /\ LogInv

LEMMA InvInit == Init => Inv
BY LeaderInit, RingInit, LogInit, Zenon DEF Inv

LEMMA InvStep == ASSUME Inv, [Next]_vars PROVE Inv'
<1>1. Fits
  BY Outstanding, Zenon DEF Inv, RingInv
<1>2. CASE \A n \in 0 .. RingCap : ~Crash(n)
  BY <1>1, <1>2, LeaderStep, RingStep, LogStep, Zenon DEF Inv
<1>3. CASE \E n \in 0 .. RingCap : Crash(n)
  BY <1>3, Least, LeaderStep, CrashRing, CrashLog, Zenon DEF Inv
<1> QED
  BY <1>2, <1>3, Zenon

LEMMA InvAlways == Spec => []Inv
BY InvInit, InvStep, PTL DEF Spec

\* A leader that looks for the next record, to write it in collect_batch() or
\* to fail it in fail_all_pending_and_release_leadership(), never meets another
\* one in its slot: the records outstanding fit the ring, so the record a slot's
\* last user had is retired before its next user may publish.  "Slot lsn
\* mismatch" is never thrown, whatever rounds fail, in whatever order the
\* callers publish, and in a log that was opened again.
THEOREM RingMatchesCorrect == Spec => []RingMatches
<1>1. Inv => RingMatches
  <2> SUFFICES ASSUME LeaderInv, RingInv, NEW t \in Threads, LooksUp(t)
               PROVE  ring[Slot(nextToFlush)] \in {0, nextToFlush}
    BY Zenon DEF Inv, RingMatches
  <2>1. Len(batch) < RingCap
    <3>1. CASE pc[t] = "collect" /\ ~BatchFull(t)
      <4>1. Len(batch) \in Nat /\ RingCap \in Nat /\ Len(batch) <= RingCap
        BY BoundsAssumption DEF RingInv, TypeInv, BatchInv
      <4>2. Len(batch) # RingCap
        BY <3>1, Zenon DEF BatchFull
      <4> QED
        BY <4>1, <4>2
    <3>2. CASE pc[t] = "sweep"
      <4>1. pc[t] \in Leading /\ pc[t] \notin Rounds
        BY <3>2, Zenon DEF Leading, Rounds
      <4>2. batch = << >>
        BY <4>1, LeaderAlone, Zenon
      <4> QED
        BY <4>2, BoundsAssumption
    <3> QED
      BY <3>1, <3>2, Zenon DEF LooksUp
  <2> QED
    BY <2>1, Outstanding, NextSlot, Zenon DEF RingInv
<1> QED
  BY InvAlways, <1>1, PTL

\* replay() reads records in LSN order: within a segment and from one to the
\* next, whichever segment a round of write_and_fsync_batch() ended up in when
\* rotate_segment() ran beside it, after failed rounds whose bytes ftruncate()
\* did not remove, and with the numbers the constructor resumed at.
THEOREM LogOrderedCorrect == Spec => []LogOrdered
<1>1. Inv => LogOrdered
  BY Zenon DEF Inv, LogInv
<1> QED
  BY InvAlways, <1>1, PTL

\* A record for which await_durable() returned stays in its segment until two
\* rotations later, and before any torn bytes unless an older record failed:
\* scan_and_validate() keeps it in every later constructor.
THEOREM AckedRecoverableCorrect == Spec => []AckedRecoverable
<1>1. Inv => AckedRecoverable
  <2> SUFFICES ASSUME LogInv, NEW l \in acked, home[l] > gen - 2 PROVE Located(l)
    BY Zenon DEF Inv, AckedRecoverable, Located
  <2> QED
    BY Zenon DEF LogInv, LogType, HomeInv, LocatedInv
<1> QED
  BY InvAlways, <1>1, PTL

\* The log implements DurableLog: a written round is a Commit, a failed or swept
\* one a Fail, a normal return of await_durable() an Ack, the constructor after
\* a crash a Reopen; every other step changes nothing a caller relies on.
THEOREM PromiseCorrect == Spec => PromiseKept
<1>1. ASSUME Inv, Inv', [Next]_vars PROVE Promise!Next \/ UNCHANGED <<home, acked, error>>
  <2>1. CASE \A n \in 0 .. RingCap : ~Crash(n)
    BY <1>1, <2>1, PromiseStep, Zenon DEF Inv
  <2>2. CASE \E n \in 0 .. RingCap : Crash(n)
    BY <1>1, <2>2, Least, ReopenStep, Zenon DEF Inv
  <2> QED
    BY <2>1, <2>2, Zenon
<1>2. ASSUME Inv, Inv', [Next]_vars
      PROVE  [Promise!Next]_<<{l \in Lsns : home[l] # 0}, acked, error>>
  BY <1>1, <1>2, Zenon
<1> QED
  BY InvAlways, PromiseInit, <1>2, PTL DEF Spec, PromiseKept, Promise!Spec

=============================================================================
