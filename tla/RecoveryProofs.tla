--------------------------- MODULE RecoveryProofs ---------------------------
(***************************************************************************)
(* Acknowledged values survive crashes: the proofs about Recovery.         *)
(***************************************************************************)
EXTENDS Recovery, TLAPS

-----------------------------------------------------------------------------
(* The inductive invariant.                                                *)

Records == [key : Keys, val : Nat]
Offsets == 0 .. MaxOffset
Steps == {"idle", "msync", "dump", "rename", "manifest", "fsync", "publish", "rotate", "unlink"}

\* Where the cycle has its T1 file renamed; dumped; T2 synced.
Named == {"manifest", "fsync", "publish", "rotate"}
Dumped == Named \cup {"rename"}
Synced == Dumped \cup {"dump"}

MemType ==
  /\ t1 \in [Keys -> Offsets] /\ used \in Offsets
  /\ stored \in [Keys -> Nat \cup {None}] /\ bulk \in [Keys -> Nat \cup {None}]
  /\ pending \in Seq(Records) /\ puts \in Nat
  /\ target \in Offsets /\ dump \in [Keys -> Offsets] /\ todo \subseteq Keys

DiskType ==
  /\ DOMAIN file = 1 .. MaxOffset /\ synced \in Offsets
  /\ manifest \in Offsets \cup {None} /\ chk \in [Keys -> Offsets]

RegionInv == sorted \in [Keys -> Offsets] /\ frozen \in [Keys -> Offsets \cup {None}]

\* A file that has its name was synced before; a manifest has its T1 file.
FilesInv ==
  /\ used \in Nat /\ target \in Nat /\ synced \in Nat /\ manifest \in Nat \cup {None}
  /\ onDisk \in [Files -> {"none", "whole"}]
  /\ manifest # None => \A f \in Files : onDisk[f] = "whole"
  /\ step \in Named => onDisk["t1"] = "whole"
  /\ step \in {"rename", "publish"} => temp = "synced"
  /\ manifest <= synced
  /\ step \in Synced => target <= synced
  /\ mode # "up" => step = "idle"

Segments(s) ==
  s = [g \in DOMAIN s |-> s[g]] /\ \A g \in DOMAIN s : s[g] \in Seq(Records)

\* The segments on disk: at most two, three while a rotation is under way.
SegType ==
  /\ gen \in Nat /\ gen \in DOMAIN seg
  /\ DOMAIN seg \subseteq IF step = "unlink" THEN gen - 2 .. gen ELSE gen - 1 .. gen
  /\ Segments(seg)

\* Only a store that is up has writers and a checkpoint.
ModeInv ==
  /\ mode \in {"up", "down", "replay"} /\ step \in Steps
  /\ mode # "up" => /\ step = "idle" /\ pending = << >>
                    /\ \A k \in Keys : stored[k] = None /\ bulk[k] = None
  /\ mode = "replay" => manifest <= used
  /\ mode # "replay" => replay = {}

\* What the manifest promises is on disk, and so is what it is going to promise.
SyncInv ==
  /\ manifest <= synced
  /\ step \in Synced => target <= synced
  /\ step \in Named => chk = dump
  /\ step = "rotate" => manifest = target
  /\ step = "unlink" => manifest # None

\* Among the first n records of a key in p there is a last one.
LastIn(p, k, n, i) ==
  i \in 1 .. n /\ p[i].key = k /\ \A j \in 1 .. n : p[j].key = k => j <= i
HasLast(p) ==
  \A k \in Keys : \A n \in 0 .. Len(p) :
    (\E i \in 1 .. n : p[i].key = k) => \E i \in 1 .. n : LastIn(p, k, n, i)
PendingInv == HasLast(pending)

\* No put of the key is in flight.
Waits(p, k) == \E i \in 1 .. Len(p) : p[i].key = k
Waiting(k) == Waits(pending, k)
Quiet(k) == stored[k] = None /\ bulk[k] = None /\ ~Waiting(k)

\* The key has a record in segment g of s, in some segment; its last one says v.
LoggedIn(s, k, g) == g \in DOMAIN s /\ \E i \in DOMAIN s[g] : s[g][i].key = k
Logged(s, k) == \E g \in DOMAIN s : LoggedIn(s, k, g)
LastAt(s, k, g, i) ==
  /\ g \in DOMAIN s /\ i \in DOMAIN s[g] /\ s[g][i].key = k
  /\ \A h \in DOMAIN s : \A j \in DOMAIN s[h] :
       s[h][j].key = k => h < g \/ (h = g /\ j <= i)
LastLogged(s, k, v) ==
  \E g \in DOMAIN s : \E i \in DOMAIN s[g] : LastAt(s, k, g, i) /\ s[g][i].val = v

\* What a get answers is the latest put, whatever its stage.
MemInv(k) ==
  /\ t1[k] <= used
  /\ stored[k] # None => Value(k) = stored[k]
  /\ stored[k] = None =>
       \A i \in 1 .. Len(pending) : LastIn(pending, k, Len(pending), i) => Value(k) = pending[i].val
  /\ stored[k] = None /\ ~Waiting(k) /\ bulk[k] # None => Value(k) = bulk[k]
  /\ Quiet(k) => Value(k) = last[k]

\* The log has the value that was acknowledged last, unless it has none.
LogInv(k) ==
  /\ Logged(seg, k) => LastLogged(seg, k, last[k])
  /\ bulk[k] # None => stored[k] = None /\ ~Waiting(k) /\ ~Logged(seg, k)

\* A key with neither a record in the log nor a put in flight is in the checkpoint.
CoverInv(k) ==
  Quiet(k) /\ ~Logged(seg, k) =>
    IF manifest = None THEN last[k] = 0 ELSE chk[k] = t1[k] /\ t1[k] <= manifest

\* The checkpoint under way has what was put before it and is in no record of
\* the active segment.
CycleInv(k) ==
  /\ Quiet(k) /\ ~LoggedIn(seg, k, gen) =>
       /\ step = "msync" \/ step \in Synced => t1[k] <= target
       /\ step \in Synced /\ k \notin todo => dump[k] = t1[k]
  /\ Quiet(k) /\ ~LoggedIn(seg, k, gen) /\ ~LoggedIn(seg, k, gen - 1) /\ step = "unlink" =>
       chk[k] = t1[k] /\ t1[k] <= manifest
  /\ step \in Dumped => k \notin todo

\* What load_checkpoint_if_present() finds for the key.
CkptValue(k) ==
  IF manifest = None \/ chk[k] = 0 \/ file[chk[k]].key # k THEN 0 ELSE file[chk[k]].val

\* While the store is down, the files say what the key must have.
DownInv(k) ==
  /\ Logged(seg, k) => \E v \in may[k] : LastLogged(seg, k, v)
  /\ ~Logged(seg, k) => CkptValue(k) \in may[k] /\ (manifest # None => chk[k] <= manifest)

\* The record at position p was replayed, and is the key's last one that was.
Key(p) == seg[p[1]][p[2]].key
Played(k, p) ==
  /\ p \in Retained \ replay /\ Key(p) = k
  /\ \A q \in Retained \ replay : Key(q) = k => q = p \/ Before(q, p)

\* A key has the value of its last record that was replayed.
ReplayInv(k) ==
  /\ ~Logged(seg, k) => t1[k] = IF manifest = None THEN 0 ELSE chk[k]
  /\ \A p \in Retained : Played(k, p) => t1[k] <= used /\ Value(k) = seg[p[1]][p[2]].val

OrderInv ==
  /\ replay \subseteq Retained
  /\ \A p \in Retained \ replay, q \in replay : Before(p, q)

UpInv(k) == MemInv(k) /\ LogInv(k) /\ CoverInv(k) /\ CycleInv(k)

KeyInv(k) ==
  /\ mode = "up" => UpInv(k)
  /\ mode # "up" => DownInv(k)
  /\ mode = "replay" => ReplayInv(k)

Inv ==
  /\ MemType /\ DiskType /\ SegType /\ ModeInv /\ SyncInv /\ PendingInv /\ OrderInv
  /\ \A k \in Keys \ risky : KeyInv(k)

-----------------------------------------------------------------------------
(* The log after a step.                                                   *)

LEMMA Concat ==
  ASSUME NEW S, NEW s \in Seq(S), NEW b \in Seq(S)
  PROVE  /\ s \o b \in Seq(S) /\ Len(s \o b) = Len(s) + Len(b)
         /\ DOMAIN (s \o b) = 1 .. Len(s) + Len(b)
         /\ \A i \in 1 .. Len(s) : (s \o b)[i] = s[i]
         /\ \A j \in 1 .. Len(b) : (s \o b)[Len(s) + j] = b[j]
         /\ \A i \in 1 .. Len(s) + Len(b) :
              i \in 1 .. Len(s) \/ \E j \in 1 .. Len(b) : i = Len(s) + j
<1>1. Len(s) \in Nat /\ Len(b) \in Nat
  OBVIOUS
<1>2. ASSUME NEW i \in 1 .. Len(s) + Len(b)
      PROVE  i \in 1 .. Len(s) \/ \E j \in 1 .. Len(b) : i = Len(s) + j
  <2>1. CASE i > Len(s)
    <3>1. i - Len(s) \in 1 .. Len(b) /\ i = Len(s) + (i - Len(s))
      BY <1>1, <2>1
    <3> QED
      BY <3>1, Zenon
  <2> QED
    BY <1>1, <2>1
<1> QED
  BY <1>1, <1>2

LEMMA Elements ==
  ASSUME NEW S, NEW s \in Seq(S)
  PROVE  Len(s) \in Nat /\ DOMAIN s = 1 .. Len(s) /\ \A i \in 1 .. Len(s) : s[i] \in S
OBVIOUS

\* Records appended to segment a.
Appended(s, a, b) == [s EXCEPT ![a] = @ \o b]

LEMMA AppendedFacts ==
  ASSUME NEW s, Segments(s), NEW a \in DOMAIN s,
         NEW b \in Seq(Records)
  PROVE  /\ DOMAIN Appended(s, a, b) = DOMAIN s /\ Segments(Appended(s, a, b))
         /\ \A g \in DOMAIN s \ {a} : Appended(s, a, b)[g] = s[g]
         /\ Appended(s, a, b)[a] = s[a] \o b
<1>1. /\ DOMAIN Appended(s, a, b) = DOMAIN s
      /\ \A g \in DOMAIN s \ {a} : Appended(s, a, b)[g] = s[g]
      /\ Appended(s, a, b)[a] = s[a] \o b
  BY Zenon DEF Appended, Segments
<1>2. s[a] \o b \in Seq(Records)
  BY Concat, Zenon DEF Segments
<1>3. Appended(s, a, b) = [g \in DOMAIN Appended(s, a, b) |-> Appended(s, a, b)[g]]
  BY Zenon DEF Appended
<1> QED
  BY <1>1, <1>2, <1>3, Zenon DEF Segments

\* What is in the log s2 is what was in s, and b behind it in segment a.
Grown(s, s2, a, b) ==
  /\ DOMAIN s2 = DOMAIN s
  /\ \A g \in DOMAIN s : \A i \in DOMAIN s[g] : i \in DOMAIN s2[g] /\ s2[g][i] = s[g][i]
  /\ \A m \in 1 .. Len(b) : Len(s[a]) + m \in DOMAIN s2[a] /\ s2[a][Len(s[a]) + m] = b[m]
  /\ \A g \in DOMAIN s : \A i \in DOMAIN s2[g] :
       i \in DOMAIN s[g] \/ (g = a /\ \E m \in 1 .. Len(b) : i = Len(s[a]) + m)

LEMMA AppendedGrown ==
  ASSUME NEW s, Segments(s), NEW a \in DOMAIN s, NEW b \in Seq(Records)
  PROVE  Grown(s, Appended(s, a, b), a, b)
<1> DEFINE s2 == Appended(s, a, b)
<1>1. /\ DOMAIN s2 = DOMAIN s /\ s2[a] = s[a] \o b
      /\ \A g \in DOMAIN s \ {a} : s2[g] = s[g]
  BY AppendedFacts
<1>2. s[a] \in Seq(Records)
  BY Zenon DEF Segments
<1>3. DOMAIN s[a] = 1 .. Len(s[a])
  BY <1>2, Elements, Zenon
<1>4. /\ DOMAIN s2[a] = 1 .. Len(s[a]) + Len(b)
      /\ \A i \in 1 .. Len(s[a]) : s2[a][i] = s[a][i]
      /\ \A m \in 1 .. Len(b) : s2[a][Len(s[a]) + m] = b[m]
      /\ \A i \in 1 .. Len(s[a]) + Len(b) :
           i \in 1 .. Len(s[a]) \/ \E m \in 1 .. Len(b) : i = Len(s[a]) + m
  BY <1>1, <1>2, Concat
<1>5. /\ \A i \in 1 .. Len(s[a]) : i \in 1 .. Len(s[a]) + Len(b)
      /\ \A m \in 1 .. Len(b) : Len(s[a]) + m \in 1 .. Len(s[a]) + Len(b)
  BY <1>2
<1> HIDE DEF s2
<1>6. \A g \in DOMAIN s : \A i \in DOMAIN s[g] : i \in DOMAIN s2[g] /\ s2[g][i] = s[g][i]
  BY <1>1, <1>3, <1>4, <1>5, Zenon
<1>7. \A m \in 1 .. Len(b) : Len(s[a]) + m \in DOMAIN s2[a] /\ s2[a][Len(s[a]) + m] = b[m]
  BY <1>4, <1>5, Zenon
<1>8. \A g \in DOMAIN s : \A i \in DOMAIN s2[g] :
        i \in DOMAIN s[g] \/ (g = a /\ \E m \in 1 .. Len(b) : i = Len(s[a]) + m)
  BY <1>1, <1>3, <1>4, Zenon
<1> QED
  BY <1>1, <1>6, <1>7, <1>8, Zenon DEF s2, Grown

LEMMA AppendedLogged ==
  ASSUME NEW s, Segments(s), NEW a \in DOMAIN s, NEW b \in Seq(Records), NEW k, NEW g
  PROVE  LoggedIn(Appended(s, a, b), k, g) <=>
           LoggedIn(s, k, g) \/ (g = a /\ Waits(b, k))
<1> DEFINE s2 == Appended(s, a, b)
<1>1. DOMAIN s2 = DOMAIN s
  BY AppendedFacts
<1>2. Grown(s, s2, a, b)
  BY AppendedGrown
<1> HIDE DEF s2
<1>3. LoggedIn(s2, k, g) => LoggedIn(s, k, g) \/ (g = a /\ Waits(b, k))
  <2> SUFFICES ASSUME g \in DOMAIN s, NEW i \in DOMAIN s2[g], s2[g][i].key = k
               PROVE  LoggedIn(s, k, g) \/ (g = a /\ Waits(b, k))
    BY <1>1, Zenon DEF LoggedIn
  <2>1. CASE i \in DOMAIN s[g]
    BY <1>2, <2>1, Zenon DEF Grown, LoggedIn
  <2>2. ASSUME g = a, NEW m \in 1 .. Len(b), i = Len(s[a]) + m PROVE b[m].key = k
    BY <1>2, <2>2, Zenon DEF Grown
  <2> QED
    <3>1. i \in DOMAIN s[g] \/ (g = a /\ \E m \in 1 .. Len(b) : i = Len(s[a]) + m)
      BY <1>2, Zenon DEF Grown
    <3> QED
      BY <2>1, <2>2, <3>1, Zenon DEF Waits
<1>4. LoggedIn(s, k, g) => LoggedIn(s2, k, g)
  BY <1>1, <1>2, Zenon DEF Grown, LoggedIn
<1>5. ASSUME NEW m \in 1 .. Len(b), b[m].key = k PROVE LoggedIn(s2, k, a)
  <2>1. Len(s[a]) + m \in DOMAIN s2[a] /\ s2[a][Len(s[a]) + m].key = k
    BY <1>2, <1>5, Zenon DEF Grown
  <2> QED
    BY <1>1, <2>1, Zenon DEF LoggedIn
<1> QED
  BY <1>3, <1>4, <1>5, Zenon DEF s2, Waits

\* A key's last record stays the last one when none of b is its own ...
LEMMA LastKept ==
  ASSUME NEW s, Segments(s), NEW a \in DOMAIN s, NEW b \in Seq(Records), NEW k, NEW v,
         \A m \in 1 .. Len(b) : b[m].key # k, LastLogged(s, k, v)
  PROVE  LastLogged(Appended(s, a, b), k, v)
<1> DEFINE s2 == Appended(s, a, b)
<1>1. DOMAIN s2 = DOMAIN s
  BY AppendedFacts
<1>2. Grown(s, s2, a, b)
  BY AppendedGrown
<1> HIDE DEF s2
<1>3. PICK g \in DOMAIN s : \E i \in DOMAIN s[g] : LastAt(s, k, g, i) /\ s[g][i].val = v
  BY Zenon DEF LastLogged
<1>4. PICK i \in DOMAIN s[g] : LastAt(s, k, g, i) /\ s[g][i].val = v
  BY <1>3, Zenon
<1>5. ASSUME NEW h \in DOMAIN s, NEW j \in DOMAIN s2[h], s2[h][j].key = k
      PROVE  j \in DOMAIN s[h] /\ s[h][j].key = k
  <2>1. ASSUME h = a, NEW m \in 1 .. Len(b), j = Len(s[a]) + m PROVE FALSE
    BY <1>2, <1>5, <2>1, Zenon DEF Grown
  <2>2. j \in DOMAIN s[h]
    <3>1. j \in DOMAIN s[h] \/ (h = a /\ \E m \in 1 .. Len(b) : j = Len(s[a]) + m)
      BY <1>2, Zenon DEF Grown
    <3> QED
      BY <2>1, <3>1, Zenon
  <2> QED
    BY <1>2, <1>5, <2>2, Zenon DEF Grown
<1>6. g \in DOMAIN s2 /\ i \in DOMAIN s2[g] /\ s2[g][i] = s[g][i]
  BY <1>1, <1>2, Zenon DEF Grown
<1>7. LastAt(s2, k, g, i)
  BY <1>1, <1>4, <1>5, <1>6, Zenon DEF LastAt
<1> QED
  BY <1>4, <1>6, <1>7, Zenon DEF LastLogged, s2

\* ... and else the last of b is the key's last record, in the last segment.
LEMMA LastAppended ==
  ASSUME NEW s, Segments(s), NEW a \in DOMAIN s, NEW b \in Seq(Records), NEW k,
         a \in Int, \A h \in DOMAIN s : h \in Int /\ h <= a,
         NEW n, LastIn(b, k, Len(b), n)
  PROVE  LastLogged(Appended(s, a, b), k, b[n].val)
<1>0. n \in 1 .. Len(b) /\ b[n].key = k /\ \A m \in 1 .. Len(b) : b[m].key = k => m <= n
  BY Zenon DEF LastIn
<1> DEFINE s2 == Appended(s, a, b)
<1>1. DOMAIN s2 = DOMAIN s
  BY AppendedFacts
<1>2. Grown(s, s2, a, b)
  BY AppendedGrown
<1> HIDE DEF s2
<1>3. s[a] \in Seq(Records)
  BY Zenon DEF Segments
<1>4. Len(s[a]) \in Nat /\ DOMAIN s[a] = 1 .. Len(s[a])
  BY <1>3, Elements, Zenon
<1> DEFINE i == Len(s[a]) + n
<1>5. a \in DOMAIN s2 /\ i \in DOMAIN s2[a] /\ s2[a][i] = b[n]
  BY <1>0, <1>1, <1>2, Zenon DEF Grown
<1>6. ASSUME NEW h \in DOMAIN s, NEW j \in DOMAIN s2[h], s2[h][j].key = k
      PROVE  h < a \/ (h = a /\ j <= i)
  <2>1. CASE h # a
    BY <2>1
  <2>2. CASE h = a /\ j \in DOMAIN s[a]
    BY <1>0, <1>4, <2>2
  <2>3. ASSUME h = a, NEW m \in 1 .. Len(b), j = Len(s[a]) + m PROVE j <= i
    <3>1. b[m].key = k
      BY <1>2, <1>6, <2>3, Zenon DEF Grown
    <3>2. m <= n /\ m \in Int /\ n \in Int
      BY <1>0, <3>1
    <3> QED
      BY <1>4, <2>3, <3>2
  <2>4. j \in DOMAIN s[h] \/ (h = a /\ \E m \in 1 .. Len(b) : j = Len(s[a]) + m)
    BY <1>2, Zenon DEF Grown
  <2> QED
    BY <2>1, <2>2, <2>3, <2>4, Zenon
<1>7. LastAt(s2, k, a, i)
  BY <1>0, <1>1, <1>5, <1>6, Zenon DEF LastAt
<1> QED
  BY <1>5, <1>7, Zenon DEF LastLogged, s2

\* A new segment has no record ...
Opened(s, n) == [g \in DOMAIN s \cup {n} |-> IF g = n THEN << >> ELSE s[g]]

LEMMA OpenedFacts ==
  ASSUME NEW s, Segments(s), NEW n, n \notin DOMAIN s
  PROVE  /\ DOMAIN Opened(s, n) = DOMAIN s \cup {n} /\ Segments(Opened(s, n))
         /\ \A k, g : LoggedIn(Opened(s, n), k, g) <=> LoggedIn(s, k, g)
         /\ \A k, v : LastLogged(s, k, v) => LastLogged(Opened(s, n), k, v)
<1> DEFINE s2 == Opened(s, n)
<1>1. /\ DOMAIN s2 = DOMAIN s \cup {n} /\ s2[n] = << >>
      /\ \A g \in DOMAIN s : s2[g] = s[g]
  BY Zenon DEF Opened
<1>2. << >> \in Seq(Records) /\ DOMAIN << >> = {}
  OBVIOUS
<1>3. s2 = [g \in DOMAIN s2 |-> s2[g]]
  BY Zenon DEF Opened
<1>4. DOMAIN s2[n] = {}
  BY <1>1, <1>2, Zenon
<1> HIDE DEF s2
<1>5. Segments(s2)
  BY <1>1, <1>2, <1>3, Zenon DEF Segments
<1>6. ASSUME NEW k, NEW g PROVE LoggedIn(s2, k, g) <=> LoggedIn(s, k, g)
  BY <1>1, <1>4, Zenon DEF LoggedIn
<1>7. ASSUME NEW k, NEW g, NEW i, LastAt(s, k, g, i) PROVE LastAt(s2, k, g, i)
  BY <1>1, <1>4, <1>7, Zenon DEF LastAt
<1>8. ASSUME NEW k, NEW v, LastLogged(s, k, v) PROVE LastLogged(s2, k, v)
  BY <1>1, <1>7, <1>8, Zenon DEF LastLogged
<1> QED
  BY <1>1, <1>5, <1>6, <1>8, Zenon DEF s2

\* ... and the oldest segment no last record of a key that has others.
Dropped(s, n) == [g \in DOMAIN s \ {n} |-> s[g]]

Oldest(s, n) ==
  Segments(s) /\ n \in Int /\ \A g \in DOMAIN s : g \in Int /\ n <= g

Without(s, n, s2) ==
  /\ DOMAIN s2 = DOMAIN s \ {n} /\ Segments(s2)
  /\ \A k, g : LoggedIn(s2, k, g) <=> g # n /\ LoggedIn(s, k, g)
  /\ \A k, v : LastLogged(s, k, v) /\ Logged(s2, k) => LastLogged(s2, k, v)

LEMMA DroppedFacts ==
  ASSUME NEW s, NEW n, Oldest(s, n)
  PROVE  Without(s, n, Dropped(s, n))
<1>0. Segments(s) /\ n \in Int /\ \A g \in DOMAIN s : g \in Int /\ n <= g
  BY Zenon DEF Oldest
<1> DEFINE s2 == Dropped(s, n)
<1>1. /\ DOMAIN s2 = DOMAIN s \ {n}
      /\ \A g \in DOMAIN s \ {n} : s2[g] = s[g]
  BY Zenon DEF Dropped
<1>2. s2 = [g \in DOMAIN s2 |-> s2[g]]
  BY Zenon DEF Dropped
<1> HIDE DEF s2
<1>3. Segments(s2)
  BY <1>0, <1>1, <1>2, Zenon DEF Segments
<1>4. ASSUME NEW k, NEW g PROVE LoggedIn(s2, k, g) <=> g # n /\ LoggedIn(s, k, g)
  BY <1>1, Zenon DEF LoggedIn
<1>5. ASSUME NEW k, NEW v, LastLogged(s, k, v), Logged(s2, k) PROVE LastLogged(s2, k, v)
  <2>1. PICK g \in DOMAIN s : \E i \in DOMAIN s[g] : LastAt(s, k, g, i) /\ s[g][i].val = v
    BY <1>5, Zenon DEF LastLogged
  <2>2. PICK i \in DOMAIN s[g] : LastAt(s, k, g, i) /\ s[g][i].val = v
    BY <2>1, Zenon
  <2>3. PICK h \in DOMAIN s2 : \E j \in DOMAIN s2[h] : s2[h][j].key = k
    BY <1>5, Zenon DEF Logged, LoggedIn
  <2>4. h \in DOMAIN s /\ h # n /\ \E j \in DOMAIN s[h] : s[h][j].key = k
    BY <1>1, <2>3, Zenon
  <2>5. h <= g
    <3>1. h < g \/ h = g
      BY <2>2, <2>4, Zenon DEF LastAt
    <3> QED
      BY <1>0, <2>4, <3>1
  <2>6. g # n
    BY <1>0, <2>4, <2>5
  <2>7. LastAt(s2, k, g, i)
    BY <1>1, <2>2, <2>6, Zenon DEF LastAt
  <2> QED
    BY <1>1, <2>2, <2>6, <2>7, Zenon DEF LastLogged
<1> QED
  BY <1>1, <1>3, <1>4, <1>5, Zenon DEF Without, s2

-----------------------------------------------------------------------------
(* What a step leaves alone.                                               *)

LEMMA UpStep ==
  ASSUME mode' = "up", replay' = {}, step' \in Steps,
         MemType', DiskType', SegType', SyncInv', PendingInv',
         \A k \in Keys \ risky' : UpInv(k)'
  PROVE  Inv'
<1>1. OrderInv'
  BY Zenon DEF OrderInv
<1>2. ModeInv'
  BY DEF ModeInv
<1>3. \A k \in Keys \ risky' : KeyInv(k)'
  BY Zenon DEF KeyInv
<1> QED
  BY <1>1, <1>2, <1>3, Zenon DEF Inv

\* The value written is there, and no other key sees the difference.
LEMMA ApplyFacts ==
  ASSUME MemType, DiskType, NEW k \in Keys, NEW v, Apply(k, v)
  PROVE  /\ t1' \in [Keys -> Offsets] /\ used' \in Offsets /\ used <= used'
         /\ DOMAIN file' = 1 .. MaxOffset
         /\ t1'[k] <= used' /\ Value(k)' = v
         /\ \A j \in Keys \ {k} : t1'[j] = t1[j] /\ (t1[j] <= used => Value(j)' = Value(j))
         /\ \A o \in 1 .. MaxOffset : o <= used => file'[o] = file[o]
         /\ risky \subseteq risky'
<1>0. risky \subseteq risky'
  BY Zenon DEF Apply
<1>1. CASE v = 0
  <2>1. t1' = [t1 EXCEPT ![k] = 0] /\ file' = file /\ used' = used
    BY <1>1 DEF Apply
  <2>2. 0 \in Offsets /\ used \in Offsets /\ 0 <= used /\ used <= used
    BY RecoveryAssumption DEF MemType, Offsets
  <2>3. t1' \in [Keys -> Offsets] /\ t1'[k] = 0 /\ \A j \in Keys \ {k} : t1'[j] = t1[j]
    BY <2>1, <2>2, Zenon DEF MemType
  <2>4. Value(k)' = v /\ \A j \in Keys \ {k} : Value(j)' = Value(j)
    BY <1>1, <2>1, <2>3, Zenon DEF Value
  <2> QED
    BY <1>0, <2>1, <2>2, <2>3, <2>4, Zenon DEF DiskType
<1>2. CASE v # 0
  <2>1. /\ used < MaxOffset /\ used' = used + 1
        /\ file' = [file EXCEPT ![used + 1] = Record(k, v)]
        /\ t1' = [t1 EXCEPT ![k] = used + 1]
    BY <1>2 DEF Apply
  <2>2. used \in Nat /\ used' \in Offsets /\ used + 1 \in 1 .. MaxOffset /\ used + 1 # 0
    BY <2>1, RecoveryAssumption DEF MemType, Offsets
  <2>3. t1' \in [Keys -> Offsets] /\ t1'[k] = used'
    BY <2>1, <2>2 DEF MemType, Offsets
  <2>4. /\ DOMAIN file' = 1 .. MaxOffset /\ file'[used + 1] = Record(k, v)
        /\ \A o \in 1 .. MaxOffset : o # used + 1 => file'[o] = file[o]
    BY <2>1, <2>2, Zenon DEF DiskType
  <2>5. Record(k, v).key = k /\ Record(k, v).val = v
    BY DEF Record
  <2>6. Value(k)' = v
    BY <2>1, <2>2, <2>3, <2>4, <2>5 DEF Value
  <2>7. \A o \in 1 .. MaxOffset : o <= used => file'[o] = file[o]
    BY <2>2, <2>4
  <2>8. ASSUME NEW j \in Keys \ {k} PROVE t1'[j] = t1[j] /\ (t1[j] <= used => Value(j)' = Value(j))
    <3>1. t1'[j] = t1[j] /\ t1[j] \in Offsets
      BY <2>1, Zenon DEF MemType
    <3>2. ASSUME t1[j] <= used, t1[j] # 0 PROVE file'[t1[j]] = file[t1[j]]
      BY <2>7, <3>1, <3>2 DEF Offsets
    <3> QED
      BY <3>1, <3>2, Zenon DEF Value
  <2> QED
    BY <1>0, <2>1, <2>2, <2>3, <2>4, <2>6, <2>7, <2>8
<1> QED
  BY <1>1, <1>2

\* Puts in flight stay in flight.
Settles(k) == Quiet(k)' /\ ~Quiet(k)

LEMMA PendingKept ==
  ASSUME PendingInv, UNCHANGED pending PROVE PendingInv'
BY Zenon DEF PendingInv

LEMMA MemKept ==
  ASSUME NEW k \in Keys, MemType, MemType', MemInv(k), UNCHANGED pending, used <= used',
         t1'[k] = t1[k], Value(k)' = Value(k), stored'[k] = stored[k], bulk'[k] = bulk[k],
         last'[k] = last[k]
  PROVE  MemInv(k)' /\ (Quiet(k)' <=> Quiet(k))
<1>1. Waiting(k)' <=> Waiting(k)
  BY Zenon DEF Waiting, Waits
<1>2. Quiet(k)' <=> Quiet(k)
  BY <1>1, Zenon DEF Quiet
<1>4. t1'[k] <= used'
  BY DEF MemInv, MemType, Offsets
<1> QED
  BY <1>1, <1>2, <1>4, Zenon DEF MemInv

LEMMA LogKept ==
  ASSUME NEW k \in Keys, LogInv(k), UNCHANGED <<seg, pending>>, stored'[k] = stored[k],
         bulk'[k] = bulk[k], last'[k] = last[k]
  PROVE  LogInv(k)'
<1>1. Waiting(k)' <=> Waiting(k)
  BY Zenon DEF Waiting, Waits
<1> QED
  BY <1>1, Zenon DEF LogInv

LEMMA CoverKept ==
  ASSUME NEW k \in Keys, CoverInv(k), ~Settles(k), Logged(seg, k) => Logged(seg', k),
         UNCHANGED manifest, chk'[k] = chk[k], Quiet(k)' => t1'[k] = t1[k],
         Quiet(k)' => last'[k] = last[k]
  PROVE  CoverInv(k)'
BY Zenon DEF CoverInv, Settles

LEMMA CycleKept ==
  ASSUME NEW k \in Keys, CycleInv(k), ~Settles(k),
         \A g : LoggedIn(seg, k, g) => LoggedIn(seg', k, g),
         UNCHANGED <<gen, step, target, dump, todo, chk, manifest>>,
         Quiet(k)' => t1'[k] = t1[k]
  PROVE  CycleInv(k)'
BY Zenon DEF CycleInv, Settles

\* A write of another key changes nothing for this one.
LEMMA OtherKey ==
  ASSUME NEW k \in Keys, MemType, MemType', UpInv(k), used <= used', t1'[k] = t1[k],
         Value(k)' = Value(k), stored'[k] = stored[k], bulk'[k] = bulk[k],
         UNCHANGED <<pending, last, seg, gen, manifest, chk, step, target, dump, todo>>
  PROVE  UpInv(k)'
<1>1. MemInv(k)' /\ (Quiet(k)' <=> Quiet(k))
  BY MemKept, Zenon DEF UpInv
<1>2. LogInv(k)'
  BY LogKept, Zenon DEF UpInv
<1>3. ~Settles(k)
  BY <1>1, Zenon DEF Settles
<1>4. CoverInv(k)'
  BY <1>3, CoverKept, Zenon DEF UpInv
<1>5. CycleInv(k)'
  BY <1>3, CycleKept, Zenon DEF UpInv
<1> QED
  BY <1>1, <1>2, <1>4, <1>5, Zenon DEF UpInv

-----------------------------------------------------------------------------
(* Writers.                                                                *)

LEMMA StoreInv ==
  ASSUME Inv, NEW k \in Keys, NEW delete \in BOOLEAN, Store(k, delete) PROVE Inv'
<1> DEFINE v == IF delete THEN 0 ELSE puts + 1
<1>1. /\ Apply(k, v) /\ stored' = [stored EXCEPT ![k] = v] /\ puts' = puts + 1
      /\ bulk' = [bulk EXCEPT ![k] = None] /\ mode = "up" /\ stored[k] = None
      /\ UNCHANGED <<mode, pending, synced, gen, seg, manifest, chk, onDisk, step, target, dump,
                     todo, replay, last, may, crashes>>
  BY DEF Store, cycleVars
<1>2. MemType /\ DiskType /\ SegType /\ ModeInv /\ SyncInv /\ PendingInv
  BY Zenon DEF Inv
<1>3. v \in Nat /\ puts + 1 \in Nat /\ v # None
  BY <1>2 DEF MemType, None
<1> HIDE DEF v
<1>4. /\ t1' \in [Keys -> Offsets] /\ used' \in Offsets /\ used <= used'
      /\ DOMAIN file' = 1 .. MaxOffset
      /\ t1'[k] <= used' /\ Value(k)' = v
      /\ \A j \in Keys \ {k} : t1'[j] = t1[j] /\ (t1[j] <= used => Value(j)' = Value(j))
      /\ risky \subseteq risky'
  BY <1>1, <1>2, ApplyFacts
<1>5. MemType'
  <2>1. stored' \in [Keys -> Nat \cup {None}] /\ bulk' \in [Keys -> Nat \cup {None}]
    BY <1>1, <1>2, <1>3, Zenon DEF MemType
  <2> QED
    BY <1>1, <1>2, <1>3, <1>4, <2>1, Zenon DEF MemType
<1>6. DiskType' /\ SegType' /\ SyncInv' /\ PendingInv'
  <2>1. DiskType'
    BY <1>1, <1>2, <1>4, Zenon DEF DiskType
  <2>2. SegType'
    BY <1>1, <1>2, Zenon DEF SegType
  <2>3. SyncInv'
    BY <1>1, <1>2, Zenon DEF SyncInv
  <2>4. PendingInv'
    BY <1>1, <1>2, PendingKept, Zenon
  <2> QED
    BY <2>1, <2>2, <2>3, <2>4, Zenon
<1>7. /\ stored'[k] = v /\ bulk'[k] = None
      /\ \A j \in Keys \ {k} : stored'[j] = stored[j] /\ bulk'[j] = bulk[j]
  BY <1>1, <1>2, Zenon DEF MemType
<1>8. ASSUME NEW j \in Keys \ risky' PROVE UpInv(j)'
  <2>1. UpInv(j)
    BY <1>1, <1>4, Zenon DEF Inv, KeyInv
  <2>2. CASE j = k
    <3>1. ~Quiet(k)'
      BY <1>3, <1>7, Zenon DEF Quiet
    <3>2. MemInv(k)'
      BY <1>3, <1>4, <1>7, <3>1, Zenon DEF MemInv
    <3>3. LogInv(k)'
      BY <1>1, <1>7, <2>1, <2>2, Zenon DEF LogInv, UpInv
    <3>4. CoverInv(k)' /\ CycleInv(k)'
      BY <1>1, <2>1, <2>2, <3>1, Zenon DEF CoverInv, CycleInv, UpInv
    <3> QED
      BY <2>2, <3>2, <3>3, <3>4, Zenon DEF UpInv
  <2>3. CASE j # k
    <3>1. t1[j] <= used
      BY <2>1, Zenon DEF UpInv, MemInv
    <3>2. t1'[j] = t1[j] /\ Value(j)' = Value(j)
      BY <1>4, <2>3, <3>1, Zenon
    <3>3. stored'[j] = stored[j] /\ bulk'[j] = bulk[j]
      BY <1>7, <2>3, Zenon
    <3> QED
      BY <1>1, <1>2, <1>4, <1>5, <2>1, <3>2, <3>3, OtherKey, Zenon
  <2> QED
    BY <2>2, <2>3, Zenon
<1>9. mode' = "up" /\ replay' = {} /\ step' \in Steps
  BY <1>1, <1>2 DEF ModeInv
<1> QED
  BY <1>1, <1>5, <1>6, <1>8, <1>9, UpStep, Zenon

LEMMA BulkInv ==
  ASSUME Inv, NEW k \in Keys, BulkLoad(k) PROVE Inv'
<1> DEFINE v == puts + 1
<1>1. /\ Apply(k, v) /\ bulk' = [bulk EXCEPT ![k] = v] /\ puts' = puts + 1
      /\ mode = "up" /\ stored[k] = None /\ pending = << >>
      /\ \A g \in DOMAIN seg : \A i \in DOMAIN seg[g] : seg[g][i].key # k
      /\ UNCHANGED <<mode, stored, pending, synced, gen, seg, manifest, chk, onDisk, step, target,
                     dump, todo, replay, last, may, crashes>>
  BY DEF BulkLoad, cycleVars
<1>2. MemType /\ DiskType /\ SegType /\ ModeInv /\ SyncInv /\ PendingInv
  BY Zenon DEF Inv
<1>3. v \in Nat /\ puts + 1 \in Nat /\ v # None
  BY <1>2 DEF MemType, None
<1> HIDE DEF v
<1>4. /\ t1' \in [Keys -> Offsets] /\ used' \in Offsets /\ used <= used'
      /\ DOMAIN file' = 1 .. MaxOffset
      /\ t1'[k] <= used' /\ Value(k)' = v
      /\ \A j \in Keys \ {k} : t1'[j] = t1[j] /\ (t1[j] <= used => Value(j)' = Value(j))
      /\ risky \subseteq risky'
  BY <1>1, <1>2, ApplyFacts
<1>5. MemType'
  <2>1. stored' \in [Keys -> Nat \cup {None}] /\ bulk' \in [Keys -> Nat \cup {None}]
    BY <1>1, <1>2, <1>3, Zenon DEF MemType
  <2> QED
    BY <1>1, <1>2, <1>3, <1>4, <2>1, Zenon DEF MemType
<1>6. DiskType' /\ SegType' /\ SyncInv' /\ PendingInv'
  <2>1. DiskType'
    BY <1>1, <1>2, <1>4, Zenon DEF DiskType
  <2>2. SegType'
    BY <1>1, <1>2, Zenon DEF SegType
  <2>3. SyncInv'
    BY <1>1, <1>2, Zenon DEF SyncInv
  <2>4. PendingInv'
    BY <1>1, <1>2, PendingKept, Zenon
  <2> QED
    BY <2>1, <2>2, <2>3, <2>4, Zenon
<1>7. /\ stored'[k] = None /\ bulk'[k] = v
      /\ \A j \in Keys \ {k} : stored'[j] = stored[j] /\ bulk'[j] = bulk[j]
  BY <1>1, <1>2, Zenon DEF MemType
<1>8. ASSUME NEW j \in Keys \ risky' PROVE UpInv(j)'
  <2>1. UpInv(j)
    BY <1>1, <1>4, Zenon DEF Inv, KeyInv
  <2>2. CASE j = k
    <3>1. ~Waiting(k)' /\ \A i \in 1 .. Len(pending)' : FALSE
      <4>1. Len(<< >>) = 0 /\ 1 .. 0 = {}
        OBVIOUS
      <4> QED
        BY <1>1, <4>1, Zenon DEF Waiting, Waits
    <3>2. ~Quiet(k)'
      BY <1>3, <1>7, Zenon DEF Quiet
    <3>3. MemInv(k)'
      BY <1>3, <1>4, <1>7, <3>1, <3>2, Zenon DEF MemInv
    <3>4. ~Logged(seg', k)
      BY <1>1, Zenon DEF Logged, LoggedIn
    <3>5. LogInv(k)'
      BY <1>7, <3>1, <3>4, Zenon DEF LogInv
    <3>6. CoverInv(k)' /\ CycleInv(k)'
      BY <1>1, <2>1, <2>2, <3>2, Zenon DEF CoverInv, CycleInv, UpInv
    <3> QED
      BY <2>2, <3>3, <3>5, <3>6, Zenon DEF UpInv
  <2>3. CASE j # k
    <3>1. t1[j] <= used
      BY <2>1, Zenon DEF UpInv, MemInv
    <3>2. t1'[j] = t1[j] /\ Value(j)' = Value(j)
      BY <1>4, <2>3, <3>1, Zenon
    <3>3. stored'[j] = stored[j] /\ bulk'[j] = bulk[j]
      BY <1>7, <2>3, Zenon
    <3> QED
      BY <1>1, <1>2, <1>4, <1>5, <2>1, <3>2, <3>3, OtherKey, Zenon
  <2> QED
    BY <2>2, <2>3, Zenon
<1>9. mode' = "up" /\ replay' = {} /\ step' \in Steps
  BY <1>1, <1>2 DEF ModeInv
<1> QED
  BY <1>1, <1>5, <1>6, <1>8, <1>9, UpStep, Zenon

\* q is p and then r.
Joined(p, r, q) ==
  /\ HasLast(q)
  /\ \A k : Waits(q, k) <=> Waits(p, k) \/ r.key = k
  /\ \A k, i : LastIn(q, k, Len(q), i) =>
       IF r.key = k THEN q[i] = r ELSE LastIn(p, k, Len(p), i) /\ q[i] = p[i]

LEMMA Larger ==
  ASSUME NEW p \in Seq(Records), NEW r \in Records, HasLast(p)
  PROVE  Joined(p, r, Append(p, r))
<1> DEFINE q == Append(p, r)
<1>1. /\ Len(p) \in Nat /\ Len(q) = Len(p) + 1 /\ q[Len(p) + 1] = r
      /\ \A i \in 1 .. Len(p) : q[i] = p[i]
  OBVIOUS
<1> HIDE DEF q
<1>2. /\ Len(p) + 1 \in 1 .. Len(q)
      /\ \A i \in 1 .. Len(q) : i \in 1 .. Len(p) \/ i = Len(p) + 1
      /\ \A i \in 1 .. Len(p) : i \in 1 .. Len(q)
  BY <1>1
<1>3. ASSUME NEW k PROVE Waits(q, k) <=> Waits(p, k) \/ r.key = k
  BY <1>1, <1>2, Zenon DEF Waits
<1>4. ASSUME NEW k, NEW i, LastIn(q, k, Len(q), i)
      PROVE  IF r.key = k THEN q[i] = r ELSE LastIn(p, k, Len(p), i) /\ q[i] = p[i]
  <2>1. i \in 1 .. Len(q) /\ q[i].key = k /\ \A j \in 1 .. Len(q) : q[j].key = k => j <= i
    BY <1>4, Zenon DEF LastIn
  <2>2. CASE r.key = k
    <3>1. Len(p) + 1 <= i
      BY <1>1, <1>2, <2>1, <2>2, Zenon
    <3>2. i = Len(p) + 1
      BY <1>1, <2>1, <3>1
    <3> QED
      BY <1>1, <2>2, <3>2, Zenon
  <2>3. CASE r.key # k
    <3>1. i \in 1 .. Len(p)
      BY <1>1, <1>2, <2>1, <2>3, Zenon
    <3> QED
      BY <1>1, <1>2, <2>1, <2>3, <3>1, Zenon DEF LastIn
  <2> QED
    BY <2>2, <2>3, Zenon
<1>5. HasLast(q)
  <2> SUFFICES ASSUME NEW k \in Keys, NEW n \in 0 .. Len(q), NEW i \in 1 .. n, q[i].key = k
               PROVE  \E j \in 1 .. n : LastIn(q, k, n, j)
    BY Zenon DEF HasLast
  <2>1. CASE n = Len(p) + 1 /\ r.key = k
    <3>1. n \in 1 .. n /\ \A j \in 1 .. n : j <= n
      BY <1>1, <2>1
    <3> QED
      BY <1>1, <2>1, <3>1, Zenon DEF LastIn
  <2>2. CASE n = Len(p) + 1 /\ r.key # k
    <3>1. /\ Len(p) \in 0 .. Len(p) /\ i \in 1 .. Len(q)
          /\ \A j \in 1 .. n : j \in 1 .. Len(q)
      BY <1>1, <2>2
    <3>2. i \in 1 .. Len(p) /\ p[i].key = k
      BY <1>1, <1>2, <2>2, <3>1, Zenon
    <3>3. PICK j \in 1 .. Len(p) : LastIn(p, k, Len(p), j)
      BY <3>1, <3>2, Zenon DEF HasLast
    <3>4. j \in 1 .. n
      BY <1>1, <2>2
    <3>5. LastIn(q, k, n, j)
      BY <1>1, <1>2, <2>2, <3>1, <3>3, <3>4, Zenon DEF LastIn
    <3> QED
      BY <3>4, <3>5, Zenon
  <2>3. CASE n # Len(p) + 1
    <3>1. n \in 0 .. Len(p) /\ \A j \in 1 .. n : j \in 1 .. Len(p)
      BY <1>1, <2>3
    <3>2. PICK j \in 1 .. n : LastIn(p, k, n, j)
      BY <1>1, <3>1, Zenon DEF HasLast
    <3>3. LastIn(q, k, n, j)
      BY <1>1, <3>1, <3>2, Zenon DEF LastIn
    <3> QED
      BY <3>3, Zenon
  <2> QED
    BY <2>1, <2>2, <2>3, Zenon
<1> QED
  BY <1>3, <1>4, <1>5, Zenon DEF q, Joined

LEMMA ReserveInv ==
  ASSUME Inv, NEW k \in Keys, ReserveRecord(k) PROVE Inv'
<1> DEFINE r == Record(k, stored[k])
<1>1. /\ mode = "up" /\ stored[k] # None
      /\ pending' = Append(pending, r) /\ stored' = [stored EXCEPT ![k] = None]
      /\ UNCHANGED <<mode, t1, used, step, target, dump, todo, diskVars, replay, histVars>>
  BY DEF ReserveRecord, cycleVars
<1>2. MemType /\ DiskType /\ SegType /\ ModeInv /\ SyncInv /\ PendingInv
  BY Zenon DEF Inv
<1>3. r \in Records /\ r.key = k /\ r.val = stored[k]
  <2>1. stored[k] \in Nat
    BY <1>1, <1>2, Zenon DEF MemType
  <2> QED
    BY <2>1 DEF Record, Records
<1> HIDE DEF r
<1>4. pending \in Seq(Records)
  BY <1>2, Zenon DEF MemType
<1>5. /\ HasLast(pending')
      /\ \A j : Waits(pending', j) <=> Waits(pending, j) \/ r.key = j
      /\ \A j, i : LastIn(pending', j, Len(pending'), i) =>
           IF r.key = j THEN pending'[i] = r
           ELSE LastIn(pending, j, Len(pending), i) /\ pending'[i] = pending[i]
  <2>1. Joined(pending, r, pending')
    BY <1>1, <1>2, <1>3, <1>4, Larger, Zenon DEF PendingInv
  <2> QED
    BY <2>1, Zenon DEF Joined
<1>6. MemType'
  <2>1. stored' \in [Keys -> Nat \cup {None}]
    BY <1>1, <1>2, Zenon DEF MemType
  <2>2. pending' \in Seq(Records)
    BY <1>1, <1>3, <1>4
  <2> QED
    BY <1>1, <1>2, <2>1, <2>2, Zenon DEF MemType, histVars
<1>7. DiskType' /\ SegType' /\ SyncInv' /\ PendingInv'
  <2>1. DiskType'
    BY <1>1, <1>2, Zenon DEF DiskType, diskVars
  <2>2. SegType'
    BY <1>1, <1>2, Zenon DEF SegType, diskVars
  <2>3. SyncInv'
    BY <1>1, <1>2, Zenon DEF SyncInv, diskVars
  <2> QED
    BY <1>5, <2>1, <2>2, <2>3, Zenon DEF PendingInv
<1>8. ASSUME NEW j \in Keys \ risky PROVE UpInv(j)'
  <2>1. UpInv(j)
    BY <1>1, Zenon DEF Inv, KeyInv
  <2>2. /\ UNCHANGED <<t1, used, file, bulk, last, seg, gen, manifest, chk, step, target, dump,
                       todo>>
        /\ Value(j)' = Value(j) /\ \A i \in 1 .. Len(pending') : i \in 1 .. Len(pending)'
    BY <1>1, Zenon DEF diskVars, histVars, Value
  <2>3. CASE j = k
    <3>1. stored'[k] = None /\ Waiting(k)' /\ ~Quiet(k)'
      BY <1>1, <1>2, <1>3, <1>5, Zenon DEF MemType, Waiting, Quiet
    <3>2. Value(k) = stored[k]
      BY <1>1, <2>1, <2>3, Zenon DEF UpInv, MemInv
    <3>3. MemInv(k)'
      BY <1>3, <1>5, <2>1, <2>2, <2>3, <3>1, <3>2, Zenon DEF UpInv, MemInv
    <3>4. LogInv(k)'
      BY <1>1, <2>1, <2>2, <2>3, Zenon DEF UpInv, LogInv
    <3>5. CoverInv(k)' /\ CycleInv(k)'
      BY <2>1, <2>2, <2>3, <3>1, Zenon DEF CoverInv, CycleInv, UpInv
    <3> QED
      BY <2>3, <3>3, <3>4, <3>5, Zenon DEF UpInv
  <2>4. CASE j # k
    <3>1. stored'[j] = stored[j] /\ (Waiting(j)' <=> Waiting(j)) /\ (Quiet(j)' <=> Quiet(j))
      BY <1>1, <1>2, <1>3, <1>5, <2>2, <2>4, Zenon DEF MemType, Waiting, Quiet
    <3>2. ASSUME NEW i \in 1 .. Len(pending'), LastIn(pending', j, Len(pending'), i),
                 stored[j] = None
          PROVE  Value(j) = pending'[i].val
      <4>1. LastIn(pending, j, Len(pending), i) /\ pending'[i] = pending[i]
        BY <1>3, <1>5, <2>4, <3>2, Zenon
      <4>2. i \in 1 .. Len(pending)
        BY <4>1, Zenon DEF LastIn
      <4> QED
        BY <2>1, <3>2, <4>1, <4>2, Zenon DEF UpInv, MemInv
    <3>3. MemInv(j)'
      BY <2>1, <2>2, <3>1, <3>2, Zenon DEF UpInv, MemInv
    <3>4. LogInv(j)'
      BY <2>1, <2>2, <3>1, Zenon DEF UpInv, LogInv
    <3>5. ~Settles(j)
      BY <3>1, Zenon DEF Settles
    <3>6. CoverInv(j)'
      BY <2>1, <2>2, <3>5, CoverKept, Zenon DEF UpInv
    <3>7. CycleInv(j)'
      BY <2>1, <2>2, <3>5, CycleKept, Zenon DEF UpInv
    <3> QED
      BY <3>3, <3>4, <3>6, <3>7, Zenon DEF UpInv
  <2> QED
    BY <2>3, <2>4, Zenon
<1>9. mode' = "up" /\ replay' = {} /\ step' \in Steps
  BY <1>1, <1>2 DEF ModeInv
<1>10. risky' = risky
  BY <1>1, Zenon DEF histVars
<1> QED
  BY <1>6, <1>7, <1>8, <1>9, <1>10, UpStep, Zenon

\* p without its first n records.
Rest(p, n) == SubSeq(p, n + 1, Len(p))

LEMMA Shorter ==
  ASSUME NEW p \in Seq(Records), NEW n \in 1 .. Len(p), HasLast(p)
  PROVE  /\ Rest(p, n) \in Seq(Records) /\ HasLast(Rest(p, n))
         /\ \A k : Waits(Rest(p, n), k) => Waits(p, k)
         /\ \A k : (\A i \in 1 .. n : p[i].key # k) /\ Waits(p, k) => Waits(Rest(p, n), k)
         /\ \A k, i : LastIn(Rest(p, n), k, Len(Rest(p, n)), i) =>
              LastIn(p, k, Len(p), n + i) /\ Rest(p, n)[i] = p[n + i]
         /\ \A k, i : ~Waits(Rest(p, n), k) /\ LastIn(p, k, n, i) => LastIn(p, k, Len(p), i)
<1> DEFINE q == Rest(p, n)
<1>1. /\ Len(p) \in Nat /\ q \in Seq(Records) /\ Len(q) = Len(p) - n
      /\ \A i \in 1 .. Len(q) : q[i] = p[n + i]
  BY DEF Rest
<1> HIDE DEF q
<1>2. /\ \A i \in 1 .. Len(q) : n + i \in 1 .. Len(p) /\ n + i > n
      /\ \A i \in 1 .. n : i \in 1 .. Len(p)
      /\ \A i \in 1 .. Len(p) : i \in 1 .. n \/ (i - n \in 1 .. Len(q) /\ n + (i - n) = i)
  BY <1>1
<1>3. ASSUME NEW k PROVE Waits(q, k) => Waits(p, k)
  BY <1>1, <1>2, Zenon DEF Waits
<1>4. ASSUME NEW i \in 1 .. Len(p), i \notin 1 .. n
      PROVE  i - n \in 1 .. Len(q) /\ q[i - n] = p[i] /\ n + (i - n) = i
  BY <1>1, <1>2, <1>4, Zenon
<1>5. ASSUME NEW k, \A i \in 1 .. n : p[i].key # k, Waits(p, k) PROVE Waits(q, k)
  <2>1. PICK i \in 1 .. Len(p) : p[i].key = k
    BY <1>5, Zenon DEF Waits
  <2>2. i \notin 1 .. n
    BY <1>5, <2>1, Zenon
  <2> QED
    BY <1>4, <2>1, <2>2, Zenon DEF Waits
<1>6. ASSUME NEW k, NEW m \in 0 .. Len(q), NEW i, LastIn(p, k, n + m, i), i \notin 1 .. n
      PROVE  i - n \in 1 .. m /\ LastIn(q, k, m, i - n)
  <2>1. i \in 1 .. n + m /\ p[i].key = k /\ \A j \in 1 .. n + m : p[j].key = k => j <= i
    BY <1>6, Zenon DEF LastIn
  <2>2. i \in 1 .. Len(p) /\ i - n \in 1 .. m
    BY <1>1, <1>6, <2>1
  <2>3. q[i - n].key = k
    BY <1>4, <1>6, <2>1, <2>2, Zenon
  <2>4. ASSUME NEW j \in 1 .. m, q[j].key = k PROVE j <= i - n
    <3>1. j \in 1 .. Len(q) /\ n + j \in 1 .. n + m
      BY <1>1
    <3>2. n + j <= i
      BY <1>1, <2>1, <2>4, <3>1, Zenon
    <3> QED
      BY <2>1, <3>2
  <2> QED
    BY <2>2, <2>3, <2>4, Zenon DEF LastIn
<1>7. HasLast(q)
  <2> SUFFICES ASSUME NEW k \in Keys, NEW m \in 0 .. Len(q), NEW j \in 1 .. m, q[j].key = k
               PROVE  \E i \in 1 .. m : LastIn(q, k, m, i)
    BY Zenon DEF HasLast
  <2>1. n + m \in 0 .. Len(p) /\ n + j \in 1 .. n + m /\ j \in 1 .. Len(q) /\ n + j > n
    BY <1>1
  <2>2. p[n + j].key = k
    BY <1>1, <2>1, Zenon
  <2>3. PICK i \in 1 .. n + m : LastIn(p, k, n + m, i)
    BY <2>1, <2>2, Zenon DEF HasLast
  <2>4. n + j <= i
    BY <2>1, <2>2, <2>3, Zenon DEF LastIn
  <2>5. i \notin 1 .. n
    BY <2>1, <2>4
  <2> QED
    BY <1>6, <2>3, <2>5, Zenon
<1>8. ASSUME NEW k, NEW i, LastIn(q, k, Len(q), i)
      PROVE  LastIn(p, k, Len(p), n + i) /\ q[i] = p[n + i]
  <2>1. i \in 1 .. Len(q) /\ q[i].key = k /\ \A j \in 1 .. Len(q) : q[j].key = k => j <= i
    BY <1>8, Zenon DEF LastIn
  <2>2. ASSUME NEW j \in 1 .. Len(p), p[j].key = k PROVE j <= n + i
    <3>1. CASE j \in 1 .. n
      BY <2>1, <3>1
    <3>2. CASE j \notin 1 .. n
      <4>1. j - n \in 1 .. Len(q) /\ q[j - n].key = k
        BY <1>4, <2>2, <3>2, Zenon
      <4>2. j - n <= i
        BY <2>1, <4>1, Zenon
      <4> QED
        BY <2>1, <4>2
    <3> QED
      BY <3>1, <3>2, Zenon
  <2> QED
    BY <1>1, <1>2, <2>1, <2>2, Zenon DEF LastIn
<1>9. ASSUME NEW k, NEW i, ~Waits(q, k), LastIn(p, k, n, i) PROVE LastIn(p, k, Len(p), i)
  <2>1. i \in 1 .. n /\ p[i].key = k /\ \A j \in 1 .. n : p[j].key = k => j <= i
    BY <1>9, Zenon DEF LastIn
  <2>2. ASSUME NEW j \in 1 .. Len(p), p[j].key = k PROVE j <= i
    BY <1>4, <1>9, <2>1, <2>2, Zenon DEF Waits
  <2> QED
    BY <1>2, <2>1, <2>2, Zenon DEF LastIn
<1> QED
  BY <1>1, <1>3, <1>5, <1>7, <1>8, <1>9, Zenon DEF q

LEMMA Prefix ==
  ASSUME NEW p \in Seq(Records), NEW n \in 0 .. Len(p)
  PROVE  /\ SubSeq(p, 1, n) \in Seq(Records) /\ Len(SubSeq(p, 1, n)) = n
         /\ \A i \in 1 .. n : SubSeq(p, 1, n)[i] = p[i]
OBVIOUS

LEMMA MaxLast ==
  ASSUME NEW p, NEW k, NEW n \in Nat, NEW m, LastIn(p, k, n, m)
  PROVE  LastIn(p, k, n, Max({i \in 1 .. n : p[i].key = k}))
<1> DEFINE own == {i \in 1 .. n : p[i].key = k}
<1>1. m \in own /\ \A y \in own : m >= y
  BY DEF LastIn
<1>2. Max(own) \in own /\ \A y \in own : Max(own) >= y
  BY <1>1, Zenon DEF Max
<1> QED
  BY <1>2 DEF LastIn

\* The segments have numbers up to the active one's.
LEMMA SegOrder ==
  ASSUME SegType
  PROVE  /\ Segments(seg) /\ gen \in DOMAIN seg /\ gen \in Int
         /\ \A h \in DOMAIN seg : h \in Int /\ h <= gen
BY DEF SegType

LEMMA CommitInv ==
  ASSUME Inv, NEW n \in 1 .. Len(pending), CommitRound(n) PROVE Inv'
<1> DEFINE b == SubSeq(pending, 1, n)
           own(k) == {i \in 1 .. n : pending[i].key = k}
<1>1. /\ mode = "up" /\ seg' = Appended(seg, gen, b) /\ pending' = Rest(pending, n)
      /\ last' = [k \in Keys |-> IF own(k) = {} THEN last[k] ELSE pending[Max(own(k))].val]
      /\ UNCHANGED <<mode, t1, used, stored, step, target, dump, todo, file, synced, gen,
                     manifest, chk, onDisk, replay, puts, bulk, may, risky, crashes>>
  BY Zenon DEF CommitRound, Appended, Rest, cycleVars
<1>2. MemType /\ DiskType /\ SegType /\ ModeInv /\ SyncInv /\ PendingInv
  BY Zenon DEF Inv
<1>3. pending \in Seq(Records) /\ HasLast(pending)
  BY <1>2, Zenon DEF MemType, PendingInv
<1>4. n \in Nat /\ n \in 0 .. Len(pending)
  BY <1>3
<1>5. b \in Seq(Records) /\ Len(b) = n /\ \A i \in 1 .. n : b[i] = pending[i]
  BY <1>3, <1>4, Prefix, Zenon
<1> HIDE DEF b
<1>6. /\ Segments(seg) /\ gen \in DOMAIN seg /\ gen \in Int
      /\ \A h \in DOMAIN seg : h \in Int /\ h <= gen
  BY <1>2, SegOrder, Zenon
<1>7. DOMAIN seg' = DOMAIN seg /\ Segments(seg')
  BY <1>1, <1>5, <1>6, AppendedFacts, Zenon
<1>8. ASSUME NEW k
      PROVE  \A g : LoggedIn(seg', k, g) <=> LoggedIn(seg, k, g) \/ (g = gen /\ own(k) # {})
  <2>1. own(k) # {} <=> Waits(b, k)
    BY <1>5, Zenon DEF Waits
  <2>2. ASSUME NEW g
        PROVE  LoggedIn(seg', k, g) <=> LoggedIn(seg, k, g) \/ (g = gen /\ Waits(b, k))
    BY <1>1, <1>5, <1>6, AppendedLogged, Zenon
  <2> QED
    BY <2>1, <2>2, Zenon
<1>9. /\ pending' \in Seq(Records) /\ HasLast(pending')
      /\ \A k : Waits(pending', k) => Waits(pending, k)
      /\ \A k : (\A i \in 1 .. n : pending[i].key # k) /\ Waits(pending, k) => Waits(pending', k)
      /\ \A k, i : LastIn(pending', k, Len(pending'), i) =>
           LastIn(pending, k, Len(pending), n + i) /\ pending'[i] = pending[n + i]
      /\ \A k, i : ~Waits(pending', k) /\ LastIn(pending, k, n, i) =>
           LastIn(pending, k, Len(pending), i)
  BY <1>1, <1>3, Shorter, Zenon
<1>10. MemType'
  BY <1>1, <1>2, <1>9, Zenon DEF MemType
<1>11. DiskType' /\ SegType' /\ SyncInv' /\ PendingInv'
  <2>1. DiskType'
    BY <1>1, <1>2, Zenon DEF DiskType
  <2>2. SegType'
    BY <1>1, <1>2, <1>7, Zenon DEF SegType
  <2>3. SyncInv'
    BY <1>1, <1>2, Zenon DEF SyncInv
  <2> QED
    BY <1>9, <2>1, <2>2, <2>3, Zenon DEF PendingInv
<1>12. ASSUME NEW k \in Keys \ risky PROVE UpInv(k)'
  <2>1. UpInv(k)
    BY <1>1, Zenon DEF Inv, KeyInv
  <2>2. Value(k)' = Value(k) /\ stored'[k] = stored[k] /\ bulk'[k] = bulk[k]
    BY <1>1, Zenon DEF Value
  <2>3. ASSUME NEW i \in 1 .. Len(pending'), LastIn(pending', k, Len(pending'), i), stored[k] = None
        PROVE  Value(k) = pending'[i].val
    <3>1. LastIn(pending, k, Len(pending), n + i) /\ pending'[i] = pending[n + i]
      BY <1>9, <2>3, Zenon
    <3>2. n + i \in 1 .. Len(pending)
      BY <3>1, Zenon DEF LastIn
    <3> QED
      BY <2>1, <2>3, <3>1, <3>2, Zenon DEF UpInv, MemInv
  <2>4. CASE own(k) = {}
    <3>1. last'[k] = last[k] /\ \A i \in 1 .. n : pending[i].key # k
      BY <1>1, <2>4, Zenon
    <3>2. (Waiting(k)' <=> Waiting(k)) /\ (Quiet(k)' <=> Quiet(k))
      BY <1>9, <2>2, <3>1, Zenon DEF Waiting, Quiet
    <3>3. MemInv(k)'
      BY <1>1, <2>1, <2>2, <2>3, <3>1, <3>2, Zenon DEF UpInv, MemInv
    <3>4. /\ \A g : LoggedIn(seg', k, g) <=> LoggedIn(seg, k, g)
          /\ Logged(seg', k) <=> Logged(seg, k)
      BY <1>7, <1>8, <2>4, Zenon DEF Logged
    <3>5. LastLogged(seg, k, last[k]) => LastLogged(seg', k, last[k])
      <4>1. \A m \in 1 .. Len(b) : b[m].key # k
        BY <1>5, <3>1, Zenon
      <4> QED
        BY <1>1, <1>5, <1>6, <4>1, LastKept, Zenon
    <3>6. LogInv(k)'
      BY <2>1, <2>2, <3>1, <3>2, <3>4, <3>5, Zenon DEF UpInv, LogInv
    <3>7. ~Settles(k)
      BY <3>2, Zenon DEF Settles
    <3>8. CoverInv(k)'
      BY <1>1, <2>1, <3>1, <3>4, <3>7, CoverKept, Zenon DEF UpInv
    <3>9. CycleInv(k)'
      BY <1>1, <2>1, <3>4, <3>7, CycleKept, Zenon DEF UpInv
    <3> QED
      BY <3>3, <3>6, <3>8, <3>9, Zenon DEF UpInv
  <2>5. CASE own(k) # {}
    <3> DEFINE m == Max(own(k))
    <3>1. LastIn(pending, k, n, m)
      <4>1. \E i \in 1 .. n : LastIn(pending, k, n, i)
        BY <1>3, <1>4, <2>5, Zenon DEF HasLast
      <4> QED
        BY <1>4, <4>1, MaxLast, Zenon
    <3>2. last'[k] = pending[m].val
      BY <1>1, <2>5, Zenon
    <3> HIDE DEF m
    <3>3. /\ m \in 1 .. n /\ pending[m].key = k
          /\ \A j \in 1 .. n : pending[j].key = k => j <= m
      BY <3>1, Zenon DEF LastIn
    <3>4. m \in 1 .. Len(pending)
      BY <1>3, <3>3
    <3>5. Waiting(k) /\ bulk[k] = None
      BY <2>1, <3>3, <3>4, Zenon DEF Waiting, Waits, UpInv, LogInv
    <3>6. ASSUME Quiet(k)' PROVE Value(k) = last'[k]
      <4>1. LastIn(pending, k, Len(pending), m)
        BY <1>9, <3>1, <3>6, Zenon DEF Quiet, Waiting
      <4>2. stored[k] = None
        BY <2>2, <3>6, Zenon DEF Quiet
      <4> QED
        BY <2>1, <3>2, <3>4, <4>1, <4>2, Zenon DEF UpInv, MemInv
    <3>7. MemInv(k)'
      BY <1>1, <2>1, <2>2, <2>3, <3>5, <3>6, Zenon DEF UpInv, MemInv
    <3>8. LastLogged(seg', k, last'[k])
      <4>1. b[m].val = last'[k]
        BY <1>5, <3>2, <3>3, Zenon
      <4>2. LastIn(b, k, Len(b), m)
        BY <1>5, <3>3, Zenon DEF LastIn
      <4>3. b \in Seq(Records)
        BY <1>5, Zenon
      <4>4. LastLogged(Appended(seg, gen, b), k, b[m].val)
        BY <1>6, <4>2, <4>3, LastAppended
      <4>5. seg' = Appended(seg, gen, b)
        BY <1>1, Zenon
      <4> QED
        BY <4>1, <4>4, <4>5, Zenon
    <3>9. LogInv(k)'
      BY <2>2, <3>5, <3>8, Zenon DEF LogInv
    <3>10. LoggedIn(seg', k, gen) /\ Logged(seg', k)
      BY <1>6, <1>7, <1>8, <2>5, Zenon DEF Logged
    <3>11. CoverInv(k)' /\ CycleInv(k)'
      BY <1>1, <2>1, <3>10, Zenon DEF CoverInv, CycleInv, UpInv
    <3> QED
      BY <3>7, <3>9, <3>11, Zenon DEF UpInv
  <2> QED
    BY <2>4, <2>5, Zenon
<1>13. mode' = "up" /\ replay' = {} /\ step' \in Steps
  BY <1>1, <1>2 DEF ModeInv
<1> QED
  BY <1>1, <1>10, <1>11, <1>12, <1>13, UpStep, Zenon

-----------------------------------------------------------------------------
(* The checkpoint.                                                         *)

\* A step of the checkpoint that is none of a writer's business.
LEMMA Untouched ==
  ASSUME Inv, mode = "up", NEW k \in Keys \ risky,
         UNCHANGED <<t1, used, file, stored, pending, bulk, last>>
  PROVE  UpInv(k) /\ MemInv(k)' /\ (Waiting(k)' <=> Waiting(k)) /\ (Quiet(k)' <=> Quiet(k))
<1>1. UpInv(k)
  BY Zenon DEF Inv, KeyInv
<1>2. Value(k)' = Value(k)
  BY Zenon DEF Value
<1>3. (Waiting(k)' <=> Waiting(k)) /\ (Quiet(k)' <=> Quiet(k))
  BY Zenon DEF Waiting, Quiet
<1> QED
  BY <1>1, <1>2, <1>3, Zenon DEF UpInv, MemInv

\* The same, of a step that leaves the files alone.
LEMMA UntouchedFiles ==
  ASSUME Inv, mode = "up", NEW k \in Keys \ risky,
         UNCHANGED <<t1, used, file, stored, pending, bulk, last, seg, manifest, chk>>
  PROVE  /\ UpInv(k) /\ MemInv(k)' /\ LogInv(k)' /\ CoverInv(k)' /\ (Quiet(k)' <=> Quiet(k))
         /\ t1[k] <= used
<1>1. UpInv(k) /\ MemInv(k)' /\ (Waiting(k)' <=> Waiting(k)) /\ (Quiet(k)' <=> Quiet(k))
  BY Untouched, Zenon
<1>2. LogInv(k)'
  BY <1>1, Zenon DEF UpInv, LogInv
<1>3. CoverInv(k)'
  BY <1>1, Zenon DEF UpInv, CoverInv
<1> QED
  BY <1>1, <1>2, <1>3, Zenon DEF UpInv, MemInv

LEMMA CaptureInv ==
  ASSUME Inv, Capture PROVE Inv'
<1>1. /\ mode = "up" /\ step = "idle" /\ target' = used /\ step' = "msync"
      /\ UNCHANGED <<mode, t1, used, stored, pending, dump, todo, file, synced, gen, seg, manifest,
                     chk, onDisk, replay, puts, last, bulk, may, risky, crashes>>
  BY Zenon DEF Capture, diskVars, histVars
<1>2. MemType /\ DiskType /\ SegType /\ ModeInv /\ SyncInv /\ PendingInv
  BY Zenon DEF Inv
<1>3. MemType' /\ DiskType' /\ PendingInv'
  BY <1>1, <1>2, Zenon DEF MemType, DiskType, PendingInv
<1>4. SegType' /\ SyncInv'
  BY <1>1, <1>2 DEF SegType, SyncInv, Synced, Dumped, Named
<1>5. ASSUME NEW k \in Keys \ risky PROVE UpInv(k)'
  <2>1. MemInv(k)' /\ LogInv(k)' /\ CoverInv(k)' /\ t1[k] <= used
    BY <1>1, UntouchedFiles, Zenon
  <2>2. CycleInv(k)'
    BY <1>1, <2>1 DEF CycleInv, Synced, Dumped, Named
  <2> QED
    BY <2>1, <2>2, Zenon DEF UpInv
<1>6. mode' = "up" /\ replay' = {} /\ step' \in Steps
  BY <1>1, <1>2 DEF ModeInv, Steps
<1> QED
  BY <1>1, <1>3, <1>4, <1>5, <1>6, UpStep, Zenon

LEMMA MaxPair ==
  ASSUME NEW a \in Int, NEW b \in Int
  PROVE  Max({a, b}) \in {a, b} /\ a <= Max({a, b}) /\ b <= Max({a, b})
<1>1. \E x \in {a, b} : \A y \in {a, b} : x >= y
  <2>1. CASE a >= b
    BY <2>1
  <2>2. CASE b >= a
    BY <2>2
  <2> QED
    BY <2>1, <2>2
<1>2. Max({a, b}) \in {a, b} /\ \A y \in {a, b} : Max({a, b}) >= y
  BY <1>1, Zenon DEF Max
<1> QED
  BY <1>2

LEMMA MsyncInv ==
  ASSUME Inv, Msync PROVE Inv'
<1>1. /\ mode = "up" /\ step = "msync" /\ synced' = Max({synced, target}) /\ todo' = Keys
      /\ step' = "dump"
      /\ UNCHANGED <<mode, t1, used, stored, pending, target, dump, file, gen, seg, manifest,
                     chk, onDisk, replay, puts, last, bulk, may, risky, crashes>>
  BY Zenon DEF Msync, histVars
<1>2. MemType /\ DiskType /\ SegType /\ ModeInv /\ SyncInv /\ PendingInv
  BY Zenon DEF Inv
<1>3. /\ synced \in Int /\ target \in Int /\ manifest \in Int
      /\ synced \in Offsets /\ target \in Offsets
  BY <1>2 DEF DiskType, MemType, Offsets, None
<1>4. synced' \in {synced, target} /\ synced <= synced' /\ target <= synced'
  BY <1>1, <1>3, MaxPair, Zenon
<1>5. MemType' /\ PendingInv'
  BY <1>1, <1>2, Zenon DEF MemType, PendingInv
<1>6. DiskType'
  BY <1>1, <1>2, <1>3, <1>4, Zenon DEF DiskType
<1>7. SegType' /\ SyncInv'
  BY <1>1, <1>2, <1>3, <1>4 DEF SegType, SyncInv, Synced, Dumped, Named
<1>8. ASSUME NEW k \in Keys \ risky PROVE UpInv(k)'
  <2>1. UpInv(k) /\ MemInv(k)' /\ LogInv(k)' /\ CoverInv(k)' /\ (Quiet(k)' <=> Quiet(k))
    BY <1>1, UntouchedFiles, Zenon
  <2>2. CycleInv(k)'
    BY <1>1, <2>1 DEF CycleInv, UpInv, Synced, Dumped, Named
  <2> QED
    BY <2>1, <2>2, Zenon DEF UpInv
<1>9. mode' = "up" /\ replay' = {} /\ step' \in Steps
  BY <1>1, <1>2 DEF ModeInv, Steps
<1> QED
  BY <1>1, <1>5, <1>6, <1>7, <1>8, <1>9, UpStep, Zenon

LEMMA QuietFlight ==
  ASSUME NEW k \in Keys, MemType PROVE InFlight(k) = {} <=> Quiet(k)
<1>1. DOMAIN pending = 1 .. Len(pending)
  BY Elements, Zenon DEF MemType
<1> QED
  BY <1>1, Zenon DEF InFlight, Quiet, Waiting, Waits

\* What the dump misses of a key that is not risky has a record to come.
LEMMA DumpInv ==
  ASSUME Inv, RegionInv, NEW j \in Keys, DumpShard(j) PROVE Inv'
<1> DEFINE entry == IF Unmerged(j) THEN t1[j] ELSE sorted[j]
<1>1. /\ mode = "up" /\ step = "dump" /\ dump' = [dump EXCEPT ![j] = entry] /\ todo' = todo \ {j}
      /\ risky' = IF entry # t1[j] /\ Logless(j) THEN risky \cup {j} ELSE risky
      /\ UNCHANGED <<mode, t1, used, stored, pending, step, target, file, synced, gen, seg,
                     manifest, chk, onDisk, replay, puts, last, bulk, may, crashes>>
  BY Zenon DEF DumpShard, diskVars
<1>2. MemType /\ DiskType /\ SegType /\ ModeInv /\ SyncInv /\ PendingInv
  BY Zenon DEF Inv
<1>3. entry \in Offsets
  BY <1>2, Zenon DEF MemType, RegionInv
<1> HIDE DEF entry
<1>4. dump' \in [Keys -> Offsets] /\ dump'[j] = entry /\ \A k \in Keys \ {j} : dump'[k] = dump[k]
  BY <1>1, <1>2, <1>3, Zenon DEF MemType
<1>5. MemType' /\ DiskType' /\ PendingInv'
  BY <1>1, <1>2, <1>4, Zenon DEF MemType, DiskType, PendingInv
<1>6. SegType' /\ SyncInv'
  BY <1>1, <1>2 DEF SegType, SyncInv, Synced, Dumped, Named
<1>7. ASSUME Quiet(j), ~LoggedIn(seg, j, gen), j \notin risky' PROVE entry = t1[j]
  <2>1. Logless(j)
    BY <1>2, <1>7, QuietFlight, SegOrder, Zenon DEF Logless, LoggedIn
  <2> QED
    BY <1>1, <1>7, <2>1, Zenon
<1>8. ASSUME NEW k \in Keys \ risky' PROVE UpInv(k)'
  <2>1. k \in Keys \ risky
    BY <1>1, Zenon
  <2>2. UpInv(k) /\ MemInv(k)' /\ LogInv(k)' /\ CoverInv(k)' /\ (Quiet(k)' <=> Quiet(k))
    BY <1>1, <2>1, UntouchedFiles, Zenon
  <2>3. Quiet(k) /\ ~LoggedIn(seg, k, gen) /\ k \notin todo' => dump'[k] = t1[k]
    <3>1. CASE k = j
      BY <1>4, <1>7, <3>1, Zenon
    <3>2. CASE k # j
      BY <1>1, <1>4, <2>2, <3>2 DEF UpInv, CycleInv, Synced
    <3> QED
      BY <3>1, <3>2, Zenon
  <2>4. CycleInv(k)'
    BY <1>1, <2>2, <2>3 DEF CycleInv, UpInv, Synced, Dumped, Named
  <2> QED
    BY <2>2, <2>4, Zenon DEF UpInv
<1>9. mode' = "up" /\ replay' = {} /\ step' \in Steps
  BY <1>1, <1>2 DEF ModeInv
<1> QED
  BY <1>1, <1>5, <1>6, <1>8, <1>9, UpStep, Zenon

LEMMA FailInv ==
  ASSUME Inv, CheckpointFails PROVE Inv'
<1>1. /\ mode = "up" /\ step # "unlink" /\ step' = "idle" /\ todo' = {}
      /\ UNCHANGED <<mode, t1, used, stored, pending, target, dump, file, synced, gen, seg,
                     manifest, chk, onDisk, replay, puts, last, bulk, may, risky, crashes>>
  BY Zenon DEF CheckpointFails, diskVars, histVars
<1>2. MemType /\ DiskType /\ SegType /\ ModeInv /\ SyncInv /\ PendingInv
  BY Zenon DEF Inv
<1>3. MemType' /\ DiskType' /\ PendingInv'
  BY <1>1, <1>2, Zenon DEF MemType, DiskType, PendingInv
<1>4. SegType' /\ SyncInv'
  BY <1>1, <1>2 DEF SegType, SyncInv, Synced, Dumped, Named
<1>5. ASSUME NEW k \in Keys \ risky PROVE UpInv(k)'
  <2>1. MemInv(k)' /\ LogInv(k)' /\ CoverInv(k)'
    BY <1>1, UntouchedFiles, Zenon
  <2>2. CycleInv(k)'
    BY <1>1 DEF CycleInv, Synced, Dumped, Named
  <2> QED
    BY <2>1, <2>2, Zenon DEF UpInv
<1>6. mode' = "up" /\ replay' = {} /\ step' \in Steps
  BY <1>1, <1>2 DEF ModeInv, Steps
<1> QED
  BY <1>1, <1>3, <1>4, <1>5, <1>6, UpStep, Zenon

\* The temporary file is written or synced.
LEMMA TempInv ==
  ASSUME Inv, FsyncT1Checkpoint \/ WriteManifest \/ FsyncManifest PROVE Inv'
<1>1. /\ mode = "up"
      /\ \/ step = "dump" /\ todo = {} /\ step' = "rename"
         \/ step = "manifest" /\ step' = "fsync"
         \/ step = "fsync" /\ step' = "publish"
      /\ UNCHANGED <<mode, t1, used, stored, pending, target, dump, todo, file, synced, gen, seg,
                     manifest, chk, onDisk, replay, puts, last, bulk, may, risky, crashes>>
  BY Zenon DEF FsyncT1Checkpoint, WriteManifest, FsyncManifest, diskVars, histVars
<1>2. MemType /\ DiskType /\ SegType /\ ModeInv /\ SyncInv /\ PendingInv
  BY Zenon DEF Inv
<1>3. MemType' /\ DiskType' /\ PendingInv'
  BY <1>1, <1>2, Zenon DEF MemType, DiskType, PendingInv
<1>4. SegType' /\ SyncInv'
  BY <1>1, <1>2 DEF SegType, SyncInv, Synced, Dumped, Named
<1>5. ASSUME NEW k \in Keys \ risky PROVE UpInv(k)'
  <2>1. UpInv(k) /\ MemInv(k)' /\ LogInv(k)' /\ CoverInv(k)' /\ (Quiet(k)' <=> Quiet(k))
    BY <1>1, UntouchedFiles, Zenon
  <2>2. CycleInv(k)'
    BY <1>1, <2>1 DEF CycleInv, UpInv, Synced, Dumped, Named
  <2> QED
    BY <2>1, <2>2, Zenon DEF UpInv
<1>6. mode' = "up" /\ replay' = {} /\ step' \in Steps
  BY <1>1, <1>2 DEF ModeInv, Steps
<1> QED
  BY <1>1, <1>3, <1>4, <1>5, <1>6, UpStep, Zenon

\* A crash before the manifest finds the new T1 file beside the old manifest.
LEMMA FinishInv ==
  ASSUME Inv, RenameT1Checkpoint PROVE Inv'
<1>1. /\ mode = "up" /\ step = "rename" /\ chk' = dump /\ step' = "manifest"
      /\ UNCHANGED <<mode, t1, used, stored, pending, target, dump, todo, file, synced, gen, seg,
                     manifest, replay, puts, last, bulk, may, risky, crashes>>
  BY Zenon DEF RenameT1Checkpoint, histVars
<1>2. MemType /\ DiskType /\ SegType /\ ModeInv /\ SyncInv /\ PendingInv
  BY Zenon DEF Inv
<1>3. MemType' /\ PendingInv'
  BY <1>1, <1>2, Zenon DEF MemType, PendingInv
<1>4. DiskType'
  BY <1>1, <1>2, Zenon DEF MemType, DiskType
<1>5. SegType' /\ SyncInv'
  BY <1>1, <1>2 DEF SegType, SyncInv, Synced, Dumped, Named
<1>6. ASSUME NEW k \in Keys \ risky PROVE UpInv(k)'
  <2>1. UpInv(k) /\ MemInv(k)' /\ (Waiting(k)' <=> Waiting(k)) /\ (Quiet(k)' <=> Quiet(k))
    BY <1>1, Untouched, Zenon
  <2>2. LogInv(k)'
    BY <1>1, <2>1, Zenon DEF UpInv, LogInv
  <2>3. CoverInv(k)'
    <3>1. ASSUME Quiet(k), ~Logged(seg, k) PROVE dump[k] = t1[k]
      <4>1. ~LoggedIn(seg, k, gen)
        BY <3>1, Zenon DEF Logged, LoggedIn
      <4> QED
        BY <1>1, <2>1, <3>1, <4>1 DEF UpInv, CycleInv, Synced, Dumped, Named
    <3> QED
      BY <1>1, <2>1, <3>1, Zenon DEF UpInv, CoverInv
  <2>4. CycleInv(k)'
    BY <1>1, <2>1 DEF CycleInv, UpInv, Synced, Dumped, Named
  <2> QED
    BY <2>1, <2>2, <2>3, <2>4, Zenon DEF UpInv
<1>7. mode' = "up" /\ replay' = {} /\ step' \in Steps
  BY <1>1, <1>2 DEF ModeInv, Steps
<1> QED
  BY <1>1, <1>3, <1>4, <1>5, <1>6, <1>7, UpStep, Zenon

LEMMA ManifestInv ==
  ASSUME Inv, RenameManifest PROVE Inv'
<1> DEFINE covered == {k \in Keys : bulk[k] # None /\ dump[k] = t1[k] /\ t1[k] <= target}
<1>1. /\ mode = "up" /\ step = "publish" /\ manifest' = target /\ step' = "rotate"
      /\ last' = [k \in Keys |-> IF k \in covered THEN bulk[k] ELSE last[k]]
      /\ bulk' = [k \in Keys |-> IF k \in covered THEN None ELSE bulk[k]]
      /\ UNCHANGED <<mode, t1, used, stored, pending, target, dump, todo, file, synced, gen, seg,
                     chk, replay, puts, may, risky, crashes>>
  BY Zenon DEF RenameManifest
<1>2. MemType /\ DiskType /\ SegType /\ ModeInv /\ SyncInv /\ PendingInv
  BY Zenon DEF Inv
<1>3. /\ \A k \in covered : bulk[k] # None /\ dump[k] = t1[k] /\ t1[k] <= target
      /\ \A k \in Keys : IF k \in covered THEN last'[k] = bulk[k] /\ bulk'[k] = None
                         ELSE last'[k] = last[k] /\ bulk'[k] = bulk[k]
  BY <1>1, Zenon
<1>4. MemType' /\ PendingInv'
  <2>1. bulk' \in [Keys -> Nat \cup {None}]
    BY <1>1, <1>2 DEF MemType
  <2> QED
    BY <1>1, <1>2, <2>1, Zenon DEF MemType, PendingInv
<1> HIDE DEF covered
<1>5. DiskType'
  BY <1>1, <1>2, Zenon DEF MemType, DiskType
<1>6. SegType' /\ SyncInv'
  BY <1>1, <1>2 DEF SegType, SyncInv, Synced, Dumped, Named
<1>7. target # None
  BY <1>2 DEF MemType, Offsets, None
<1>8. ASSUME NEW k \in Keys \ risky PROVE UpInv(k)'
  <2>1. UpInv(k) /\ chk[k] = dump[k] /\ k \notin todo
    BY <1>1, <1>2 DEF Inv, KeyInv, UpInv, CycleInv, SyncInv, Synced, Dumped, Named
  <2>2. Value(k)' = Value(k) /\ (Waiting(k)' <=> Waiting(k))
    BY <1>1, Zenon DEF Value, Waiting
  <2>3. CASE k \in covered
    <3>1. /\ bulk[k] # None /\ dump[k] = t1[k] /\ t1[k] <= target
          /\ last'[k] = bulk[k] /\ bulk'[k] = None
      BY <1>3, <2>3, Zenon
    <3>2. stored[k] = None /\ ~Waiting(k) /\ ~Logged(seg, k)
      BY <2>1, <3>1, Zenon DEF UpInv, LogInv
    <3>3. Value(k) = bulk[k]
      BY <2>1, <3>1, <3>2, Zenon DEF UpInv, MemInv
    <3>4. MemInv(k)'
      <4>1. t1[k] <= used /\ stored'[k] = None
        BY <1>1, <2>1, <3>2, Zenon DEF UpInv, MemInv
      <4>2. \A i \in 1 .. Len(pending) : ~LastIn(pending, k, Len(pending), i)
        BY <3>2, Zenon DEF Waiting, Waits, LastIn
      <4> QED
        BY <1>1, <2>2, <3>1, <3>2, <3>3, <4>1, <4>2, Zenon DEF MemInv
    <3>5. LogInv(k)'
      BY <1>1, <3>1, <3>2, Zenon DEF LogInv
    <3>6. CoverInv(k)'
      BY <1>1, <1>7, <2>1, <3>1, Zenon DEF CoverInv
    <3>7. CycleInv(k)'
      BY <1>1, <2>1, <3>1 DEF CycleInv, Synced, Dumped, Named
    <3> QED
      BY <3>4, <3>5, <3>6, <3>7, Zenon DEF UpInv
  <2>4. CASE k \notin covered
    <3>1. last'[k] = last[k] /\ bulk'[k] = bulk[k] /\ stored'[k] = stored[k]
      BY <1>1, <1>3, <2>4, Zenon
    <3>2. Quiet(k)' <=> Quiet(k)
      BY <2>2, <3>1, Zenon DEF Quiet
    <3>3. MemInv(k)'
      BY <1>1, <2>1, <2>2, <3>1, <3>2, Zenon DEF UpInv, MemInv
    <3>4. LogInv(k)'
      BY <1>1, <2>1, <2>2, <3>1, Zenon DEF UpInv, LogInv
    <3>5. ASSUME Quiet(k), ~LoggedIn(seg, k, gen) PROVE dump[k] = t1[k] /\ t1[k] <= target
      BY <1>1, <2>1, <3>5 DEF UpInv, CycleInv, Synced, Dumped, Named
    <3>6. CoverInv(k)'
      <4>1. ~Logged(seg, k) => ~LoggedIn(seg, k, gen)
        BY Zenon DEF Logged, LoggedIn
      <4> QED
        BY <1>1, <1>7, <2>1, <3>2, <3>5, <4>1, Zenon DEF CoverInv
    <3>7. CycleInv(k)'
      BY <1>1, <2>1, <3>2, <3>5 DEF CycleInv, Synced, Dumped, Named
    <3> QED
      BY <3>3, <3>4, <3>6, <3>7, Zenon DEF UpInv
  <2> QED
    BY <2>3, <2>4, Zenon
<1>9. mode' = "up" /\ replay' = {} /\ step' \in Steps
  BY <1>1, <1>2 DEF ModeInv, Steps
<1> QED
  BY <1>1, <1>4, <1>5, <1>6, <1>8, <1>9, UpStep, Zenon

LEMMA OpenInv ==
  ASSUME Inv, OpenSegment PROVE Inv'
<1>1. /\ mode = "up" /\ step = "rotate" /\ gen' = gen + 1 /\ seg' = Opened(seg, gen + 1)
      /\ step' = "unlink"
      /\ UNCHANGED <<mode, t1, used, stored, pending, target, dump, todo, file, synced, manifest,
                     chk, onDisk, replay, puts, last, bulk, may, risky, crashes>>
  BY Zenon DEF OpenSegment, Opened, histVars
<1>2. MemType /\ DiskType /\ SegType /\ ModeInv /\ SyncInv /\ PendingInv
  BY Zenon DEF Inv
<1>3. Segments(seg) /\ gen + 1 \notin DOMAIN seg
  BY <1>2 DEF SegType
<1>4. /\ DOMAIN seg' = DOMAIN seg \cup {gen + 1} /\ Segments(seg')
      /\ \A k, g : LoggedIn(seg', k, g) <=> LoggedIn(seg, k, g)
      /\ \A k, v : LastLogged(seg, k, v) => LastLogged(seg', k, v)
  BY <1>1, <1>3, OpenedFacts, Zenon
<1>5. MemType' /\ DiskType' /\ PendingInv'
  BY <1>1, <1>2, Zenon DEF MemType, DiskType, PendingInv
<1>6. SegType'
  BY <1>1, <1>2, <1>4 DEF SegType
<1>7. SyncInv' /\ manifest = target /\ chk = dump
  BY <1>1, <1>2 DEF SyncInv, MemType, Offsets, None, Synced, Dumped, Named
<1>8. ASSUME NEW k \in Keys \ risky PROVE UpInv(k)'
  <2>1. UpInv(k) /\ MemInv(k)' /\ (Waiting(k)' <=> Waiting(k)) /\ (Quiet(k)' <=> Quiet(k))
    BY <1>1, Untouched, Zenon
  <2>2. Logged(seg', k) <=> Logged(seg, k)
    BY <1>4, Zenon DEF Logged, LoggedIn
  <2>3. LogInv(k)'
    BY <1>1, <1>4, <2>1, <2>2, Zenon DEF UpInv, LogInv
  <2>4. CoverInv(k)'
    BY <1>1, <2>1, <2>2, Zenon DEF UpInv, CoverInv
  <2>5. CycleInv(k)'
    <3>1. ASSUME Quiet(k), ~LoggedIn(seg, k, gen) PROVE dump[k] = t1[k] /\ t1[k] <= target
      BY <1>1, <2>1, <3>1 DEF UpInv, CycleInv, Synced, Dumped, Named
    <3>2. LoggedIn(seg', k, gen' - 1) <=> LoggedIn(seg, k, gen)
      <4>1. gen' - 1 = gen
        BY <1>1, <1>2 DEF SegType
      <4> QED
        BY <1>4, <4>1, Zenon
    <3> QED
      BY <1>1, <1>7, <2>1, <3>1, <3>2 DEF CycleInv, Synced, Dumped, Named
  <2> QED
    BY <2>1, <2>3, <2>4, <2>5, Zenon DEF UpInv
<1>9. mode' = "up" /\ replay' = {} /\ step' \in Steps
  BY <1>1, <1>2 DEF ModeInv, Steps
<1> QED
  BY <1>1, <1>5, <1>6, <1>7, <1>8, <1>9, UpStep, Zenon

LEMMA UnlinkInv ==
  ASSUME Inv, Unlink PROVE Inv'
<1>1. /\ mode = "up" /\ step = "unlink" /\ seg' = Dropped(seg, gen - 2) /\ step' = "idle"
      /\ UNCHANGED <<mode, t1, used, stored, pending, target, dump, todo, file, synced, gen,
                     manifest, chk, onDisk, replay, puts, last, bulk, may, risky, crashes>>
  BY Zenon DEF Unlink, Dropped, histVars
<1>2. MemType /\ DiskType /\ SegType /\ ModeInv /\ SyncInv /\ PendingInv
  BY Zenon DEF Inv
<1>3. PICK n : n = gen - 2 /\ Oldest(seg, n)
  BY <1>1, <1>2 DEF SegType, Oldest
<1>4. /\ DOMAIN seg' = DOMAIN seg \ {n} /\ Segments(seg')
      /\ \A k, g : LoggedIn(seg', k, g) <=> g # n /\ LoggedIn(seg, k, g)
      /\ \A k, v : LastLogged(seg, k, v) /\ Logged(seg', k) => LastLogged(seg', k, v)
  <2>1. seg' = Dropped(seg, n)
    BY <1>1, <1>3, Zenon
  <2>2. Without(seg, n, Dropped(seg, n))
    BY <1>3, DroppedFacts, Zenon
  <2>3. Without(seg, n, seg')
    BY <2>1, <2>2, Zenon
  <2> QED
    BY <2>3, Zenon DEF Without
<1>5. MemType' /\ DiskType' /\ PendingInv'
  BY <1>1, <1>2, Zenon DEF MemType, DiskType, PendingInv
<1>6. SegType'
  BY <1>1, <1>2, <1>3, <1>4 DEF SegType
<1>7. SyncInv' /\ manifest # None
  BY <1>1, <1>2 DEF SyncInv, Synced, Dumped, Named
<1>8. ASSUME NEW k \in Keys \ risky PROVE UpInv(k)'
  <2>1. UpInv(k) /\ MemInv(k)' /\ (Waiting(k)' <=> Waiting(k)) /\ (Quiet(k)' <=> Quiet(k))
    BY <1>1, Untouched, Zenon
  <2>2. Logged(seg', k) => Logged(seg, k)
    BY <1>4, Zenon DEF Logged, LoggedIn
  <2>3. LogInv(k)'
    BY <1>1, <1>4, <2>1, <2>2, Zenon DEF UpInv, LogInv
  <2>4. CoverInv(k)'
    <3>1. ASSUME Quiet(k), ~Logged(seg', k) PROVE chk[k] = t1[k] /\ t1[k] <= manifest
      <4>1. gen # n /\ gen - 1 # n
        <5>1. gen \in Int
          BY <1>2 DEF SegType
        <5> QED
          BY <1>3, <5>1
      <4>2. ~LoggedIn(seg, k, gen) /\ ~LoggedIn(seg, k, gen - 1)
        <5>1. ~LoggedIn(seg', k, gen) /\ ~LoggedIn(seg', k, gen - 1)
          BY <3>1, Zenon DEF Logged, LoggedIn
        <5> QED
          BY <1>4, <4>1, <5>1, Zenon
      <4> QED
        BY <1>1, <2>1, <3>1, <4>2, Zenon DEF UpInv, CycleInv
    <3> QED
      BY <1>1, <1>7, <2>1, <3>1, Zenon DEF CoverInv
  <2>5. CycleInv(k)'
    BY <1>1 DEF CycleInv, Synced, Dumped, Named
  <2> QED
    BY <2>1, <2>3, <2>4, <2>5, Zenon DEF UpInv
<1>9. mode' = "up" /\ replay' = {} /\ step' \in Steps
  BY <1>1, <1>2 DEF ModeInv, Steps
<1> QED
  BY <1>1, <1>5, <1>6, <1>7, <1>8, <1>9, UpStep, Zenon

-----------------------------------------------------------------------------
(* Crash and construction.                                                 *)

LEMMA NoneLast ==
  HasLast(<< >>)
<1>1. Len(<< >>) = 0 /\ \A n \in 0 .. 0 : 1 .. n = {}
  OBVIOUS
<1> QED
  BY <1>1, Zenon DEF HasLast

\* What the manifest promises is not lost.
LEMMA CkptKept ==
  ASSUME NEW k \in Keys, DiskType, UNCHANGED <<manifest, chk>>, chk[k] <= manifest,
         \A o \in 1 .. MaxOffset : o <= manifest => file'[o] = file[o]
  PROVE  CkptValue(k)' = CkptValue(k)
<1>1. CASE chk[k] # 0
  <2>1. chk[k] \in 1 .. MaxOffset
    BY <1>1 DEF DiskType, Offsets
  <2>2. file'[chk[k]] = file[chk[k]]
    BY <2>1, Zenon
  <2> QED
    BY <2>2, Zenon DEF CkptValue
<1>2. CASE chk[k] = 0
  BY <1>2, Zenon DEF CkptValue
<1> QED
  BY <1>1, <1>2, Zenon

LEMMA CrashInv ==
  ASSUME Inv, "unlink" \notin CrashSteps, NEW n \in 0 .. Len(pending),
         NEW lost \in SUBSET (synced + 1 .. used), NEW torn \in SUBSET Files, Crash(n, lost, torn)
  PROVE  Inv'
<1> DEFINE b == SubSeq(pending, 1, n)
<1>1. /\ mode \in {"up", "replay"} /\ step \in CrashSteps /\ mode' = "down"
      /\ file' = [o \in DOMAIN file |-> IF o \in lost THEN Blank ELSE file[o]]
      /\ seg' = Appended(seg, gen, b)
      /\ may' = IF mode = "replay" THEN may ELSE [k \in Keys |-> {last[k]} \cup InFlight(k)]
      /\ risky' = risky \cup {k \in Keys : InFlight(k) # {}}
      /\ t1' = [k \in Keys |-> 0] /\ used' = 0
      /\ stored' = [k \in Keys |-> None] /\ pending' = << >> /\ replay' = {}
      /\ bulk' = [k \in Keys |-> None]
      /\ step' = "idle" /\ target' = 0 /\ dump' = [k \in Keys |-> 0] /\ todo' = {}
      /\ UNCHANGED <<synced, gen, manifest, chk, puts, last>>
  BY Zenon DEF Crash, Appended
<1>2. MemType /\ DiskType /\ SegType /\ ModeInv /\ SyncInv /\ PendingInv
  BY Zenon DEF Inv
<1>3. pending \in Seq(Records)
  BY <1>2, Zenon DEF MemType
<1>4. b \in Seq(Records) /\ Len(b) = n /\ \A i \in 1 .. n : b[i] = pending[i]
  BY <1>3, Prefix, Zenon
<1>5. \A i \in 1 .. n : i \in 1 .. Len(pending)
  BY <1>3
<1> HIDE DEF b
<1>6. Segments(seg) /\ gen \in DOMAIN seg
  BY <1>2, SegOrder, Zenon
<1>7. DOMAIN seg' = DOMAIN seg /\ Segments(seg')
  <2>1. b \in Seq(Records) /\ seg' = Appended(seg, gen, b)
    BY <1>1, <1>4, Zenon
  <2> QED
    BY <1>6, <2>1, AppendedFacts, Zenon
<1>8. MemType'
  <2>1. 0 \in Offsets /\ << >> \in Seq(Records) /\ None \in Nat \cup {None}
    BY RecoveryAssumption DEF Offsets
  <2>2. /\ t1' \in [Keys -> Offsets] /\ dump' \in [Keys -> Offsets]
        /\ stored' \in [Keys -> Nat \cup {None}] /\ bulk' \in [Keys -> Nat \cup {None}]
    BY <1>1, <2>1, Zenon
  <2> QED
    BY <1>1, <1>2, <2>1, <2>2, Zenon DEF MemType
<1>9. DiskType'
  <2>1. DOMAIN file' = 1 .. MaxOffset
    BY <1>1, <1>2, Zenon DEF DiskType
  <2> QED
    BY <1>1, <1>2, <2>1, Zenon DEF DiskType
<1>10. SegType'
  BY <1>1, <1>2, <1>7 DEF SegType
<1>11. ModeInv' /\ SyncInv'
  BY <1>1, <1>2 DEF ModeInv, SyncInv, Steps, Synced, Dumped, Named
<1>12. PendingInv' /\ OrderInv'
  <2>1. PendingInv'
    BY <1>1, NoneLast, Zenon DEF PendingInv
  <2> QED
    BY <1>1, <2>1, Zenon DEF OrderInv
<1>13. \A o \in 1 .. MaxOffset : o <= manifest => file'[o] = file[o]
  <2>1. manifest \in Int /\ synced \in Int /\ manifest <= synced
    BY <1>2 DEF DiskType, SyncInv, Offsets, None, Synced, Dumped, Named
  <2>2. \A o \in 1 .. MaxOffset : o <= manifest => o \notin lost
    BY <2>1
  <2> QED
    BY <1>1, <1>2, <2>2, Zenon DEF DiskType
<1>14. ASSUME NEW k \in Keys \ risky' PROVE DownInv(k)'
  <2>1. k \in Keys \ risky /\ Quiet(k)
    BY <1>1, <1>2, QuietFlight, Zenon
  <2>2. ~Waits(b, k) /\ \A m \in 1 .. Len(b) : b[m].key # k
    BY <1>4, <1>5, <2>1, Zenon DEF Quiet, Waiting, Waits
  <2>3. ASSUME NEW g PROVE LoggedIn(seg', k, g) <=> LoggedIn(seg, k, g)
    BY <1>1, <1>4, <1>6, <2>2, AppendedLogged, Zenon
  <2>4. Logged(seg', k) <=> Logged(seg, k)
    BY <1>7, <2>3, Zenon DEF Logged
  <2>5. ASSUME NEW v, LastLogged(seg, k, v) PROVE LastLogged(seg', k, v)
    BY <1>1, <1>4, <1>6, <2>2, <2>5, LastKept, Zenon
  <2>6. CASE mode = "up"
    <3>1. UpInv(k)
      BY <2>1, <2>6, Zenon DEF Inv, KeyInv
    <3>2. last[k] \in may'[k]
      BY <1>1, <2>6
    <3>3. Logged(seg', k) => \E v \in may'[k] : LastLogged(seg', k, v)
      BY <2>4, <2>5, <3>1, <3>2, Zenon DEF UpInv, LogInv
    <3>4. CASE manifest = None /\ ~Logged(seg, k)
      <4>1. last[k] = 0
        BY <2>1, <3>1, <3>4, Zenon DEF UpInv, CoverInv
      <4>2. CkptValue(k)' = 0
        BY <1>1, <3>4, Zenon DEF CkptValue
      <4> QED
        BY <1>1, <2>4, <3>2, <3>4, <4>1, <4>2, Zenon DEF DownInv
    <3>5. CASE manifest # None /\ ~Logged(seg, k)
      <4>1. chk[k] = t1[k] /\ chk[k] <= manifest
        BY <2>1, <3>1, <3>5, Zenon DEF UpInv, CoverInv
      <4>2. CkptValue(k)' = CkptValue(k)
        BY <1>1, <1>2, <1>13, <4>1, CkptKept, Zenon
      <4>3. CkptValue(k) = Value(k)
        BY <3>5, <4>1, Zenon DEF CkptValue, Value
      <4>4. Value(k) = last[k]
        BY <2>1, <3>1, Zenon DEF UpInv, MemInv
      <4> QED
        BY <1>1, <2>4, <3>2, <3>5, <4>1, <4>2, <4>3, <4>4, Zenon DEF DownInv
    <3> QED
      BY <2>4, <3>3, <3>4, <3>5, Zenon DEF DownInv
  <2>7. CASE mode = "replay"
    <3>1. DownInv(k) /\ may' = may
      BY <1>1, <2>1, <2>7 DEF Inv, KeyInv
    <3>2. Logged(seg', k) => \E v \in may'[k] : LastLogged(seg', k, v)
      BY <2>4, <2>5, <3>1, Zenon DEF DownInv
    <3>3. ASSUME ~Logged(seg, k)
          PROVE  CkptValue(k)' = CkptValue(k)
      <4>1. CASE manifest = None
        BY <1>1, <4>1, Zenon DEF CkptValue
      <4>2. CASE manifest # None
        BY <1>1, <1>2, <1>13, <3>1, <3>3, <4>2, CkptKept, Zenon DEF DownInv
      <4> QED
        BY <4>1, <4>2, Zenon
    <3> QED
      BY <1>1, <2>4, <3>1, <3>2, <3>3, Zenon DEF DownInv
  <2> QED
    BY <1>1, <2>6, <2>7, Zenon
<1>15. \A k \in Keys \ risky' : KeyInv(k)'
  BY <1>1, <1>14 DEF KeyInv
<1> QED
  BY <1>8, <1>9, <1>10, <1>11, <1>12, <1>15, Zenon DEF Inv

LEMMA Manifest ==
  ASSUME FilesInv PROVE ReadManifest = manifest /\ (manifest # None => T1FileValid)
BY DEF FilesInv, ReadManifest, T1FileValid, Valid, Files

LEMMA RestartInv ==
  ASSUME Inv, FilesInv, Restart PROVE Inv'
<1>1. /\ mode = "down" /\ mode' = "replay" /\ replay' = Retained
      /\ IF ReadManifest = None THEN StartEmpty ELSE AdoptCheckpoint
      /\ UNCHANGED <<stored, pending, step, target, dump, todo, gen, seg, manifest, chk, onDisk,
                     puts, last, bulk, may, risky, crashes>>
  BY Zenon DEF Restart, histVars, cycleVars
<1>2. MemType /\ DiskType /\ SegType /\ ModeInv /\ SyncInv /\ PendingInv
  BY Zenon DEF Inv
<1>3. \/ /\ manifest = None /\ t1' = [k \in Keys |-> 0] /\ used' = 0 /\ synced' = 0
         /\ file' = [o \in DOMAIN file |-> Blank]
      \/ /\ manifest # None /\ t1' = chk /\ used' = manifest /\ synced' = manifest
         /\ file' = file
  BY <1>1, Manifest, Zenon DEF StartEmpty, AdoptCheckpoint
<1>4. 0 \in Offsets /\ manifest \in Int /\ (manifest # None => manifest \in Offsets)
  BY <1>2, RecoveryAssumption DEF DiskType, Offsets, None
<1>5. used' \in Offsets /\ synced' \in Offsets /\ manifest <= used' /\ manifest <= synced'
  BY <1>3, <1>4 DEF None
<1>6. t1' \in [Keys -> Offsets] /\ DOMAIN file' = 1 .. MaxOffset
  BY <1>2, <1>3, <1>4, Zenon DEF DiskType
<1>7. MemType' /\ DiskType' /\ PendingInv'
  BY <1>1, <1>2, <1>5, <1>6, Zenon DEF MemType, DiskType, PendingInv
<1>8. SegType'
  BY <1>1, <1>2, Zenon DEF SegType
<1>9. ModeInv' /\ SyncInv'
  BY <1>1, <1>2, <1>5 DEF ModeInv, SyncInv, Synced, Dumped, Named
<1>10. Retained' = Retained
  BY <1>1, Zenon DEF Retained
<1>11. OrderInv'
  BY <1>1, <1>10, Zenon DEF OrderInv
<1>12. ASSUME NEW k \in Keys \ risky PROVE DownInv(k)' /\ ReplayInv(k)'
  <2>1. DownInv(k)
    BY <1>1 DEF Inv, KeyInv
  <2>2. CkptValue(k)' = CkptValue(k)
    BY <1>1, <1>3, Zenon DEF CkptValue
  <2>3. DownInv(k)'
    BY <1>1, <2>1, <2>2, Zenon DEF DownInv
  <2>4. t1'[k] = IF manifest = None THEN 0 ELSE chk[k]
    BY <1>3, Zenon
  <2>5. ReplayInv(k)'
    BY <1>1, <1>10, <2>4, Zenon DEF ReplayInv, Played
  <2> QED
    BY <2>3, <2>5, Zenon
<1>13. \A k \in Keys \ risky' : KeyInv(k)'
  BY <1>1, <1>12 DEF KeyInv
<1> QED
  BY <1>7, <1>8, <1>9, <1>11, <1>13, Zenon DEF Inv

LEMMA Positions ==
  /\ \A p \in Retained : /\ p[1] \in DOMAIN seg /\ p[2] \in DOMAIN seg[p[1]]
                        /\ p = <<p[1], p[2]>>
  /\ \A g \in DOMAIN seg : \A i \in DOMAIN seg[g] :
       <<g, i>> \in Retained /\ <<g, i>>[1] = g /\ <<g, i>>[2] = i
BY DEF Retained

\* Of two positions one at most comes before the other.
LEMMA BeforeOnce ==
  ASSUME NEW p, NEW q, p[1] \in Int, p[2] \in Int, q[1] \in Int, q[2] \in Int,
         Before(p, q), Before(q, p)
  PROVE  FALSE
BY DEF Before

LEMMA RecordAt ==
  ASSUME SegType, NEW p \in Retained
  PROVE  /\ seg[p[1]][p[2]] \in Records /\ p[1] \in Int /\ p[2] \in Int
         /\ Logged(seg, Key(p))
<1>1. p[1] \in DOMAIN seg /\ p[2] \in DOMAIN seg[p[1]]
  BY Positions, Zenon
<1>2. seg[p[1]] \in Seq(Records) /\ p[1] \in Int
  BY <1>1, SegOrder, Zenon DEF Segments
<1>3. p[2] \in 1 .. Len(seg[p[1]]) /\ seg[p[1]][p[2]] \in Records
  BY <1>1, <1>2, Elements, Zenon
<1>4. Logged(seg, Key(p))
  BY <1>1, Zenon DEF Logged, LoggedIn, Key
<1> QED
  BY <1>2, <1>3, <1>4

LEMMA ReplayRecordInv ==
  ASSUME Inv, NEW p \in replay, ReplayRecord(p) PROVE Inv'
<1>1. /\ mode = "replay" /\ (\A q \in replay \ {p} : Before(p, q))
      /\ Apply(seg[p[1]][p[2]].key, seg[p[1]][p[2]].val)
      /\ replay' = replay \ {p}
      /\ UNCHANGED <<mode, stored, pending, step, target, dump, todo, synced, gen, seg, manifest,
                     chk, onDisk, puts, last, bulk, may, crashes>>
  BY Zenon DEF ReplayRecord, cycleVars
<1>2. MemType /\ DiskType /\ SegType /\ ModeInv /\ SyncInv /\ PendingInv /\ OrderInv
  BY Zenon DEF Inv
<1>3. p \in Retained
  BY <1>2, Zenon DEF OrderInv
<1>4. seg[p[1]][p[2]] \in Records /\ p[1] \in Int /\ p[2] \in Int /\ Logged(seg, Key(p))
  BY <1>2, <1>3, RecordAt, Zenon
<1>5. PICK key \in Keys, val \in Nat :
        key = Key(p) /\ val = seg[p[1]][p[2]].val /\ Apply(key, val)
  <2>1. Key(p) \in Keys /\ seg[p[1]][p[2]].val \in Nat
    BY <1>4 DEF Records, Key
  <2> QED
    BY <1>1, <2>1, Zenon DEF Key
<1>6. /\ t1' \in [Keys -> Offsets] /\ used' \in Offsets /\ used <= used'
      /\ DOMAIN file' = 1 .. MaxOffset
      /\ t1'[key] <= used' /\ Value(key)' = val
      /\ \A j \in Keys \ {key} : t1'[j] = t1[j] /\ (t1[j] <= used => Value(j)' = Value(j))
      /\ \A o \in 1 .. MaxOffset : o <= used => file'[o] = file[o]
      /\ risky \subseteq risky'
  BY <1>1, <1>2, <1>5, ApplyFacts
<1>7. MemType' /\ DiskType' /\ PendingInv'
  BY <1>1, <1>2, <1>6, Zenon DEF MemType, DiskType, PendingInv
<1>8. SegType' /\ SyncInv'
  BY <1>1, <1>2, Zenon DEF SegType, SyncInv
<1>9. used \in Int /\ used' \in Int /\ manifest \in Int /\ manifest <= used /\ manifest <= used'
  <2>1. used \in Int /\ manifest \in Int
    BY <1>2 DEF MemType, DiskType, Offsets, None
  <2>2. used' \in Offsets /\ used <= used'
    BY <1>6, Zenon
  <2>3. manifest <= used
    BY <1>1, <1>2, Zenon DEF ModeInv
  <2> QED
    BY <2>1, <2>2, <2>3 DEF Offsets
<1>10. ModeInv'
  BY <1>1, <1>2, <1>9 DEF ModeInv
<1>11. Retained' = Retained /\ \A q : Key(q)' = Key(q)
  BY <1>1, Zenon DEF Retained, Key
<1>12. OrderInv'
  <2>1. \A q \in Retained \ replay' : q \in Retained \ replay \/ q = p
    BY <1>1, Zenon
  <2> QED
    BY <1>1, <1>2, <1>11, <2>1, Zenon DEF OrderInv
<1>13. ASSUME NEW k \in Keys \ risky PROVE DownInv(k)'
  <2>1. DownInv(k)
    BY <1>1 DEF Inv, KeyInv
  <2>2. ASSUME ~Logged(seg, k) PROVE CkptValue(k)' = CkptValue(k)
    <3>1. CASE manifest = None
      BY <1>1, <3>1, Zenon DEF CkptValue
    <3>2. CASE manifest # None
      <4>1. \A o \in 1 .. MaxOffset : o <= manifest => file'[o] = file[o]
        <5>1. \A o \in 1 .. MaxOffset : o <= used => file'[o] = file[o]
          BY <1>6, Zenon
        <5>2. \A o \in 1 .. MaxOffset : o <= manifest => o <= used
          BY <1>9
        <5> QED
          BY <5>1, <5>2, Zenon
      <4> QED
        BY <1>1, <1>2, <2>1, <2>2, <3>2, <4>1, CkptKept, Zenon DEF DownInv
    <3> QED
      BY <3>1, <3>2, Zenon
  <2> QED
    BY <1>1, <2>1, <2>2, Zenon DEF DownInv
<1>14. ASSUME NEW k \in Keys \ risky PROVE ReplayInv(k)'
  <2>1. ReplayInv(k)
    BY <1>1, Zenon DEF Inv, KeyInv
  <2>2. ASSUME ~Logged(seg, k) PROVE t1'[k] = IF manifest = None THEN 0 ELSE chk[k]
    <3>1. key # k
      BY <1>4, <1>5, <2>2, Zenon
    <3> QED
      BY <1>6, <2>1, <2>2, <3>1, Zenon DEF ReplayInv
  <2>3. ASSUME NEW q \in Retained, Played(k, q)'
        PROVE  t1'[k] <= used' /\ Value(k)' = seg[q[1]][q[2]].val
    <3>1. /\ q \in Retained \ replay' /\ Key(q) = k
          /\ \A x \in Retained \ replay' : Key(x) = k => x = q \/ Before(x, q)
      BY <1>11, <2>3, Zenon DEF Played
    <3>2. CASE key = k
      <4>1. p = q \/ Before(p, q)
        BY <1>1, <1>3, <1>5, <3>1, <3>2, Zenon
      <4>2. ASSUME p # q PROVE FALSE
        <5>1. Before(q, p)
          BY <1>1, <1>2, <3>1, <4>2, Zenon DEF OrderInv
        <5>2. q[1] \in Int /\ q[2] \in Int
          BY <1>2, RecordAt, Zenon
        <5> QED
          BY <1>4, <4>1, <4>2, <5>1, <5>2, BeforeOnce, Zenon
      <4> QED
        BY <1>5, <1>6, <3>2, <4>2, Zenon
    <3>3. CASE key # k
      <4>1. q \in Retained \ replay
        BY <1>1, <1>5, <3>1, <3>3, Zenon
      <4>2. Played(k, q)
        BY <1>1, <3>1, <4>1, Zenon DEF Played
      <4>3. t1[k] <= used /\ Value(k) = seg[q[1]][q[2]].val
        BY <2>1, <4>2, Zenon DEF ReplayInv
      <4>4. t1'[k] = t1[k] /\ Value(k)' = Value(k) /\ t1[k] \in Int
        <5>1. t1[k] \in Offsets
          BY <1>2, Zenon DEF MemType
        <5>2. t1[k] \in Int
          BY <5>1 DEF Offsets
        <5>3. k \in Keys \ {key}
          BY <3>3, Zenon
        <5>4. t1'[k] = t1[k] /\ (t1[k] <= used => Value(k)' = Value(k))
          <6>1. \A j \in Keys \ {key} : t1'[j] = t1[j] /\ (t1[j] <= used => Value(j)' = Value(j))
            BY <1>6, Zenon
          <6> QED
            BY <5>3, <6>1, Zenon
        <5> QED
          BY <4>3, <5>2, <5>4, Zenon
      <4>5. used <= used'
        BY <1>6, Zenon
      <4>6. t1'[k] <= used'
        <5>1. t1'[k] \in Int /\ t1'[k] <= used
          BY <4>3, <4>4, Zenon
        <5>2. used \in Int /\ used' \in Int
          BY <1>9, Zenon
        <5> QED
          BY <4>5, <5>1, <5>2
      <4> QED
        BY <4>3, <4>4, <4>6, Zenon
    <3> QED
      BY <3>2, <3>3, Zenon
  <2> QED
    BY <1>1, <1>11, <2>2, <2>3, Zenon DEF ReplayInv
<1>15. \A k \in Keys \ risky' : KeyInv(k)'
  <2>1. \A k \in Keys \ risky' : k \in Keys \ risky
    BY <1>6, Zenon
  <2> QED
    BY <1>1, <1>13, <1>14, <2>1 DEF KeyInv
<1> QED
  BY <1>7, <1>8, <1>10, <1>12, <1>15, Zenon DEF Inv

\* When all is replayed, the key has what the files said.
LEMMA AllReplayed ==
  ASSUME Inv, mode = "replay", replay = {}, NEW k \in Keys \ risky
  PROVE  /\ Value(k) \in may[k] /\ t1[k] <= used
         /\ Logged(seg, k) => LastLogged(seg, k, Value(k))
         /\ ~Logged(seg, k) =>
              IF manifest = None THEN Value(k) = 0 ELSE chk[k] = t1[k] /\ t1[k] <= manifest
<1>1. DownInv(k) /\ ReplayInv(k)
  BY DEF Inv, KeyInv
<1>2. MemType /\ DiskType /\ SegType /\ ModeInv
  BY Zenon DEF Inv
<1>3. CASE Logged(seg, k)
  <2>1. PICK v \in may[k] : LastLogged(seg, k, v)
    BY <1>1, <1>3, Zenon DEF DownInv
  <2>2. PICK g \in DOMAIN seg : \E i \in DOMAIN seg[g] : LastAt(seg, k, g, i) /\ seg[g][i].val = v
    BY <2>1, Zenon DEF LastLogged
  <2>3. PICK i \in DOMAIN seg[g] : LastAt(seg, k, g, i) /\ seg[g][i].val = v
    BY <2>2, Zenon
  <2> DEFINE p == <<g, i>>
  <2>4. p \in Retained /\ p[1] = g /\ p[2] = i
    BY Positions, Zenon
  <2>5. ASSUME NEW q \in Retained, Key(q) = k PROVE q = p \/ Before(q, p)
    <3>1. q[1] \in DOMAIN seg /\ q[2] \in DOMAIN seg[q[1]] /\ q = <<q[1], q[2]>>
      BY Positions, Zenon
    <3>2. q[1] < g \/ (q[1] = g /\ q[2] <= i)
      BY <2>3, <2>5, <3>1, Zenon DEF LastAt, Key
    <3>3. q[1] \in Int /\ q[2] \in Int /\ i \in Int
      <4>1. q[1] \in Int /\ q[2] \in Int
        BY <1>2, RecordAt, Zenon
      <4>2. p[2] \in Int
        BY <1>2, <2>4, RecordAt, Zenon
      <4> QED
        BY <2>4, <4>1, <4>2, Zenon
    <3>4. q[2] <= i => q[2] < i \/ q[2] = i
      BY <3>3
    <3> QED
      BY <2>4, <3>1, <3>2, <3>4, Zenon DEF Before
  <2>6. Key(p) = k
    BY <2>3, <2>4, Zenon DEF LastAt, Key
  <2>7. Played(k, p)
    BY <2>4, <2>5, <2>6, Zenon DEF Played
  <2>8. t1[k] <= used /\ Value(k) = v
    BY <1>1, <2>3, <2>4, <2>7, Zenon DEF ReplayInv
  <2> QED
    BY <1>3, <2>1, <2>8, Zenon
<1>4. CASE ~Logged(seg, k)
  <2>1. /\ CkptValue(k) \in may[k] /\ (manifest # None => chk[k] <= manifest)
        /\ t1[k] = IF manifest = None THEN 0 ELSE chk[k]
    BY <1>1, <1>4, Zenon DEF DownInv, ReplayInv
  <2>2. Value(k) = CkptValue(k)
    BY <2>1, Zenon DEF Value, CkptValue
  <2>3. manifest = None => Value(k) = 0
    BY <2>1, Zenon DEF Value
  <2>4. t1[k] <= used
    <3>1. used \in Offsets /\ t1[k] \in Offsets /\ manifest \in Offsets \cup {None}
      BY <1>2, Zenon DEF MemType, DiskType
    <3>2. manifest # None => manifest <= used
      BY <1>2 DEF ModeInv
    <3> QED
      BY <2>1, <3>1, <3>2 DEF Offsets, None
  <2> QED
    BY <1>4, <2>1, <2>2, <2>3, <2>4, Zenon
<1> QED
  BY <1>3, <1>4, Zenon

LEMMA FinishRecoveryInv ==
  ASSUME Inv, FinishRecovery PROVE Inv'
<1>1. /\ mode = "replay" /\ replay = {} /\ mode' = "up" /\ last' = [k \in Keys |-> Value(k)]
      /\ UNCHANGED <<t1, used, stored, pending, step, target, dump, todo, file, synced, gen, seg,
                     manifest, chk, onDisk, replay, puts, bulk, may, risky, crashes>>
  BY Zenon DEF FinishRecovery, memVars, diskVars, cycleVars
<1>2. MemType /\ DiskType /\ SegType /\ ModeInv /\ SyncInv /\ PendingInv
  BY Zenon DEF Inv
<1>3. MemType' /\ DiskType' /\ PendingInv'
  BY <1>1, <1>2, Zenon DEF MemType, DiskType, PendingInv
<1>4. SegType' /\ SyncInv'
  BY <1>1, <1>2, Zenon DEF SegType, SyncInv
<1>5. step = "idle" /\ pending = << >> /\ \A k \in Keys : stored[k] = None /\ bulk[k] = None
  BY <1>1, <1>2 DEF ModeInv
<1>6. ASSUME NEW k \in Keys \ risky PROVE UpInv(k)'
  <2>1. /\ t1[k] <= used /\ (Logged(seg, k) => LastLogged(seg, k, Value(k)))
        /\ ~Logged(seg, k) =>
             IF manifest = None THEN Value(k) = 0 ELSE chk[k] = t1[k] /\ t1[k] <= manifest
    BY <1>1, AllReplayed, Zenon
  <2>2. Value(k)' = Value(k) /\ last'[k] = Value(k) /\ stored'[k] = None /\ bulk'[k] = None
    BY <1>1, <1>5, Zenon DEF Value
  <2>3. \A i \in 1 .. Len(pending') : FALSE
    <3>1. \A i \in 1 .. Len(<< >>) : FALSE
      OBVIOUS
    <3> QED
      BY <1>1, <1>5, <3>1, Zenon
  <2>4. MemInv(k)'
    BY <1>1, <2>1, <2>2, <2>3, Zenon DEF MemInv
  <2>5. LogInv(k)'
    BY <1>1, <2>1, <2>2, Zenon DEF LogInv
  <2>6. CoverInv(k)'
    BY <1>1, <2>1, <2>2, Zenon DEF CoverInv
  <2>7. CycleInv(k)'
    BY <1>1, <1>5 DEF CycleInv, Synced, Dumped, Named
  <2> QED
    BY <2>4, <2>5, <2>6, <2>7, Zenon DEF UpInv
<1>7. replay' = {} /\ step' \in Steps
  BY <1>1, <1>5 DEF Steps
<1> QED
  BY <1>1, <1>3, <1>4, <1>6, <1>7, UpStep, Zenon

-----------------------------------------------------------------------------
(* The invariant.                                                          *)

LEMMA InvInit ==
  ASSUME Init PROVE Inv
<1>1. 0 \in Offsets /\ None \in Nat \cup {None} /\ << >> \in Seq(Records) /\ 0 \in Nat
  BY RecoveryAssumption DEF Offsets
<1>2. MemType
  BY <1>1, Zenon DEF Init, MemType
<1>3. DiskType
  <2>1. DOMAIN file = 1 .. MaxOffset /\ chk \in [Keys -> Offsets]
    BY <1>1, Zenon DEF Init
  <2> QED
    BY <1>1, <2>1, Zenon DEF Init, DiskType
<1>4. DOMAIN seg = {1} /\ seg[1] = << >> /\ Segments(seg)
  BY <1>1, Zenon DEF Init, Segments
<1>5. SegType /\ ModeInv /\ SyncInv
  <2>1. /\ gen = 1 /\ step = "idle" /\ mode = "up" /\ replay = {}
        /\ manifest = None /\ synced = 0
    BY DEF Init
  <2>2. SegType
    BY <1>4, <2>1 DEF SegType
  <2>3. ModeInv
    BY <2>1 DEF ModeInv, Steps
  <2> QED
    BY <2>1, <2>2, <2>3 DEF SyncInv, None, Synced, Dumped, Named
<1>6. PendingInv /\ OrderInv
  BY NoneLast, Zenon DEF Init, PendingInv, OrderInv
<1>7. \A i \in 1 .. Len(pending) : FALSE
  BY DEF Init
<1>8. ASSUME NEW k \in Keys PROVE UpInv(k)
  <2>1. ~Logged(seg, k)
    <3>1. DOMAIN << >> = {}
      OBVIOUS
    <3> QED
      BY <1>4, <3>1, Zenon DEF Logged, LoggedIn
  <2>2. /\ t1[k] = 0 /\ t1[k] <= used /\ stored[k] = None /\ bulk[k] = None /\ last[k] = 0
        /\ Value(k) = 0 /\ manifest = None
    <3>1. t1[k] = 0 /\ used = 0 /\ stored[k] = None /\ bulk[k] = None /\ last[k] = 0
      BY Zenon DEF Init
    <3>2. Value(k) = 0
      BY <3>1, Zenon DEF Value
    <3>3. manifest = None
      BY Zenon DEF Init
    <3> QED
      BY <3>1, <3>2, <3>3
  <2>3. MemInv(k)
    BY <1>7, <2>2, Zenon DEF MemInv
  <2>4. LogInv(k) /\ CoverInv(k)
    BY <2>1, <2>2, Zenon DEF LogInv, CoverInv
  <2>5. CycleInv(k)
    BY DEF Init, CycleInv, Synced, Dumped, Named
  <2> QED
    BY <2>3, <2>4, <2>5, Zenon DEF UpInv
<1>9. \A k \in Keys \ risky : KeyInv(k)
  BY <1>8 DEF Init, KeyInv
<1> QED
  BY <1>2, <1>3, <1>5, <1>6, <1>9, Zenon DEF Inv

\* A step without effect, or one of a merge.
LEMMA IdleInv ==
  ASSUME Inv, UNCHANGED vars \/ \E k \in Keys : MergeBegins(k) \/ MergeEnds(k) PROVE Inv'
<1>1. /\ UNCHANGED <<mode, t1, used, stored, pending, step, target, dump, todo>>
      /\ UNCHANGED <<file, synced, gen, seg, manifest, chk, onDisk, replay>>
      /\ UNCHANGED <<puts, last, bulk, may, risky, crashes>>
  <2>1. CASE UNCHANGED vars
    BY <2>1, Zenon DEF vars, memVars, diskVars, histVars, cycleVars
  <2>2. ASSUME NEW k \in Keys, MergeBegins(k) \/ MergeEnds(k)
        PROVE  UNCHANGED <<mode, t1, used, stored, pending, cycleVars, diskVars, replay, histVars>>
    BY <2>2, Zenon DEF MergeBegins, MergeEnds
  <2> QED
    BY <2>1, <2>2, Zenon DEF diskVars, histVars, cycleVars
<1>2. (MemType /\ DiskType /\ SegType /\ ModeInv /\ SyncInv /\ PendingInv)'
  BY <1>1, Zenon DEF Inv, MemType, DiskType, SegType, ModeInv, SyncInv, PendingInv
<1>3. Retained' = Retained /\ (\A q : Key(q)' = Key(q)) /\ \A k : Value(k)' = Value(k)
  BY <1>1, Zenon DEF Retained, Key, Value
<1>4. OrderInv'
  BY <1>1, <1>3, Zenon DEF Inv, OrderInv
<1>5. ASSUME NEW k \in Keys \ risky PROVE KeyInv(k)'
  <2>1. KeyInv(k)
    BY Zenon DEF Inv
  <2>2. CASE mode = "up"
    <3>1. UpInv(k) /\ MemInv(k)' /\ (Waiting(k)' <=> Waiting(k)) /\ (Quiet(k)' <=> Quiet(k))
      BY <1>1, <2>2, Untouched, Zenon
    <3>2. LogInv(k)'
      BY <1>1, <3>1, Zenon DEF UpInv, LogInv
    <3>3. CoverInv(k)' /\ CycleInv(k)'
      BY <1>1, <3>1, Zenon DEF UpInv, CoverInv, CycleInv
    <3> QED
      BY <1>1, <2>2, <3>1, <3>2, <3>3 DEF KeyInv, UpInv
  <2>3. CASE mode # "up"
    <3>1. CkptValue(k)' = CkptValue(k)
      BY <1>1, Zenon DEF CkptValue
    <3>2. DownInv(k)'
      BY <1>1, <2>1, <2>3, <3>1, Zenon DEF KeyInv, DownInv
    <3>3. \A p : Played(k, p)' <=> Played(k, p)
      BY <1>1, <1>3, Zenon DEF Played
    <3>4. ReplayInv(k) => ReplayInv(k)'
      BY <1>1, <1>3, <3>3, Zenon DEF ReplayInv
    <3> QED
      BY <1>1, <2>1, <2>3, <3>2, <3>4, Zenon DEF KeyInv
  <2> QED
    BY <2>2, <2>3, Zenon
<1> QED
  BY <1>1, <1>2, <1>4, <1>5, Zenon DEF Inv

LEMMA InvStep ==
  ASSUME Inv, RegionInv, FilesInv, "unlink" \notin CrashSteps, [Next]_vars PROVE Inv'
<1>1. ASSUME NEW k \in Keys, NEW delete \in BOOLEAN, Store(k, delete) PROVE Inv'
  BY <1>1, StoreInv, Zenon
<1>2. ASSUME NEW k \in Keys, ReserveRecord(k) PROVE Inv'
  BY <1>2, ReserveInv, Zenon
<1>3. ASSUME NEW k \in Keys, BulkLoad(k) PROVE Inv'
  BY <1>3, BulkInv, Zenon
<1>4. ASSUME NEW k \in Keys, DumpShard(k) PROVE Inv'
  BY <1>4, DumpInv, Zenon
<1>5. ASSUME NEW n \in 1 .. Len(pending), CommitRound(n) PROVE Inv'
  BY <1>5, CommitInv, Zenon
<1>6. /\ FsyncT1Checkpoint \/ WriteManifest \/ FsyncManifest => Inv'
      /\ Capture \/ Msync \/ RenameT1Checkpoint \/ RenameManifest \/ CheckpointFails => Inv'
  BY CaptureInv, MsyncInv, TempInv, FinishInv, ManifestInv, FailInv, Zenon
<1>7. OpenSegment \/ Unlink \/ Restart \/ FinishRecovery => Inv'
  BY OpenInv, UnlinkInv, RestartInv, FinishRecoveryInv, Zenon
<1>8. ASSUME NEW n \in 0 .. Len(pending), NEW lost \in SUBSET (synced + 1 .. used),
             NEW torn \in SUBSET Files, Crash(n, lost, torn)
      PROVE  Inv'
  BY <1>8, CrashInv, Zenon
<1>9. ASSUME NEW p \in replay, ReplayRecord(p) PROVE Inv'
  BY <1>9, ReplayRecordInv, Zenon
<1>10. CASE UNCHANGED vars \/ \E k \in Keys : MergeBegins(k) \/ MergeEnds(k)
  BY <1>10, IdleInv, Zenon
<1> QED
  BY <1>1, <1>2, <1>3, <1>4, <1>5, <1>6, <1>7, <1>8, <1>9, <1>10, Zenon DEF Next

\* The invariant gives the property.
LEMMA InvAcked ==
  ASSUME Inv PROVE AckedSurvives
<1> SUFFICES ASSUME NEW k \in Keys \ risky
             PROVE  /\ Recovered => Value(k) \in may[k]
                    /\ mode = "up" => Value(k) \in {last[k]} \cup InFlight(k)
  BY Zenon DEF AckedSurvives
<1>1. Recovered => Value(k) \in may[k]
  BY AllReplayed, Zenon DEF Recovered
<1>2. ASSUME mode = "up" PROVE Value(k) \in {last[k]} \cup InFlight(k)
  <2>1. MemInv(k) /\ PendingInv /\ pending \in Seq(Records)
    BY <1>2, Zenon DEF Inv, KeyInv, UpInv, MemType
  <2>2. Len(pending) \in 0 .. Len(pending) /\ DOMAIN pending = 1 .. Len(pending)
    BY <2>1
  <2>3. CASE stored[k] # None
    BY <2>1, <2>3, Zenon DEF MemInv, InFlight
  <2>4. CASE stored[k] = None /\ Waiting(k)
    <3>1. PICK i \in 1 .. Len(pending) : LastIn(pending, k, Len(pending), i)
      BY <2>1, <2>2, <2>4, Zenon DEF PendingInv, HasLast, Waiting, Waits
    <3>2. Value(k) = pending[i].val /\ pending[i].key = k
      BY <2>1, <2>4, <3>1, Zenon DEF MemInv, LastIn
    <3> QED
      BY <2>2, <3>2, Zenon DEF InFlight
  <2>5. CASE stored[k] = None /\ ~Waiting(k) /\ bulk[k] # None
    BY <2>1, <2>5, Zenon DEF MemInv, InFlight
  <2>6. CASE Quiet(k)
    BY <2>1, <2>6, Zenon DEF MemInv
  <2> QED
    BY <2>3, <2>4, <2>5, <2>6, Zenon DEF Quiet
<1> QED
  BY <1>1, <1>2, Zenon

-----------------------------------------------------------------------------
(* The files, wherever a crash falls, and the regions of T1.               *)

LEMMA AppliedFiles ==
  ASSUME FilesInv, NEW k, NEW v, Apply(k, v),
         UNCHANGED <<mode, target, synced, manifest, onDisk, temp, step>>
  PROVE  FilesInv'
<1>1. used' = used \/ used' = used + 1
  BY Zenon DEF Apply
<1>2. used' \in Nat
  BY <1>1 DEF FilesInv
<1> QED
  BY <1>2, Zenon DEF FilesInv

LEMMA FilesStep ==
  ASSUME FilesInv, [Next]_vars PROVE FilesInv'
<1>1. ASSUME NEW k \in Keys, NEW delete \in BOOLEAN, Store(k, delete) PROVE FilesInv'
  BY <1>1, AppliedFiles, Zenon DEF Store, cycleVars
<1>2. ASSUME NEW k \in Keys, BulkLoad(k) PROVE FilesInv'
  BY <1>2, AppliedFiles, Zenon DEF BulkLoad, cycleVars
<1>3. ASSUME NEW p \in replay, ReplayRecord(p) PROVE FilesInv'
  BY <1>3, AppliedFiles, Zenon DEF ReplayRecord, cycleVars
<1>4. ASSUME UNCHANGED <<mode, used, target, synced, manifest, onDisk, temp, step>> PROVE FilesInv'
  BY <1>4, Zenon DEF FilesInv
<1>5. ASSUME NEW k \in Keys, ReserveRecord(k) \/ DumpShard(k) \/ MergeBegins(k) \/ MergeEnds(k)
      PROVE  FilesInv'
  BY <1>4, <1>5, Zenon DEF ReserveRecord, DumpShard, MergeBegins, MergeEnds, diskVars, cycleVars
<1>6. ASSUME NEW n \in 1 .. Len(pending), CommitRound(n) PROVE FilesInv'
  BY <1>4, <1>6, Zenon DEF CommitRound, cycleVars
<1>7. CASE Capture \/ CheckpointFails \/ OpenSegment \/ Unlink
  <2>1. /\ UNCHANGED <<mode, used, synced, manifest, onDisk>> /\ target' \in {used, target}
        /\ mode = "up" /\ step' \in {"msync", "idle", "unlink"}
    BY <1>7 DEF Capture, CheckpointFails, OpenSegment, Unlink, diskVars
  <2> QED
    BY <2>1 DEF FilesInv, Synced, Dumped, Named
<1>8. CASE Msync
  <2>1. /\ UNCHANGED <<mode, used, target, manifest, onDisk>> /\ mode = "up"
        /\ synced' = Max({synced, target}) /\ step' = "dump"
    BY <1>8, Zenon DEF Msync
  <2>2. synced \in Int /\ target \in Int
    BY DEF FilesInv
  <2>3. synced' \in {synced, target} /\ synced <= synced' /\ target <= synced'
    BY <2>1, <2>2, MaxPair, Zenon
  <2> QED
    BY <2>1, <2>3 DEF FilesInv, None, Synced, Dumped, Named
<1>9. CASE FsyncT1Checkpoint \/ WriteManifest \/ FsyncManifest
  <2>1. /\ UNCHANGED <<mode, used, target, synced, manifest, onDisk>> /\ mode = "up"
        /\ \/ step = "dump" /\ step' = "rename" /\ temp' = "synced"
           \/ step = "manifest" /\ step' = "fsync"
           \/ step = "fsync" /\ step' = "publish" /\ temp' = "synced"
    BY <1>9, Zenon DEF FsyncT1Checkpoint, WriteManifest, FsyncManifest, Fsync, diskVars
  <2> QED
    BY <2>1 DEF FilesInv, Synced, Dumped, Named
<1>10. CASE RenameT1Checkpoint \/ RenameManifest
  <2>1. PICK f \in Files :
          /\ UNCHANGED <<mode, used, target, synced>> /\ mode = "up" /\ Rename(f)
          /\ \/ step = "rename" /\ step' = "manifest" /\ manifest' = manifest /\ f = "t1"
             \/ step = "publish" /\ step' = "rotate" /\ manifest' = target /\ f = "manifest"
    BY <1>10, Zenon DEF RenameT1Checkpoint, RenameManifest, Files
  <2>2. onDisk' = [onDisk EXCEPT ![f] = "whole"]
    BY <2>1 DEF Rename, FilesInv
  <2>3. /\ onDisk' \in [Files -> {"none", "whole"}] /\ onDisk'[f] = "whole"
        /\ \A g \in Files : onDisk[g] = "whole" => onDisk'[g] = "whole"
    BY <2>2 DEF FilesInv
  <2> QED
    BY <2>1, <2>3 DEF FilesInv, Files, Synced, Dumped, Named
<1>11. ASSUME NEW n \in 0 .. Len(pending), NEW lost \in SUBSET (synced + 1 .. used),
              NEW torn \in SUBSET Files, Crash(n, lost, torn)
       PROVE  FilesInv'
  <2>1. /\ torn \subseteq {f \in Files : onDisk[f] = "cached"}
        /\ onDisk' = [f \in Files |-> IF f \in torn THEN "torn" ELSE onDisk[f]]
        /\ step' = "idle" /\ target' = 0 /\ used' = 0 /\ UNCHANGED <<synced, manifest>>
    BY <1>11, Zenon DEF Crash
  <2>2. torn = {}
    BY <2>1 DEF FilesInv
  <2>3. onDisk' = onDisk
    BY <2>1, <2>2 DEF FilesInv
  <2> QED
    BY <2>1, <2>3 DEF FilesInv, Synced, Dumped, Named
<1>12. CASE Restart
  <2>1. /\ mode = "down" /\ UNCHANGED <<target, manifest, onDisk, temp, step>>
        /\ IF ReadManifest = None THEN StartEmpty ELSE AdoptCheckpoint
    BY <1>12, Zenon DEF Restart, cycleVars
  <2>2. \/ manifest = None /\ used' = 0 /\ synced' = 0
        \/ manifest # None /\ used' = manifest /\ synced' = manifest
    BY <2>1, Manifest, Zenon DEF StartEmpty, AdoptCheckpoint
  <2>3. step = "idle"
    BY <2>1 DEF FilesInv
  <2> QED
    BY <2>1, <2>2, <2>3 DEF FilesInv, None, Synced, Dumped, Named
<1>13. CASE FinishRecovery
  <2>1. UNCHANGED <<used, target, synced, manifest, onDisk, temp, step>> /\ mode = "replay"
    BY <1>13, Zenon DEF FinishRecovery, memVars, diskVars, cycleVars
  <2>2. step = "idle"
    BY <2>1 DEF FilesInv
  <2> QED
    BY <2>1, <2>2, Zenon DEF FilesInv
<1>14. CASE UNCHANGED vars
  BY <1>4, <1>14, Zenon DEF vars, memVars, diskVars, cycleVars
<1> QED
  BY <1>1, <1>2, <1>3, <1>5, <1>6, <1>7, <1>8, <1>9, <1>10, <1>11, <1>12, <1>13, <1>14, Zenon
     DEF Next

LEMMA FilesAlways ==
  Spec => []FilesInv
<1>1. Init => FilesInv
  BY DEF Init, FilesInv, None, Synced, Dumped, Named
<1>2. FilesInv /\ [Next]_vars => FilesInv'
  BY FilesStep, Zenon
<1> QED
  BY <1>1, <1>2, PTL DEF Spec

LEMMA AppliedRegions ==
  ASSUME MemType, RegionInv, NEW k \in Keys, NEW v, Apply(k, v) PROVE RegionInv'
<1>1. ASSUME v # 0 PROVE used + 1 \in Offsets
  BY <1>1, RecoveryAssumption DEF Apply, MemType, Offsets
<1>2. 0 \in Offsets
  BY RecoveryAssumption DEF Offsets
<1>3. sorted' \in {sorted, [sorted EXCEPT ![k] = IF v = 0 THEN 0 ELSE used + 1]} /\ frozen' = frozen
  BY Zenon DEF Apply
<1>4. [sorted EXCEPT ![k] = IF v = 0 THEN 0 ELSE used + 1] \in [Keys -> Offsets]
  BY <1>1, <1>2, Zenon DEF RegionInv
<1> QED
  BY <1>3, <1>4, Zenon DEF RegionInv

LEMMA RegionStep ==
  ASSUME MemType, DiskType, SegType, OrderInv, RegionInv, [Next]_vars PROVE RegionInv'
<1>1. ASSUME NEW k \in Keys, NEW delete \in BOOLEAN, Store(k, delete) PROVE RegionInv'
  BY <1>1, AppliedRegions, Zenon DEF Store
<1>2. ASSUME NEW k \in Keys, BulkLoad(k) PROVE RegionInv'
  BY <1>2, AppliedRegions, Zenon DEF BulkLoad
<1>3. ASSUME NEW p \in replay, ReplayRecord(p) PROVE RegionInv'
  <2>1. seg[p[1]][p[2]] \in Records
    BY RecordAt, Zenon DEF OrderInv
  <2>2. seg[p[1]][p[2]].key \in Keys
    BY <2>1 DEF Records
  <2> QED
    BY <1>3, <2>2, AppliedRegions, Zenon DEF ReplayRecord
<1>4. ASSUME UNCHANGED regionVars PROVE RegionInv'
  BY <1>4, Zenon DEF RegionInv, regionVars
<1>5. ASSUME NEW k \in Keys, ReserveRecord(k) PROVE RegionInv'
  BY <1>4, <1>5, Zenon DEF ReserveRecord
<1>6. ASSUME NEW k \in Keys, DumpShard(k) PROVE RegionInv'
  BY <1>6, Zenon DEF DumpShard, RegionInv, MemType
<1>7. ASSUME NEW k \in Keys, MergeBegins(k) \/ MergeEnds(k) PROVE RegionInv'
  <2>1. CASE MergeBegins(k)
    BY <2>1, Zenon DEF MergeBegins, RegionInv, MemType
  <2>2. CASE MergeEnds(k)
    <3>1. frozen[k] \in Offsets
      BY <2>2, Zenon DEF MergeEnds, RegionInv
    <3> QED
      BY <2>2, <3>1, Zenon DEF MergeEnds, RegionInv
  <2> QED
    BY <1>7, <2>1, <2>2, Zenon
<1>8. ASSUME NEW n \in 1 .. Len(pending), CommitRound(n) PROVE RegionInv'
  BY <1>4, <1>8, Zenon DEF CommitRound
<1>9. CASE Capture \/ Msync \/ FsyncT1Checkpoint \/ RenameT1Checkpoint \/ WriteManifest
  BY <1>4, <1>9, Zenon DEF Capture, Msync, FsyncT1Checkpoint, RenameT1Checkpoint, WriteManifest
<1>10. CASE FsyncManifest \/ RenameManifest \/ CheckpointFails \/ OpenSegment \/ Unlink
  BY <1>4, <1>10, Zenon DEF FsyncManifest, RenameManifest, CheckpointFails, OpenSegment, Unlink
<1>11. ASSUME NEW n \in 0 .. Len(pending), NEW lost \in SUBSET (synced + 1 .. used),
              NEW torn \in SUBSET Files, Crash(n, lost, torn)
       PROVE  RegionInv'
  <2>1. 0 \in Offsets
    BY RecoveryAssumption DEF Offsets
  <2>2. sorted' = [k \in Keys |-> 0] /\ frozen' = [k \in Keys |-> None]
    BY <1>11, Zenon DEF Crash
  <2> QED
    BY <2>1, <2>2, Zenon DEF RegionInv
<1>12. CASE Restart
  <2>1. sorted' \in {sorted, chk} /\ frozen' = frozen
    BY <1>12, Zenon DEF Restart, StartEmpty, AdoptCheckpoint
  <2> QED
    BY <2>1, Zenon DEF RegionInv, DiskType
<1>13. CASE FinishRecovery \/ UNCHANGED vars
  BY <1>4, <1>13, Zenon DEF FinishRecovery, vars, memVars
<1> QED
  BY <1>1, <1>2, <1>3, <1>5, <1>6, <1>7, <1>8, <1>9, <1>10, <1>11, <1>12, <1>13, Zenon DEF Next

-----------------------------------------------------------------------------
(* The theorems.                                                           *)

\* Acknowledged values survive: after any number of crashes, at any step of a put,
\* a merge or a checkpoint but between the two of rotate_segment(), a key without a
\* put in flight at a crash has the value that was acknowledged last.  Nothing is
\* said of a key from the moment a merge in progress takes a delete of it, or hides
\* from checkpoint_all_shards() an entry whose record the cycle's rotation drops.
THEOREM AckedSurvivesCorrect ==
  ASSUME "unlink" \notin CrashSteps PROVE Spec => []AckedSurvives
<1>1. Init => Inv /\ RegionInv
  <2>1. ASSUME Init PROVE RegionInv
    <3>1. 0 \in Offsets
      BY RecoveryAssumption DEF Offsets
    <3> QED
      BY <2>1, <3>1, Zenon DEF Init, RegionInv
  <2> QED
    BY <2>1, InvInit, Zenon
<1>2. Inv /\ RegionInv /\ FilesInv /\ [Next]_vars => (Inv /\ RegionInv)'
  <2>1. ASSUME Inv, RegionInv, FilesInv, [Next]_vars PROVE RegionInv'
    BY <2>1, RegionStep, Zenon DEF Inv
  <2> QED
    BY <2>1, InvStep, Zenon
<1>3. Inv => AckedSurvives
  BY InvAcked, Zenon
<1> QED
  BY <1>1, <1>2, <1>3, FilesAlways, PTL DEF Spec

\* write_manifest() promises only bytes that msync() has brought to disk, wherever
\* a crash falls, between the two steps of rotate_segment() too.
THEOREM ManifestDurableCorrect ==
  Spec => []ManifestDurable
<1>1. FilesInv => ManifestDurable
  BY Zenon DEF FilesInv, ManifestDurable
<1> QED
  BY <1>1, FilesAlways, PTL

\* Wherever a crash falls, also between the write, the fsync and the rename of
\* either file, the first cycle's included, a manifest that the constructor reads
\* comes with a T1 checkpoint file it can read.
THEOREM ReopensCorrect ==
  Spec => []Reopens
<1>1. FilesInv => Reopens
  BY Manifest, Zenon DEF Reopens
<1> QED
  BY <1>1, FilesAlways, PTL
=============================================================================
