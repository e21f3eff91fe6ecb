---------------------------- MODULE T2StoreProofs ---------------------------
(***************************************************************************)
(* What the records of T2Capture hold: the stripe gives each key one       *)
(* writer at a time, so what T1 names is complete and agrees with the log, *)
(* and the base is durable; and what the readers of T2Read find in them.   *)
(***************************************************************************)
EXTENDS T2CaptureProofs, T2Read

USE DEF t2Vars, gateVars, ownVars, kvVars, writerVars, ckptVars

LockInv == \A t \in Writers : pc[t] # "idle" => lock[key[t]] = t

\* An append that is not published yet owns an offset nobody else names.
FreshInv ==
  \A t \in Writers : pc[t] \in {"write", "publish"} =>
    /\ off[t] + Len[val[t]] <= bytesUsed
    /\ \A k \in Keys : t1[k] # off[t]
    /\ \A u \in Writers : u # t /\ pc[u] \in {"write", "publish"} => off[u] # off[t]

NameInv ==
  \A k \in Keys : t1[k] # NotFound =>
    /\ mem[t1[k]].key = k
    /\ t1[k] < bytesUsed
    /\ t1[k] + mem[t1[k]].alloc <= bytesUsed

\* How far the request in the stripe has come.  Up to the publish, or to the
\* first word written in place, the key still has the value last logged.
BeforeChange == {"gate", "register", "check", "reserve", "write", "publish",
                 "enter", "checkBase", "checkWatermark"}

Progress(t) ==
  /\ pc[t] \in BeforeChange => Visible(key[t]) = logged[key[t]]
  /\ pc[t] = "publish" => mem[off[t]] = NewRecord(key[t], val[t])
  /\ pc[t] \in {"release", "log"} => t1[key[t]] = off[t] /\ mem[off[t]].lo = val[t]
  /\ pc[t] \in InPlacePath => t1[key[t]] = off[t]
  /\ pc[t] \in {"hi", "verEven", "logInPlace"} => mem[off[t]].lo = val[t]
  /\ pc[t] = "logDelete" => t1[key[t]] = NotFound /\ val[t] = Nil

ProgressInv == \A t \in Writers : Progress(t)

UntornInv ==
  \A o \in Offsets : mem[o].lo # mem[o].hi =>
    \E t \in Writers : pc[t] = "hi" /\ off[t] = o

ContentInv == LockInv /\ FreshInv /\ NameInv /\ ProgressInv /\ UntornInv /\ LogFollowsStore

LEMMA ContentInit == Init => ContentInv
<1> SUFFICES ASSUME Init PROVE ContentInv
  OBVIOUS
<1>1. LockInv /\ FreshInv /\ ProgressInv
  BY Zenon DEF Init, LockInv, FreshInv, ProgressInv, Progress, BeforeChange, InPlacePath,
     InPlaceWriting
<1>2. NameInv /\ UntornInv /\ LogFollowsStore
  <2> USE CapacityAssumption, LenAssumption DEF NameInv, UntornInv, LogFollowsStore, Visible,
          Fresh, NotFound, Offsets, Blank, NewRecord
  <2>1. CASE Fresh(0, [o \in Offsets |-> Blank], [k \in Keys |-> NotFound],
                   [k \in Keys |-> Nil])
    BY <2>1, Zenon
  <2>2. CASE \E k \in Keys, v \in Values :
               /\ Len[v] <= Capacity
               /\ Fresh(Len[v], [[o \in Offsets |-> Blank] EXCEPT ![0] = NewRecord(k, v)],
                        [[kk \in Keys |-> NotFound] EXCEPT ![k] = 0],
                        [[kk \in Keys |-> Nil] EXCEPT ![k] = v])
    <3>1. PICK k \in Keys, v \in Values :
               /\ Len[v] <= Capacity
               /\ Fresh(Len[v], [[o \in Offsets |-> Blank] EXCEPT ![0] = NewRecord(k, v)],
                        [[kk \in Keys |-> NotFound] EXCEPT ![k] = 0],
                        [[kk \in Keys |-> Nil] EXCEPT ![k] = v])
      BY <2>2, Zenon
    <3>2. 0 \in Offsets /\ mem[0] = NewRecord(k, v) /\ bytesUsed = Len[v]
      BY <3>1
    <3>3. NameInv
      BY <3>1, <3>2
    <3>4. UntornInv
      BY <3>1, Zenon
    <3>5. LogFollowsStore
      BY <3>1, <3>2
    <3> QED
      BY <3>3, <3>4, <3>5, Zenon
  <2> QED
    BY <2>1, <2>2, Zenon DEF Init
<1> QED
  BY <1>1, <1>2, Zenon DEF ContentInv

\* Facts about a writer in the middle of a request, from the invariants.
LEMMA ActiveWriter ==
  ASSUME TypeInv, ContentInv, NEW t \in Writers, pc[t] # "idle"
  PROVE  /\ key[t] \in Keys /\ lock[key[t]] = t
         /\ \A u \in Writers : u # t /\ pc[u] # "idle" => key[u] # key[t]
BY Zenon DEF TypeInv, LocalsOK, ContentInv, LockInv

\* The steps at which a request depends on the record at its offset.
NamesRecord == {"publish", "release", "log"} \cup InPlacePath

\* A step of another writer leaves u's progress alone when it leaves alone the
\* key u has locked and the record u is about.
LEMMA ProgressOther ==
  ASSUME NEW u \in Writers, Progress(u),
         pc'[u] = pc[u], key'[u] = key[u], val'[u] = val[u], off'[u] = off[u],
         pc[u] # "idle" => /\ t1'[key[u]] = t1[key[u]]
                           /\ logged'[key[u]] = logged[key[u]]
                           /\ Visible(key[u])' = Visible(key[u]),
         pc[u] \in NamesRecord => mem'[off[u]] = mem[off[u]]
  PROVE  Progress(u)'
<1>1. pc[u] \in BeforeChange => Visible(key[u])' = logged'[key[u]]
  BY Zenon DEF Progress, BeforeChange
<1>2. pc[u] = "publish" => mem'[off[u]] = NewRecord(key[u], val[u])
  BY Zenon DEF Progress, NamesRecord
<1>3. pc[u] \in {"release", "log"} => t1'[key[u]] = off[u] /\ mem'[off[u]].lo = val[u]
  BY Zenon DEF Progress, NamesRecord
<1>4. pc[u] \in InPlacePath => t1'[key[u]] = off[u]
  BY Zenon DEF Progress, InPlacePath, InPlaceWriting
<1>5. pc[u] \in {"hi", "verEven", "logInPlace"} => mem'[off[u]].lo = val[u]
  BY Zenon DEF Progress, NamesRecord, InPlacePath, InPlaceWriting
<1>6. pc[u] = "logDelete" => t1'[key[u]] = NotFound /\ val[u] = Nil
  BY Zenon DEF Progress
<1>7. NewRecord(key[u], val[u])' = NewRecord(key[u], val[u])
  BY Zenon DEF NewRecord
<1> QED
  BY <1>1, <1>2, <1>3, <1>4, <1>5, <1>6, <1>7, Zenon DEF Progress

LEMMA ReserveContent ==
  ASSUME TypeInv, ContentInv, NEW t \in Writers, Reserve(t) PROVE ContentInv'
<1>1. /\ pc[t] = "reserve" /\ bytesUsed' = bytesUsed + Len[val[t]]
      /\ UNCHANGED <<mem, t1, logged>>
  BY Zenon DEF Reserve
<1>2. /\ key[t] \in Keys /\ val[t] \in Values /\ bytesUsed \in Nat
      /\ lock \in [Keys -> Writers \cup {Nil}] /\ off \in [Writers -> Nat]
      /\ pc \in [Writers -> WriterSteps] /\ key \in [Writers -> Keys \cup {Nil}]
      /\ val \in [Writers -> Values \cup {Nil}]
  BY <1>1, Zenon DEF TypeInv, TypeOK, LocalsOK
<1>3. Len[val[t]] \in Nat \ {0}
  BY <1>2, LenAssumption, Zenon
<1>4. LockInv /\ FreshInv /\ NameInv /\ ProgressInv /\ UntornInv /\ LogFollowsStore
  BY Zenon DEF ContentInv
<1>5. /\ lock[key[t]] = t
      /\ \A u \in Writers : u # t /\ pc[u] # "idle" => key[u] # key[t]
  BY <1>1, ActiveWriter, Zenon
<1>6. \/ Return(t)
      \/ /\ off' = [off EXCEPT ![t] = bytesUsed] /\ Goto(t, "write")
         /\ UNCHANGED <<lock, key, val>>
  BY Zenon DEF Reserve
<1>7. /\ \A u \in Writers : u # t =>
           pc'[u] = pc[u] /\ key'[u] = key[u] /\ val'[u] = val[u] /\ off'[u] = off[u]
      /\ \/ pc'[t] = "idle" /\ lock' = [lock EXCEPT ![key[t]] = Nil]
         \/ /\ pc'[t] = "write" /\ off'[t] = bytesUsed /\ lock' = lock
            /\ key'[t] = key[t] /\ val'[t] = val[t]
  <2>1. CASE Return(t)
    BY <1>2, <2>1, Zenon DEF Return, Goto
  <2>2. CASE /\ off' = [off EXCEPT ![t] = bytesUsed] /\ Goto(t, "write")
             /\ UNCHANGED <<lock, key, val>>
    BY <1>2, <2>2, Zenon DEF Goto
  <2> QED
    BY <1>6, <2>1, <2>2, Zenon
<1>8. LockInv'
  <2> SUFFICES ASSUME NEW u \in Writers, pc'[u] # "idle" PROVE lock'[key'[u]] = u
    BY Zenon DEF LockInv
  <2>1. CASE u = t
    BY <1>5, <1>7, <2>1, Zenon
  <2>2. CASE u # t
    <3>1. pc[u] # "idle" /\ key'[u] = key[u] /\ key[u] # key[t] /\ lock[key[u]] = u
      BY <1>4, <1>5, <1>7, <2>2, Zenon DEF LockInv
    <3>2. key[u] \in Keys
      BY <3>1, Zenon DEF TypeInv, LocalsOK
    <3> QED
      BY <1>2, <1>7, <3>1, <3>2
  <2> QED
    BY <2>1, <2>2, Zenon
<1>9. NameInv'
  <2> SUFFICES ASSUME NEW k \in Keys, t1[k] # NotFound
               PROVE  /\ mem[t1[k]].key = k /\ t1[k] < bytesUsed'
                      /\ t1[k] + mem[t1[k]].alloc <= bytesUsed'
    BY <1>1, Zenon DEF NameInv
  <2>1. /\ t1[k] \in Int /\ mem[t1[k]].alloc \in Int
    <3>1. t1[k] \in Offsets /\ mem \in [Offsets -> Records]
      BY Zenon DEF TypeInv, TypeOK
    <3> QED
      BY <3>1 DEF Offsets, Records
  <2>2. /\ mem[t1[k]].key = k /\ t1[k] < bytesUsed
        /\ t1[k] + mem[t1[k]].alloc <= bytesUsed
    BY <1>4, Zenon DEF NameInv
  <2> QED
    BY <1>1, <1>2, <1>3, <2>1, <2>2
<1>10. FreshInv'
  <2>1. \A k \in Keys : t1[k] # bytesUsed
    BY <1>2, <1>4 DEF NameInv, NotFound
  <2>2. ASSUME NEW u \in Writers, pc[u] \in {"write", "publish"}
        PROVE  off[u] < bytesUsed /\ off[u] + Len[val[u]] <= bytesUsed'
    <3>1. Len[val[u]] \in Nat \ {0} /\ off[u] \in Nat
      BY <1>2, <2>2, LenAssumption, Zenon DEF TypeInv, LocalsOK
    <3>2. off[u] + Len[val[u]] <= bytesUsed
      BY <1>4, <2>2, Zenon DEF FreshInv
    <3> QED
      BY <1>1, <1>2, <1>3, <3>1, <3>2
  <2> SUFFICES ASSUME NEW u \in Writers, pc'[u] \in {"write", "publish"}
               PROVE  /\ off'[u] + Len[val'[u]] <= bytesUsed'
                      /\ \A k \in Keys : t1[k] # off'[u]
                      /\ \A w \in Writers :
                           w # u /\ pc'[w] \in {"write", "publish"} => off'[w] # off'[u]
    BY <1>1, Zenon DEF FreshInv
  <2>3. CASE u = t
    <3>1. off'[t] = bytesUsed /\ val'[t] = val[t]
      BY <1>7, <2>3, Zenon
    <3>2. \A w \in Writers : w # t /\ pc'[w] \in {"write", "publish"} => off'[w] # bytesUsed
      BY <1>2, <1>7, <2>2
    <3> QED
      BY <1>1, <1>2, <1>3, <2>1, <2>3, <3>1, <3>2
  <2>4. CASE u # t
    <3>1. /\ pc[u] \in {"write", "publish"} /\ off'[u] = off[u] /\ val'[u] = val[u]
          /\ off[u] \in Nat
      BY <1>2, <1>7, <2>4, Zenon
    <3>2. \A w \in Writers : w # u /\ pc'[w] \in {"write", "publish"} => off'[w] # off[u]
      BY <1>2, <1>4, <1>7, <2>2, <3>1 DEF FreshInv
    <3> QED
      BY <1>4, <2>2, <3>1, <3>2, Zenon DEF FreshInv
  <2> QED
    BY <2>3, <2>4, Zenon
<1>11. ProgressInv'
  <2> SUFFICES ASSUME NEW u \in Writers PROVE Progress(u)'
    BY Zenon DEF ProgressInv
  <2>1. Progress(u)
    BY <1>4, Zenon DEF ProgressInv
  <2>2. CASE u # t
    <3>1. key'[u] = key[u] => Visible(key[u])' = Visible(key[u])
      BY <1>1, Zenon DEF Visible
    <3> QED
      BY <1>1, <1>7, <2>1, <2>2, <3>1, ProgressOther, Zenon
  <2>3. CASE u = t
    <3>1. Visible(key[t]) = logged[key[t]]
      BY <1>1, <2>1, <2>3, Zenon DEF Progress, BeforeChange
    <3>2. key'[t] = key[t] => Visible(key[t])' = Visible(key[t])
      BY <1>1, Zenon DEF Visible
    <3> QED
      BY <1>1, <1>7, <2>3, <3>1, <3>2, Zenon DEF Progress, BeforeChange, InPlacePath, InPlaceWriting
  <2> QED
    BY <2>2, <2>3, Zenon
<1>12. UntornInv'
  <2>1. \A u \in Writers : pc[u] = "hi" => pc'[u] = "hi" /\ off'[u] = off[u]
    BY <1>1, <1>7, Zenon
  <2> QED
    BY <1>1, <1>4, <2>1 DEF UntornInv
<1>13. LogFollowsStore'
  <2> SUFFICES ASSUME NEW k \in Keys, lock'[k] = Nil PROVE Visible(k) = logged[k]
    BY <1>1, Zenon DEF LogFollowsStore, Visible
  <2>1. Visible(key[t]) = logged[key[t]]
    BY <1>1, <1>4, Zenon DEF ProgressInv, Progress, BeforeChange
  <2>2. lock' = lock \/ lock' = [lock EXCEPT ![key[t]] = Nil]
    BY <1>7, Zenon
  <2>3. k = key[t] \/ lock[k] = Nil
    BY <1>2, <2>2, Zenon
  <2> QED
    BY <1>4, <2>1, <2>3, Zenon DEF LogFollowsStore
<1> QED
  BY <1>8, <1>9, <1>10, <1>11, <1>12, <1>13, Zenon DEF ContentInv

LEMMA WriteContent ==
  ASSUME TypeInv, ContentInv, NEW t \in Writers, WriteRecord(t) PROVE ContentInv'
<1>1. pc[t] = "write" /\ UNCHANGED <<bytesUsed, t1, logged, lock, key, val, off>>
  BY Zenon DEF WriteRecord
<1>2. off[t] \in Offsets /\ key[t] \in Keys
  BY <1>1, Zenon DEF TypeInv, LocalsOK
<1>3. LockInv /\ FreshInv /\ NameInv /\ ProgressInv /\ UntornInv /\ LogFollowsStore
  BY Zenon DEF ContentInv
<1>4. /\ \A k \in Keys : t1[k] # off[t]
      /\ \A u \in Writers : u # t /\ pc[u] \in {"write", "publish"} => off[u] # off[t]
  BY <1>1, <1>3, Zenon DEF FreshInv
<1>5. /\ mem'[off[t]] = NewRecord(key[t], val[t])
      /\ \A o \in Offsets : o # off[t] => mem'[o] = mem[o]
  <2>1. mem \in [Offsets -> Records]
    BY Zenon DEF TypeInv, TypeOK
  <2>2. mem' = [mem EXCEPT ![off[t]] = NewRecord(key[t], val[t])]
    BY Zenon DEF WriteRecord
  <2> QED
    BY <1>2, <2>1, <2>2, Zenon
<1>5p. pc'[t] = "publish" /\ \A u \in Writers : u # t => pc'[u] = pc[u]
  <2>1. pc \in [Writers -> WriterSteps] /\ pc' = [pc EXCEPT ![t] = "publish"]
    BY Zenon DEF WriteRecord, Goto, TypeInv, TypeOK
  <2> QED
    BY <2>1, Zenon
<1>6. \A k \in Keys : t1[k] # NotFound => mem'[t1[k]] = mem[t1[k]]
  <2>1. \A k \in Keys : t1[k] # NotFound => t1[k] \in Offsets
    BY Zenon DEF TypeInv, TypeOK
  <2> QED
    BY <1>4, <1>5, <2>1, Zenon
<1>7. \A k \in Keys : Visible(k)' = Visible(k)
  BY <1>1, <1>6, Zenon DEF Visible
<1>8. LockInv'
  BY <1>1, <1>3, <1>5p, Zenon DEF LockInv
<1>9. NameInv'
  BY <1>1, <1>3, <1>6, Zenon DEF NameInv
<1>10. FreshInv'
  <2>1. \A u \in Writers : pc'[u] \in {"write", "publish"} <=> pc[u] \in {"write", "publish"}
    BY <1>1, <1>5p, Zenon
  <2> QED
    BY <1>1, <1>3, <2>1, Zenon DEF FreshInv
<1>11. ProgressInv'
  <2> SUFFICES ASSUME NEW u \in Writers PROVE Progress(u)'
    BY Zenon DEF ProgressInv
  <2>1. Progress(u)
    BY <1>3, Zenon DEF ProgressInv
  <2>2. CASE u = t
    <3>1. Visible(key[t])' = logged'[key[t]]
      <4>1. Visible(key[t]) = logged[key[t]]
        BY <1>1, <2>1, <2>2, Zenon DEF Progress, BeforeChange
      <4> QED
        BY <1>1, <1>2, <1>7, <4>1, Zenon
    <3>2. mem'[off'[u]] = NewRecord(key[u], val[u])'
      BY <1>1, <1>5, <2>2, Zenon DEF NewRecord
    <3>3. pc'[u] = "publish" /\ Visible(key[u])' = logged'[key'[u]]
      BY <1>1, <1>5p, <2>2, <3>1, Zenon
    <3> QED
      BY <3>2, <3>3, Zenon DEF Progress, InPlacePath, InPlaceWriting
  <2>3. CASE u # t
    <3>1. pc[u] # "idle" => Visible(key[u])' = Visible(key[u])
      <4>1. pc[u] # "idle" => key[u] \in Keys
        BY Zenon DEF TypeInv, LocalsOK
      <4> QED
        BY <1>1, <1>7, <4>1, Zenon
    <3>2. pc[u] \in NamesRecord => mem'[off[u]] = mem[off[u]]
      <4> SUFFICES ASSUME pc[u] \in NamesRecord PROVE mem'[off[u]] = mem[off[u]]
        OBVIOUS
      <4>1. off[u] \in Offsets /\ key[u] \in Keys
        BY Zenon DEF TypeInv, LocalsOK, NamesRecord, InPlacePath, InPlaceWriting
      <4>2. pc[u] = "publish" \/ t1[key[u]] = off[u]
        BY <2>1, Zenon DEF Progress, NamesRecord
      <4>3. off[u] # off[t]
        BY <1>4, <2>3, <4>1, <4>2, Zenon
      <4> QED
        BY <1>5, <4>1, <4>3, Zenon
    <3> QED
      BY <1>1, <1>5p, <2>1, <2>3, <3>1, <3>2, ProgressOther, Zenon
  <2> QED
    BY <2>2, <2>3, Zenon
<1>12. UntornInv'
  <2> SUFFICES ASSUME NEW o \in Offsets, mem'[o].lo # mem'[o].hi
               PROVE  \E u \in Writers : pc'[u] = "hi" /\ off[u] = o
    BY <1>1, Zenon DEF UntornInv
  <2>1. o # off[t]
    BY <1>5 DEF NewRecord
  <2>2. PICK u \in Writers : pc[u] = "hi" /\ off[u] = o
    BY <1>3, <1>5, <2>1, Zenon DEF UntornInv
  <2> QED
    BY <1>1, <1>5p, <2>2, Zenon
<1>13. LogFollowsStore'
  BY <1>1, <1>3, <1>7, Zenon DEF LogFollowsStore
<1> QED
  BY <1>8, <1>9, <1>10, <1>11, <1>12, <1>13, Zenon DEF ContentInv

LEMMA PublishContent ==
  ASSUME TypeInv, ContentInv, NEW t \in Writers, PublishT1(t) PROVE ContentInv'
<1>1. pc[t] = "publish" /\ UNCHANGED <<mem, bytesUsed, logged, lock, key, val, off>>
  BY Zenon DEF PublishT1
<1>2. key[t] \in Keys /\ val[t] \in Values /\ off[t] \in Nat /\ bytesUsed \in Nat
  BY <1>1, Zenon DEF TypeInv, TypeOK, LocalsOK
<1>3. LockInv /\ FreshInv /\ NameInv /\ ProgressInv /\ UntornInv /\ LogFollowsStore
  BY Zenon DEF ContentInv
<1>4. mem[off[t]] = NewRecord(key[t], val[t])
  BY <1>1, <1>3, Zenon DEF ProgressInv, Progress
<1>5. /\ lock[key[t]] = t
      /\ \A u \in Writers : u # t /\ pc[u] # "idle" => key[u] # key[t]
  BY <1>1, ActiveWriter, Zenon
<1>6. t1'[key[t]] = off[t] /\ \A k \in Keys : k # key[t] => t1'[k] = t1[k]
  <2>1. t1 \in [Keys -> Offsets \cup {NotFound}] /\ t1' = [t1 EXCEPT ![key[t]] = off[t]]
    BY Zenon DEF PublishT1, TypeInv, TypeOK
  <2> QED
    BY <1>2, <2>1, Zenon
<1>6p. pc'[t] = "release" /\ \A u \in Writers : u # t => pc'[u] = pc[u]
  <2>1. pc \in [Writers -> WriterSteps] /\ pc' = [pc EXCEPT ![t] = "release"]
    BY Zenon DEF PublishT1, Goto, TypeInv, TypeOK
  <2> QED
    BY <2>1, Zenon
<1>7. \A k \in Keys : k # key[t] => Visible(k)' = Visible(k)
  BY <1>1, <1>6, Zenon DEF Visible
<1>8. LockInv'
  BY <1>1, <1>3, <1>6p, Zenon DEF LockInv
<1>9. NameInv'
  <2>1. /\ mem[off[t]].key = key[t] /\ mem[off[t]].alloc = Len[val[t]]
    BY <1>4 DEF NewRecord
  <2>2. off[t] + Len[val[t]] <= bytesUsed
    BY <1>1, <1>3, Zenon DEF FreshInv
  <2>3. off[t] < bytesUsed
    BY <1>2, <2>2, LenAssumption
  <2> SUFFICES ASSUME NEW k \in Keys, t1'[k] # NotFound
               PROVE  /\ mem[t1'[k]].key = k /\ t1'[k] < bytesUsed
                      /\ t1'[k] + mem[t1'[k]].alloc <= bytesUsed
    BY <1>1, Zenon DEF NameInv
  <2>4. CASE k = key[t]
    BY <1>6, <2>1, <2>2, <2>3, <2>4, Zenon
  <2>5. CASE k # key[t]
    BY <1>3, <1>6, <2>5, Zenon DEF NameInv
  <2> QED
    BY <2>4, <2>5, Zenon
<1>10. FreshInv'
  <2> SUFFICES ASSUME NEW u \in Writers, pc'[u] \in {"write", "publish"}
               PROVE  /\ off[u] + Len[val[u]] <= bytesUsed
                      /\ \A k \in Keys : t1'[k] # off[u]
                      /\ \A w \in Writers :
                           w # u /\ pc'[w] \in {"write", "publish"} => off[w] # off[u]
    BY <1>1, Zenon DEF FreshInv
  <2>1. u # t /\ pc[u] \in {"write", "publish"}
    BY <1>6p, Zenon
  <2>2. \A k \in Keys : t1'[k] # off[u]
    <3>1. off[t] # off[u] /\ \A k \in Keys : t1[k] # off[u]
      BY <1>1, <1>3, <2>1, Zenon DEF FreshInv
    <3> QED
      BY <1>6, <3>1, Zenon
  <2>3. \A w \in Writers : w # u /\ pc'[w] \in {"write", "publish"} => off[w] # off[u]
    BY <1>3, <1>6p, <2>1, Zenon DEF FreshInv
  <2> QED
    BY <1>3, <2>1, <2>2, <2>3, Zenon DEF FreshInv
<1>11. ProgressInv'
  <2> SUFFICES ASSUME NEW u \in Writers PROVE Progress(u)'
    BY Zenon DEF ProgressInv
  <2>1. CASE u = t
    <3>1. mem'[off'[t]].lo = val'[t]
      BY <1>1, <1>4 DEF NewRecord
    <3>2. t1'[key'[t]] = off'[t]
      BY <1>1, <1>6, Zenon
    <3> QED
      BY <1>6p, <2>1, <3>1, <3>2, Zenon DEF Progress, BeforeChange, InPlacePath, InPlaceWriting
  <2>2. CASE u # t
    <3>1. Progress(u)
      BY <1>3, Zenon DEF ProgressInv
    <3>2. pc[u] # "idle" => key[u] \in Keys /\ key[u] # key[t]
      BY <1>5, <2>2, Zenon DEF TypeInv, LocalsOK
    <3>3. pc[u] # "idle" => t1'[key[u]] = t1[key[u]]
      BY <1>6, <3>2, Zenon
    <3>4. pc[u] # "idle" => Visible(key[u])' = Visible(key[u])
      BY <1>1, <1>7, <3>2, Zenon
    <3> QED
      BY <1>1, <1>6p, <2>2, <3>1, <3>3, <3>4, ProgressOther, Zenon
  <2> QED
    BY <2>1, <2>2, Zenon
<1>12. UntornInv'
  <2>1. \A u \in Writers : pc[u] = "hi" => pc'[u] = "hi"
    BY <1>1, <1>6p, Zenon
  <2> QED
    BY <1>1, <1>3, <2>1, Zenon DEF UntornInv
<1>13. LogFollowsStore'
  <2> SUFFICES ASSUME NEW k \in Keys, lock[k] = Nil PROVE Visible(k)' = logged[k]
    BY <1>1, Zenon DEF LogFollowsStore
  <2>1. k # key[t]
    BY <1>5, NilAssumption, Zenon
  <2> QED
    BY <1>3, <1>7, <2>1, Zenon DEF LogFollowsStore
<1> QED
  BY <1>8, <1>9, <1>10, <1>11, <1>12, <1>13, Zenon DEF ContentInv

LEMMA UpdateContent ==
  ASSUME TypeInv, ContentInv, NEW t \in Writers, UpdateValueAt(t) PROVE ContentInv'
<1>1. /\ pc[t] \in InPlaceWriting
      /\ UNCHANGED <<bytesUsed, t1, logged, lock, key, val, off>>
  BY Zenon DEF UpdateValueAt, InPlaceWriting
<1>2. off[t] \in Offsets /\ key[t] \in Keys /\ pc[t] # "idle"
  BY <1>1, Zenon DEF TypeInv, LocalsOK, InPlacePath, InPlaceWriting
<1>3. LockInv /\ FreshInv /\ NameInv /\ ProgressInv /\ UntornInv /\ LogFollowsStore
  BY Zenon DEF ContentInv
<1>4. /\ lock[key[t]] = t
      /\ \A u \in Writers : u # t /\ pc[u] # "idle" => key[u] # key[t]
  BY <1>2, ActiveWriter, Zenon
<1>5. t1[key[t]] = off[t] /\ \A k \in Keys : k # key[t] => t1[k] # off[t]
  <2>1. t1[key[t]] = off[t]
    BY <1>1, <1>3, Zenon DEF ProgressInv, Progress, InPlacePath
  <2>2. off[t] # NotFound
    BY <1>2 DEF NotFound, Offsets
  <2> QED
    BY <1>2, <1>3, <2>1, <2>2, Zenon DEF NameInv
<1>6. \A u \in Writers : u # t => pc'[u] = pc[u]
  <2>1. pc \in [Writers -> WriterSteps]
    BY Zenon DEF TypeInv, TypeOK
  <2>2. \E s : pc' = [pc EXCEPT ![t] = s]
    BY Zenon DEF UpdateValueAt, Goto
  <2> QED
    BY <2>1, <2>2, Zenon
<1>7. \A o \in Offsets : o # off[t] => mem'[o] = mem[o]
  <2>1. mem \in [Offsets -> Records]
    BY Zenon DEF TypeInv, TypeOK
  <2>2. \E r : mem' = [mem EXCEPT ![off[t]] = r]
    BY Zenon DEF UpdateValueAt
  <2> QED
    BY <2>1, <2>2, Zenon
<1>8. /\ mem'[off[t]].key = mem[off[t]].key /\ mem'[off[t]].alloc = mem[off[t]].alloc
      /\ \/ /\ pc[t] = "verOdd" /\ pc'[t] = "lo"
            /\ mem'[off[t]].lo = mem[off[t]].lo /\ mem'[off[t]].hi = mem[off[t]].hi
         \/ pc[t] = "lo" /\ pc'[t] = "hi" /\ mem'[off[t]].lo = val[t]
         \/ /\ pc[t] = "hi" /\ pc'[t] = "verEven"
            /\ mem'[off[t]].lo = mem[off[t]].lo /\ mem'[off[t]].hi = val[t]
         \/ /\ pc[t] = "verEven" /\ pc'[t] = "logInPlace"
            /\ mem'[off[t]].lo = mem[off[t]].lo /\ mem'[off[t]].hi = mem[off[t]].hi
  <2>1. mem \in [Offsets -> Records] /\ pc \in [Writers -> WriterSteps]
    BY Zenon DEF TypeInv, TypeOK
  <2> QED
    BY <1>2, <2>1, SMTT(20) DEF UpdateValueAt, Goto, Records
<1>9. \A k \in Keys : t1[k] # NotFound =>
        mem'[t1[k]].key = mem[t1[k]].key /\ mem'[t1[k]].alloc = mem[t1[k]].alloc
  <2>1. \A k \in Keys : t1[k] # NotFound => t1[k] \in Offsets
    BY Zenon DEF TypeInv, TypeOK
  <2> QED
    BY <1>7, <1>8, <2>1, Zenon
<1>10. \A k \in Keys : k # key[t] => Visible(k)' = Visible(k)
  <2>1. \A k \in Keys : t1[k] # NotFound => t1[k] \in Offsets
    BY Zenon DEF TypeInv, TypeOK
  <2>2. \A k \in Keys : k # key[t] /\ t1[k] # NotFound => mem'[t1[k]] = mem[t1[k]]
    BY <1>5, <1>7, <2>1, Zenon
  <2> QED
    BY <1>1, <2>2, Zenon DEF Visible
<1>11. LockInv'
  BY <1>1, <1>2, <1>3, <1>6, Zenon DEF LockInv
<1>12. NameInv'
  BY <1>1, <1>3, <1>9, Zenon DEF NameInv
<1>13. FreshInv'
  <2>1. \A u \in Writers : pc'[u] \in {"write", "publish"} => pc[u] \in {"write", "publish"}
    BY <1>6, <1>8, Zenon
  <2> QED
    BY <1>1, <1>3, <2>1, Zenon DEF FreshInv
<1>14. ProgressInv'
  <2> SUFFICES ASSUME NEW u \in Writers PROVE Progress(u)'
    BY Zenon DEF ProgressInv
  <2>1. Progress(u)
    BY <1>3, Zenon DEF ProgressInv
  <2>2. CASE u = t
    <3>1. pc'[u] \in {"hi", "verEven", "logInPlace"} => mem'[off[u]].lo = val[u]
      BY <1>8, <2>1, <2>2, Zenon DEF Progress
    <3>2. pc'[u] \in {"lo", "hi", "verEven", "logInPlace"} /\ t1'[key'[u]] = off'[u]
      BY <1>1, <1>5, <1>8, <2>2, Zenon
    <3> QED
      BY <1>1, <3>1, <3>2, Zenon DEF Progress, BeforeChange, InPlacePath, InPlaceWriting
  <2>3. CASE u # t
    <3>1. pc[u] # "idle" => key[u] \in Keys /\ key[u] # key[t]
      BY <1>4, <2>3, Zenon DEF TypeInv, LocalsOK
    <3>2. pc[u] # "idle" => Visible(key[u])' = Visible(key[u])
      BY <1>1, <1>10, <3>1, Zenon
    <3>3. pc[u] \in NamesRecord => mem'[off[u]] = mem[off[u]]
      <4> SUFFICES ASSUME pc[u] \in NamesRecord PROVE mem'[off[u]] = mem[off[u]]
        OBVIOUS
      <4>1. off[u] \in Offsets /\ key[u] \in Keys /\ key[u] # key[t]
        BY <3>1, Zenon DEF TypeInv, LocalsOK, NamesRecord, InPlacePath, InPlaceWriting
      <4>2. CASE pc[u] = "publish"
        BY <1>2, <1>3, <1>5, <1>7, <4>1, <4>2 DEF FreshInv
      <4>3. CASE pc[u] # "publish"
        <5>1. t1[key[u]] = off[u]
          BY <2>1, <4>3, Zenon DEF Progress, NamesRecord
        <5> QED
          BY <1>5, <1>7, <4>1, <5>1, Zenon
      <4> QED
        BY <4>2, <4>3, Zenon
    <3> QED
      BY <1>1, <1>6, <2>1, <2>3, <3>2, <3>3, ProgressOther, Zenon
  <2> QED
    BY <2>2, <2>3, Zenon
<1>15. UntornInv'
  <2> SUFFICES ASSUME NEW o \in Offsets, mem'[o].lo # mem'[o].hi
               PROVE  \E u \in Writers : pc'[u] = "hi" /\ off[u] = o
    BY <1>1, Zenon DEF UntornInv
  <2>1. CASE o # off[t]
    <3>1. PICK u \in Writers : pc[u] = "hi" /\ off[u] = o
      BY <1>3, <1>7, <2>1, Zenon DEF UntornInv
    <3> QED
      BY <1>6, <2>1, <3>1, Zenon
  <2>2. CASE o = off[t]
    <3>1. pc[t] = "hi" => mem[off[t]].lo = val[t]
      BY <1>3, Zenon DEF ProgressInv, Progress
    <3>2. pc[t] \in {"verOdd", "verEven"} => mem[off[t]].lo = mem[off[t]].hi
      <4> SUFFICES ASSUME pc[t] \in {"verOdd", "verEven"}, mem[off[t]].lo # mem[off[t]].hi
                   PROVE  FALSE
        OBVIOUS
      <4>1. PICK u \in Writers : pc[u] = "hi" /\ off[u] = off[t]
        BY <1>2, <1>3, Zenon DEF UntornInv
      <4>2. key[u] \in Keys /\ u # t /\ key[u] # key[t]
        BY <1>4, <4>1, Zenon DEF TypeInv, LocalsOK
      <4>3. t1[key[u]] = off[t]
        BY <1>3, <4>1, Zenon DEF ProgressInv, Progress, InPlacePath, InPlaceWriting
      <4> QED
        BY <1>5, <4>2, <4>3, Zenon
    <3> QED
      BY <1>8, <2>2, <3>1, <3>2, Zenon
  <2> QED
    BY <2>1, <2>2, Zenon
<1>16. LogFollowsStore'
  <2> SUFFICES ASSUME NEW k \in Keys, lock[k] = Nil PROVE Visible(k)' = logged[k]
    BY <1>1, Zenon DEF LogFollowsStore
  <2>1. k # key[t]
    BY <1>4, NilAssumption, Zenon
  <2> QED
    BY <1>3, <1>10, <2>1, Zenon DEF LogFollowsStore
<1> QED
  BY <1>11, <1>12, <1>13, <1>14, <1>15, <1>16, Zenon DEF ContentInv

LEMMA RemoveContent ==
  ASSUME TypeInv, ContentInv, NEW t \in Writers, NEW k \in Keys, Remove(t, k) PROVE ContentInv'
<1>1. /\ lock[k] = Nil /\ lock' = [lock EXCEPT ![k] = t]
      /\ pc[t] = "idle" /\ pc' = [pc EXCEPT ![t] = "logDelete"]
      /\ key' = [key EXCEPT ![t] = k] /\ val' = [val EXCEPT ![t] = Nil]
      /\ t1' = [t1 EXCEPT ![k] = NotFound]
      /\ UNCHANGED <<mem, bytesUsed, logged, off>>
  BY Zenon DEF Remove, LockStripe, Goto, t2Vars
<1>2. /\ pc'[t] = "logDelete" /\ key'[t] = k /\ val'[t] = Nil
      /\ \A u \in Writers : u # t => pc'[u] = pc[u] /\ key'[u] = key[u] /\ val'[u] = val[u]
      /\ lock'[k] = t /\ t1'[k] = NotFound
      /\ \A j \in Keys : j # k => lock'[j] = lock[j] /\ t1'[j] = t1[j]
  BY <1>1, Zenon DEF TypeInv, TypeOK
<1>3. \A u \in Writers : pc[u] # "idle" => key[u] \in Keys /\ key[u] # k
  BY <1>1, NilAssumption, Zenon DEF LockInv, ContentInv, TypeInv, LocalsOK
<1>4. LockInv'
  BY <1>1, <1>2, <1>3 DEF LockInv, ContentInv
<1>5. NameInv'
  BY <1>1, <1>2 DEF NameInv, ContentInv
<1>6. FreshInv'
  <2> SUFFICES ASSUME NEW u \in Writers, pc'[u] \in {"write", "publish"}
               PROVE  /\ off[u] + Len[val'[u]] <= bytesUsed
                      /\ \A j \in Keys : t1'[j] # off[u]
                      /\ \A w \in Writers :
                            w # u /\ pc'[w] \in {"write", "publish"} => off[w] # off[u]
    BY <1>1, Zenon DEF FreshInv
  <2>1. u # t /\ pc[u] \in {"write", "publish"} /\ off[u] # NotFound
    BY <1>2 DEF TypeInv, TypeOK, NotFound
  <2> QED
    BY <1>1, <1>2, <2>1 DEF FreshInv, ContentInv
<1>7. ProgressInv'
  <2> SUFFICES ASSUME NEW u \in Writers PROVE Progress(u)'
    BY Zenon DEF ProgressInv
  <2>1. CASE u = t
    BY <1>2, <2>1, Zenon DEF Progress, BeforeChange, InPlacePath, InPlaceWriting
  <2>2. CASE u # t
    <3>1. Progress(u)
      BY Zenon DEF ContentInv, ProgressInv
    <3>2. pc[u] # "idle" => t1'[key[u]] = t1[key[u]] /\ Visible(key[u])' = Visible(key[u])
      BY <1>1, <1>2, <1>3, <2>2 DEF Visible
    <3> QED
      BY <1>1, <1>2, <2>2, <3>1, <3>2, ProgressOther, Zenon
  <2> QED
    BY <2>1, <2>2, Zenon
<1>8. UntornInv'
  BY <1>1, <1>2 DEF UntornInv, ContentInv
<1>9. LogFollowsStore'
  BY <1>1, <1>2, NilAssumption DEF LogFollowsStore, Visible, ContentInv
<1> QED
  BY <1>4, <1>5, <1>6, <1>7, <1>8, <1>9, Zenon DEF ContentInv

\* The request opens: only the stripe and the writer's own locals change.
LEMMA StartContent ==
  ASSUME TypeInv, ContentInv, NEW t \in Writers, NEW k \in Keys, NEW v \in Values,
         Insert(t, k, v) \/ Update(t, k, v)
  PROVE  ContentInv'
<1>1. /\ lock[k] = Nil /\ lock' = [lock EXCEPT ![k] = t]
      /\ pc[t] = "idle"
      /\ key' = [key EXCEPT ![t] = k] /\ val' = [val EXCEPT ![t] = v]
      /\ UNCHANGED <<mem, bytesUsed, logged, t1>>
  BY Zenon DEF Insert, Update, LockStripe, t2Vars
<1>2. /\ key'[t] = k
      /\ \A u \in Writers : u # t => pc'[u] = pc[u] /\ key'[u] = key[u] /\ val'[u] = val[u]
      /\ \A u \in Writers : u # t => off'[u] = off[u]
      /\ pc'[t] = "gate" \/ (pc'[t] = "enter" /\ off'[t] = t1[k])
      /\ lock'[k] = t /\ \A j \in Keys : j # k => lock'[j] = lock[j]
  <2>1. CASE Insert(t, k, v)
    BY <1>1, <2>1, Zenon DEF Insert, Goto, TypeInv, TypeOK
  <2>2. CASE Update(t, k, v)
    BY <1>1, <2>2, Zenon DEF Update, Goto, TypeInv, TypeOK, Offsets
  <2> QED
    BY <2>1, <2>2, Zenon
<1>3. \A u \in Writers : pc[u] # "idle" => key[u] \in Keys /\ key[u] # k
  BY <1>1, NilAssumption, Zenon DEF LockInv, ContentInv, TypeInv, LocalsOK
<1>4. LockInv'
  BY <1>1, <1>2, <1>3 DEF LockInv, ContentInv
<1>5. NameInv'
  BY <1>1, Zenon DEF NameInv, ContentInv
<1>6. FreshInv'
  BY <1>1, <1>2 DEF FreshInv, ContentInv
<1>7. ProgressInv'
  <2> SUFFICES ASSUME NEW u \in Writers PROVE Progress(u)'
    BY Zenon DEF ProgressInv
  <2>1. CASE u = t
    <3>1. Visible(key[u])' = logged'[key'[u]]
      BY <1>1, <1>2, <2>1, SMTT(20) DEF LogFollowsStore, ContentInv, Visible
    <3>2. pc'[u] \in {"gate", "enter"} /\ (pc'[u] = "enter" => t1'[key'[u]] = off'[u])
      BY <1>1, <1>2, <2>1, Zenon
    <3> QED
      BY <3>1, <3>2, Zenon DEF Progress, BeforeChange, InPlacePath, InPlaceWriting
  <2>2. CASE u # t
    <3>1. Progress(u)
      BY Zenon DEF ContentInv, ProgressInv
    <3>2. Visible(key[u])' = Visible(key[u])
      BY <1>1, <1>2, <2>2, SMTT(20) DEF Visible
    <3> QED
      BY <1>1, <1>2, <2>2, <3>1, <3>2, ProgressOther, Zenon
  <2> QED
    BY <2>1, <2>2, Zenon
<1>8. UntornInv'
  BY <1>1, <1>2, SMTT(20) DEF UntornInv, ContentInv
<1>9. LogFollowsStore'
  BY <1>1, <1>2, NilAssumption, SMTT(20) DEF LogFollowsStore, Visible, ContentInv
<1> QED
  BY <1>4, <1>5, <1>6, <1>7, <1>8, <1>9, Zenon DEF ContentInv

\* The request ends: the log has the value the store shows.
LEMMA LogContent ==
  ASSUME TypeInv, ContentInv, NEW t \in Writers, ReserveWal(t) PROVE ContentInv'
<1>1. /\ key[t] \in Keys
      /\ pc[t] \in {"log", "logDelete", "logInPlace"} /\ pc' = [pc EXCEPT ![t] = "idle"]
      /\ logged' = [logged EXCEPT ![key[t]] = val[t]]
      /\ lock' = [lock EXCEPT ![key[t]] = Nil]
      /\ UNCHANGED <<mem, bytesUsed, t1>>
  BY Zenon DEF ReserveWal, Return, Goto, TypeInv, LocalsOK, t2Vars
<1>2. /\ lock[key[t]] = t
      /\ \A u \in Writers : u # t /\ pc[u] # "idle" => key[u] # key[t] /\ key[u] \in Keys
  BY <1>1, ActiveWriter, Zenon
<1>3. /\ pc'[t] = "idle"
      /\ \A u \in Writers : u # t =>
           pc'[u] = pc[u] /\ key'[u] = key[u] /\ val'[u] = val[u] /\ off'[u] = off[u]
      /\ lock'[key[t]] = Nil /\ \A j \in Keys : j # key[t] => lock'[j] = lock[j]
      /\ logged'[key[t]] = val[t] /\ \A j \in Keys : j # key[t] => logged'[j] = logged[j]
  BY <1>1, Zenon DEF ReserveWal, Return, TypeInv, TypeOK
<1>4. LockInv'
  <2>1. ASSUME NEW u \in Writers, pc'[u] # "idle" PROVE lock'[key'[u]] = u
    <3>1. u # t /\ pc[u] # "idle" /\ key'[u] = key[u]
      BY <1>3, <2>1, Zenon
    <3>2. lock'[key[u]] = lock[key[u]]
      BY <1>2, <1>3, <3>1, Zenon
    <3>3. lock[key[u]] = u
      BY <3>1, Zenon DEF LockInv, ContentInv
    <3> QED
      BY <3>1, <3>2, <3>3, Zenon
  <2> QED
    BY <2>1, Zenon DEF LockInv
<1>5. NameInv'
  BY <1>1, Zenon DEF NameInv, ContentInv
<1>6. FreshInv'
  <2>1. \A u \in Writers : pc'[u] \in {"write", "publish"} =>
          u # t /\ pc'[u] = pc[u] /\ val'[u] = val[u] /\ off'[u] = off[u]
    BY <1>3, Zenon
  <2>2. UNCHANGED <<bytesUsed, t1>>
    BY <1>1, Zenon
  <2>3. FreshInv
    BY Zenon DEF ContentInv
  <2> QED
    BY <2>1, <2>2, <2>3, Zenon DEF FreshInv
<1>7. ProgressInv'
  <2> SUFFICES ASSUME NEW u \in Writers PROVE Progress(u)'
    BY Zenon DEF ProgressInv
  <2>1. CASE u = t
    BY <1>3, <2>1, Zenon DEF Progress, BeforeChange, InPlacePath, InPlaceWriting
  <2>2. CASE u # t
    <3>1. Progress(u)
      BY Zenon DEF ContentInv, ProgressInv
    <3>2. pc[u] # "idle" =>
             Visible(key[u])' = Visible(key[u]) /\ logged'[key[u]] = logged[key[u]]
      BY <1>1, <1>2, <1>3, <2>2, Zenon DEF Visible
    <3> QED
      BY <1>1, <1>3, <2>2, <3>1, <3>2, ProgressOther, Zenon
  <2> QED
    BY <2>1, <2>2, Zenon
<1>8. UntornInv'
  BY <1>1, <1>3, SMTT(20) DEF UntornInv, ContentInv
<1>9. LogFollowsStore'
  <2>1. Visible(key[t]) = val[t]
    <3>1. CASE pc[t] = "logDelete"
      BY <3>1, Zenon DEF ProgressInv, Progress, ContentInv, Visible
    <3>2. CASE pc[t] \in {"log", "logInPlace"}
      <4>1. t1[key[t]] = off[t] /\ mem[off[t]].lo = val[t] /\ off[t] \in Offsets
        BY <3>2, Zenon DEF ProgressInv, Progress, ContentInv, InPlacePath, InPlaceWriting, TypeInv, LocalsOK
      <4> QED
        BY <4>1 DEF Visible, NotFound, Offsets
    <3> QED
      BY <1>1, <3>1, <3>2, Zenon
  <2>2. \A j \in Keys : Visible(j)' = Visible(j)
    BY <1>1, Zenon DEF Visible
  <2> QED
    BY <1>1, <1>3, <2>1, <2>2 DEF LogFollowsStore, ContentInv
<1> QED
  BY <1>4, <1>5, <1>6, <1>7, <1>8, <1>9, Zenon DEF ContentInv

\* The steps of a request that only move it on.
LEMMA MoveContent ==
  ASSUME TypeInv, ContentInv, NEW t \in Writers, NEW step,
         pc' = [pc EXCEPT ![t] = step],
         UNCHANGED <<bytesUsed, mem, t1, logged, lock, key, val, off>>,
         \/ pc[t] \in {"gate", "register", "check"} /\ step \in {"gate", "register", "check", "reserve"}
         \/ pc[t] = "release" /\ step = "log"
         \/ /\ pc[t] \in {"enter", "checkBase", "checkWatermark"}
            /\ step \in {"checkBase", "checkWatermark", "verOdd", "gate"}
  PROVE  ContentInv'
<1>1. pc'[t] = step /\ \A u \in Writers : u # t => pc'[u] = pc[u]
  BY Zenon DEF TypeInv, TypeOK
<1>2. LockInv'
  BY <1>1, Zenon DEF LockInv, ContentInv
<1>3. NameInv'
  BY Zenon DEF NameInv, ContentInv
<1>4. FreshInv'
  BY <1>1, Zenon DEF FreshInv, ContentInv
<1>5. ProgressInv'
  <2> SUFFICES ASSUME NEW u \in Writers PROVE Progress(u)'
    BY Zenon DEF ProgressInv
  <2>1. Progress(u)
    BY Zenon DEF ContentInv, ProgressInv
  <2>2. Visible(key[u])' = Visible(key[u])
    BY Zenon DEF Visible
  <2>3. CASE u = t
    BY <1>1, <2>1, <2>2, <2>3, Zenon DEF Progress, BeforeChange, InPlacePath, InPlaceWriting
  <2>4. CASE u # t
    BY <1>1, <2>1, <2>2, <2>4, ProgressOther, Zenon
  <2> QED
    BY <2>3, <2>4, Zenon
<1>6. UntornInv'
  BY <1>1 DEF UntornInv, ContentInv
<1>7. LogFollowsStore'
  BY Zenon DEF LogFollowsStore, Visible, ContentInv
<1> QED
  BY <1>2, <1>3, <1>4, <1>5, <1>6, <1>7, Zenon DEF ContentInv

contentVars == <<bytesUsed, mem, t1, logged, lock, pc, key, val, off>>

LEMMA FrameContent ==
  ASSUME ContentInv, UNCHANGED contentVars PROVE ContentInv'
<1> USE DEF contentVars
<1>1. LockInv' /\ FreshInv'
  BY Zenon DEF LockInv, FreshInv, ContentInv
<1>2. NameInv' /\ UntornInv'
  BY Zenon DEF NameInv, UntornInv, ContentInv
<1>3. LogFollowsStore'
  BY Zenon DEF LogFollowsStore, Visible, ContentInv
<1>4. ProgressInv'
  BY Zenon DEF ProgressInv, Progress, Visible, ContentInv, NewRecord
<1> QED
  BY <1>1, <1>2, <1>3, <1>4, Zenon DEF ContentInv

LEMMA ContentStep ==
  ASSUME TypeInv, ContentInv, [Next]_vars PROVE ContentInv'
<1>1. ASSUME NEW t \in Writers, NEW k \in Keys, NEW v \in Values,
             Insert(t, k, v) \/ Update(t, k, v)
      PROVE  ContentInv'
  BY <1>1, StartContent, Zenon
<1>2. ASSUME NEW t \in Writers, NEW k \in Keys, Remove(t, k) PROVE ContentInv'
  BY <1>2, RemoveContent, Zenon
<1>3. ASSUME NEW t \in Writers,
             \/ AwaitResume(t) \/ Acquire(t) \/ CheckStop(t) \/ ReleaseHandle(t)
             \/ EnterInPlace(t) \/ CheckBase(t) \/ CheckWatermark(t)
      PROVE  ContentInv'
  <2>1. UNCHANGED <<bytesUsed, mem, t1, logged, lock, key, val, off>>
    BY <1>3, Zenon DEF AwaitResume, Acquire, CheckStop, ReleaseHandle, EnterInPlace, CheckBase,
       CheckWatermark, t2Vars, kvVars
  <2>2. CASE AwaitResume(t)
    <3>1. pc[t] = "gate" /\ pc' = [pc EXCEPT ![t] = "register"]
      BY <2>2, Zenon DEF AwaitResume, Goto
    <3> QED
      BY <2>1, <3>1, MoveContent, Zenon
  <2>3. CASE Acquire(t)
    <3>1. pc[t] = "register" /\ pc' = [pc EXCEPT ![t] = "check"]
      BY <2>3, Zenon DEF Acquire, Goto
    <3> QED
      BY <2>1, <3>1, MoveContent, Zenon
  <2>4. CASE CheckStop(t)
    <3>1. pc' = [pc EXCEPT ![t] = "gate"] \/ pc' = [pc EXCEPT ![t] = "reserve"]
      BY <2>4, Zenon DEF CheckStop, Goto
    <3> QED
      BY <2>1, <2>4, <3>1, MoveContent, Zenon DEF CheckStop
  <2>5. CASE ReleaseHandle(t)
    <3>1. pc[t] = "release" /\ pc' = [pc EXCEPT ![t] = "log"]
      BY <2>5, Zenon DEF ReleaseHandle, Goto
    <3> QED
      BY <2>1, <3>1, MoveContent, Zenon
  <2>6. CASE EnterInPlace(t)
    <3>1. pc[t] = "enter" /\ pc' = [pc EXCEPT ![t] = "checkBase"]
      BY <2>6, Zenon DEF EnterInPlace, Goto
    <3> QED
      BY <2>1, <3>1, MoveContent, Zenon
  <2>7. CASE CheckBase(t)
    <3>1. pc' = [pc EXCEPT ![t] = "gate"] \/ pc' = [pc EXCEPT ![t] = "checkWatermark"]
      BY <2>7, Zenon DEF CheckBase, FallThrough, Goto
    <3> QED
      BY <2>1, <2>7, <3>1, MoveContent, Zenon DEF CheckBase
  <2>8. CASE CheckWatermark(t)
    <3>1. pc' = [pc EXCEPT ![t] = "gate"] \/ pc' = [pc EXCEPT ![t] = "verOdd"]
      BY <2>8, Zenon DEF CheckWatermark, FallThrough, Goto
    <3> QED
      BY <2>1, <2>8, <3>1, MoveContent, Zenon DEF CheckWatermark
  <2> QED
    BY <1>3, <2>2, <2>3, <2>4, <2>5, <2>6, <2>7, <2>8, Zenon
<1>4. ASSUME NEW t \in Writers, Reserve(t) PROVE ContentInv'
  BY <1>4, ReserveContent, Zenon
<1>5. ASSUME NEW t \in Writers, WriteRecord(t) PROVE ContentInv'
  BY <1>5, WriteContent, Zenon
<1>6. ASSUME NEW t \in Writers, PublishT1(t) PROVE ContentInv'
  BY <1>6, PublishContent, Zenon
<1>7. ASSUME NEW t \in Writers, ReserveWal(t) PROVE ContentInv'
  BY <1>7, LogContent, Zenon
<1>8. ASSUME NEW t \in Writers, UpdateValueAt(t) PROVE ContentInv'
  BY <1>8, UpdateContent, Zenon
<1>9. CASE CheckpointStep \/ (\E o \in Offsets : Writeback(o)) \/ UNCHANGED vars
  <2>1. UNCHANGED contentVars
    BY <1>9, Zenon DEF contentVars, CheckpointStep, CkptUnchanged, Writeback, vars, t2Vars, kvVars,
       writerVars, ReadOldBase, StopWriters, StartWriterScan, StartInPlaceScan, StartScan,
       CaptureTarget, ResumeWriters, ClaimWatermark, StartMsync, FinishMsync,
       PublishManifest, AbortCycle, AdvanceBase, EndCycle, ScanSlot, MsyncRecord
  <2> QED
    BY <2>1, FrameContent, Zenon
<1> QED
  BY <1>1, <1>2, <1>3, <1>4, <1>5, <1>6, <1>7, <1>8, <1>9, Zenon DEF Next, WriterStep

\* With nobody in a key's stripe, store and log agree on the key.
THEOREM LogFollowsStoreCorrect == Spec => []LogFollowsStore
<1>1. ContentInv => LogFollowsStore
  BY Zenon DEF ContentInv
<1> QED
  BY TypeInit, TypeStep, ContentInit, ContentStep, <1>1, PTL DEF Spec

\* T1 names only records that were completely written before the publish.
THEOREM NoDanglingOffsetCorrect == Spec => []NoDanglingOffset
<1>1. ContentInv => NoDanglingOffset
  BY Zenon DEF ContentInv, NameInv, NoDanglingOffset
<1> QED
  BY TypeInit, TypeStep, ContentInit, ContentStep, <1>1, PTL DEF Spec

\* What the manifest or base_boundary vouches for is on disk, whole.
THEOREM BaseDurableCorrect == Spec => []BaseDurable
<1>1. TypeInv /\ CaptureInv /\ SyncInv /\ ContentInv => BaseDurable
  <2> SUFFICES ASSUME TypeInv, CaptureInv, SyncInv, ContentInv,
                      NEW o \in Offsets, o < manifest \/ o < baseBoundary
               PROVE  disk[o] = mem[o] /\ mem[o].lo = mem[o].hi
    BY Zenon DEF BaseDurable
  <2>1. o < manifest
    BY DEF TypeInv, TypeOK, CaptureInv, AppendInv, BoundaryInv, TargetHeld, Offsets
  <2>2. disk[o] = mem[o]
    BY <2>1, Zenon DEF SyncInv
  <2>3. ASSUME NEW t \in Writers, pc[t] = "hi", off[t] = o PROVE FALSE
    BY <2>1, <2>3 DEF TypeInv, TypeOK, CaptureInv, BoundaryInv, OwnInv, NoInPlaceBelowTarget,
       Offsets, InPlaceWriting
  <2> QED
    BY <2>2, <2>3, Zenon DEF ContentInv, UntornInv
<1> QED
  BY TypeInit, TypeStep, CaptureInit, CaptureStep, SyncInit, SyncStep,
     ContentInit, ContentStep, <1>1, PTL DEF Spec

-----------------------------------------------------------------------------
(* Readers beside the writers and the checkpoint.                          *)

\* The steps at which the version of the record being rewritten is odd, and
\* those of an in-place update that has not touched the record yet.
Rewriting == {"lo", "hi", "verEven"}
BeforeRewrite == {"enter", "checkBase", "checkWatermark", "verOdd"}

\* A record's version is odd exactly while one writer rewrites it.
VersionInv ==
  /\ \A o \in Offsets : mem[o].ver % 2 # 0 =>
        \E t \in Writers : pc[t] \in Rewriting /\ off[t] = o
  /\ \A t \in Writers : pc[t] \in Rewriting =>
        mem[off[t]].ver % 2 # 0 /\ mem[off[t]].ver + 1 <= MaxVersion
  /\ \A t \in Writers : pc[t] \in BeforeRewrite =>
        mem[off[t]].ver % 2 = 0 /\ mem[off[t]].ver + 2 <= MaxVersion

\* The record a get is about stays the key's: nobody appends there any more.
Located(r) ==
  /\ rkey[r] \in Keys /\ roff[r] \in Offsets
  /\ roff[r] < bytesUsed /\ mem[roff[r]].key = rkey[r]
  /\ \A t \in Writers : pc[t] \in {"write", "publish"} => off[t] # roff[r]
  /\ mem[roff[r]].ver % 2 = 0 => mem[roff[r]].lo \in valid[r]

\* What has been copied is what the record holds, as long as the version is
\* still the one read first.
Copied(r) ==
  /\ rpc[r] \in {"lo", "hi", "ver2"} =>
       rver[r] \in Nat /\ rver[r] % 2 = 0 /\ rver[r] <= mem[roff[r]].ver
  /\ rpc[r] \in {"hi", "ver2"} /\ mem[roff[r]].ver = rver[r] =>
       rlo[r] = mem[roff[r]].lo
  /\ rpc[r] = "ver2" /\ mem[roff[r]].ver = rver[r] => rhi[r] = mem[roff[r]].hi
  /\ rpc[r] \in {"baseLo", "baseHi"} => roff[r] < baseBoundary
  /\ rpc[r] = "baseHi" => rlo[r] = mem[roff[r]].lo
  /\ rpc[r] = "done" => rlo[r] = rhi[r] /\ rlo[r] \in valid[r]

ReadTypeOK ==
  /\ DOMAIN rpc = Readers /\ DOMAIN rkey = Readers /\ DOMAIN roff = Readers
  /\ DOMAIN rver = Readers /\ DOMAIN rlo = Readers /\ DOMAIN rhi = Readers
  /\ DOMAIN valid = Readers

ReadInv ==
  \A r \in Readers : rpc[r] # "idle" => Located(r) /\ Copied(r)

LEMMA VersionInit == Init => VersionInv
<1> SUFFICES ASSUME Init PROVE VersionInv
  OBVIOUS
<1>1. \A t \in Writers : pc[t] = "idle"
  BY Zenon DEF Init
<1>2. \A o \in Offsets : mem[o].ver = 0
  <2>1. CASE mem = [o \in Offsets |-> Blank]
    BY <2>1, Zenon DEF Blank
  <2>2. CASE \E k \in Keys, v \in Values :
               mem = [[o \in Offsets |-> Blank] EXCEPT ![0] = NewRecord(k, v)]
    <3>1. PICK k \in Keys, v \in Values :
               mem = [[o \in Offsets |-> Blank] EXCEPT ![0] = NewRecord(k, v)]
      BY <2>2, Zenon
    <3>2. NewRecord(k, v).ver = 0 /\ Blank.ver = 0
      BY Zenon DEF Blank, NewRecord
    <3> QED
      BY <3>1, <3>2, Zenon
  <2> QED
    BY <2>1, <2>2, Zenon DEF Init, Fresh
<1>3. 0 % 2 = 0
  OBVIOUS
<1> QED
  BY <1>1, <1>2, <1>3, Zenon DEF VersionInv, Rewriting, BeforeRewrite

\* An in-place update is alone with the record of its key.
LEMMA AloneInPlace ==
  ASSUME TypeInv, ContentInv, NEW t \in Writers, pc[t] \in InPlacePath
  PROVE  /\ key[t] \in Keys /\ off[t] \in Offsets /\ t1[key[t]] = off[t]
         /\ mem[off[t]].key = key[t]
         /\ \A u \in Writers : u # t /\ pc[u] \in InPlacePath \cup {"write"} => off[u] # off[t]
<1>1. key[t] \in Keys /\ off[t] \in Offsets /\ pc[t] # "idle"
  BY Zenon DEF TypeInv, LocalsOK, InPlacePath, InPlaceWriting
<1>2. FreshInv /\ NameInv /\ ProgressInv
  BY Zenon DEF ContentInv
<1>3. \A u \in Writers : pc[u] \in InPlacePath => t1[key[u]] = off[u]
  BY <1>2, Zenon DEF ProgressInv, Progress
<1>4. \A u \in Writers : pc[u] \in InPlacePath =>
        key[u] \in Keys /\ mem[off[u]].key = key[u]
  <2> SUFFICES ASSUME NEW u \in Writers, pc[u] \in InPlacePath
               PROVE  key[u] \in Keys /\ mem[off[u]].key = key[u]
    BY Zenon
  <2>1. key[u] \in Keys /\ off[u] \in Offsets
    BY Zenon DEF TypeInv, LocalsOK, InPlacePath, InPlaceWriting
  <2>2. off[u] # NotFound
    BY <2>1 DEF Offsets, NotFound
  <2> QED
    BY <1>2, <1>3, <2>1, <2>2, Zenon DEF NameInv
<1>5. \A u \in Writers : u # t /\ pc[u] \in InPlacePath => key[u] # key[t]
  BY <1>1, ActiveWriter, Zenon DEF InPlacePath, InPlaceWriting
<1>6. \A u \in Writers : pc[u] = "write" => off[u] # off[t]
  BY <1>1, <1>2, <1>3, Zenon DEF FreshInv
<1> QED
  BY <1>1, <1>3, <1>4, <1>5, <1>6, ZenonT(40)

\* A step that leaves the records alone and moves no update into or out of a
\* rewrite.
LEMMA VersionMove ==
  ASSUME VersionInv, UNCHANGED mem,
         \A u \in Writers : /\ pc[u] \in Rewriting => pc'[u] \in Rewriting
                            /\ pc'[u] \in Rewriting => pc[u] \in Rewriting
                            /\ pc'[u] \in BeforeRewrite => pc[u] \in BeforeRewrite
                            /\ pc'[u] \in Rewriting \cup BeforeRewrite => off'[u] = off[u]
  PROVE  VersionInv'
<1>1. \A o \in Offsets : mem'[o].ver % 2 # 0 =>
        \E t \in Writers : pc'[t] \in Rewriting /\ off'[t] = o
  BY ZenonT(40) DEF VersionInv
<1>2. \A t \in Writers : pc'[t] \in Rewriting =>
        mem'[off'[t]].ver % 2 # 0 /\ mem'[off'[t]].ver + 1 <= MaxVersion
  BY Zenon DEF VersionInv
<1>3. \A t \in Writers : pc'[t] \in BeforeRewrite =>
        mem'[off'[t]].ver % 2 = 0 /\ mem'[off'[t]].ver + 2 <= MaxVersion
  BY Zenon DEF VersionInv
<1> QED
  BY <1>1, <1>2, <1>3, Zenon DEF VersionInv

\* A version below the modulus does not wrap around.
LEMMA SmallRemainder ==
  ASSUME NEW n \in Nat, NEW m \in Nat, n < m PROVE n % m = n
OBVIOUS

\* What update_value_at() does to the version of its record.
LEMMA UpdateVersion ==
  ASSUME MaxVersion < VersionMod, TypeInv, ContentInv, VersionInv,
         NEW t \in Writers, UpdateValueAt(t)
  PROVE  /\ pc[t] \in {"verOdd"} \cup Rewriting /\ off[t] \in Offsets
         /\ \A p \in Offsets : p # off[t] => mem'[p] = mem[p]
         /\ mem[off[t]].ver \in Nat /\ mem'[off[t]].ver \in Nat
         /\ mem'[off[t]].key = mem[off[t]].key
         /\ \/ /\ pc[t] = "verOdd" /\ pc' = [pc EXCEPT ![t] = "lo"]
               /\ mem'[off[t]].ver = mem[off[t]].ver + 1 /\ mem'[off[t]].ver % 2 # 0
               /\ mem'[off[t]].ver + 1 <= MaxVersion
            \/ /\ pc[t] \in {"lo", "hi"} /\ mem'[off[t]].ver = mem[off[t]].ver
               /\ mem[off[t]].ver % 2 # 0 /\ mem[off[t]].ver + 1 <= MaxVersion
               /\ \E s \in {"hi", "verEven"} : pc' = [pc EXCEPT ![t] = s]
            \/ /\ pc[t] = "verEven" /\ pc' = [pc EXCEPT ![t] = "logInPlace"]
               /\ mem'[off[t]].ver = mem[off[t]].ver + 1 /\ mem'[off[t]].ver % 2 = 0
<1> DEFINE o == off[t]
<1>1. pc[t] \in {"verOdd"} \cup Rewriting
  BY Zenon DEF UpdateValueAt, Rewriting
<1>2. o \in Offsets /\ mem \in [Offsets -> Records]
  BY <1>1, Zenon DEF TypeInv, TypeOK, LocalsOK, InPlacePath, InPlaceWriting, Rewriting
<1>3. mem[o].ver \in Nat /\ mem[o] \in Records
  BY <1>2, Zenon DEF Records
<1>4. \A p \in Offsets : p # o => mem'[p] = mem[p]
  <2>1. \E r : mem' = [mem EXCEPT ![off[t]] = r]
    BY Zenon DEF UpdateValueAt
  <2> QED
    BY <1>2, <2>1, Zenon
<1>5. CASE pc[t] = "verOdd"
  <2>1. /\ mem' = [mem EXCEPT ![o].ver = (@ + 1) % VersionMod]
        /\ pc' = [pc EXCEPT ![t] = "lo"]
    BY <1>5, Zenon DEF UpdateValueAt, Goto
  <2>2. mem'[o].ver = (mem[o].ver + 1) % VersionMod /\ mem'[o].key = mem[o].key
    BY <1>2, <1>3, <2>1 DEF Records
  <2>3. mem[o].ver % 2 = 0 /\ mem[o].ver + 2 <= MaxVersion
    BY <1>5, Zenon DEF VersionInv, BeforeRewrite
  <2>4. mem'[o].ver = mem[o].ver + 1
    <3>1. mem[o].ver + 1 \in Nat /\ VersionMod \in Nat /\ mem[o].ver + 1 < VersionMod
      BY <1>3, <2>3, VersionAssumption, BoundAssumption
    <3> QED
      BY <2>2, <3>1, SmallRemainder, Zenon
  <2>5. mem'[o].ver % 2 # 0 /\ mem'[o].ver + 1 <= MaxVersion /\ mem'[o].ver \in Nat
    BY <1>3, <2>3, <2>4, BoundAssumption
  <2> QED
    BY <1>1, <1>2, <1>3, <1>4, <1>5, <2>1, <2>2, <2>4, <2>5, Zenon
<1>6. CASE pc[t] \in {"lo", "hi"}
  <2>1. \E s \in {"hi", "verEven"} : pc' = [pc EXCEPT ![t] = s]
    BY <1>6, Zenon DEF UpdateValueAt, Goto
  <2>2. \/ mem' = [mem EXCEPT ![o].lo = val[t]]
        \/ mem' = [mem EXCEPT ![o].hi = val[t]]
    BY <1>6, Zenon DEF UpdateValueAt
  <2>3. mem'[o].ver = mem[o].ver /\ mem'[o].key = mem[o].key
    BY <1>2, <1>3, <2>2 DEF Records
  <2>4. mem[o].ver % 2 # 0 /\ mem[o].ver + 1 <= MaxVersion
    BY <1>6, Zenon DEF VersionInv, Rewriting
  <2> QED
    BY <1>1, <1>2, <1>3, <1>4, <1>6, <2>1, <2>3, <2>4, Zenon
<1>7. CASE pc[t] = "verEven"
  <2>1. /\ mem' = [mem EXCEPT ![o].ver = (@ + 1) % VersionMod]
        /\ pc' = [pc EXCEPT ![t] = "logInPlace"]
    BY <1>7, Zenon DEF UpdateValueAt, Goto
  <2>2. mem'[o].ver = (mem[o].ver + 1) % VersionMod /\ mem'[o].key = mem[o].key
    BY <1>2, <1>3, <2>1 DEF Records
  <2>3. mem[o].ver % 2 # 0 /\ mem[o].ver + 1 <= MaxVersion
    BY <1>7, Zenon DEF VersionInv, Rewriting
  <2>4. mem'[o].ver = mem[o].ver + 1
    <3>1. mem[o].ver + 1 \in Nat /\ VersionMod \in Nat /\ mem[o].ver + 1 < VersionMod
      BY <1>3, <2>3, VersionAssumption, BoundAssumption
    <3> QED
      BY <2>2, <3>1, SmallRemainder, Zenon
  <2>5. mem'[o].ver % 2 = 0 /\ mem'[o].ver \in Nat
    BY <1>3, <2>3, <2>4, BoundAssumption
  <2> QED
    BY <1>1, <1>2, <1>3, <1>4, <1>7, <2>1, <2>2, <2>4, <2>5, Zenon
<1> QED
  BY <1>1, <1>5, <1>6, <1>7, Zenon DEF Rewriting

LEMMA WriterVersion ==
  ASSUME MaxVersion < VersionMod, TypeInv, ContentInv, VersionInv,
         NEW t \in Writers, WriterStep(t)
  PROVE  VersionInv'
<1>1. pc \in [Writers -> WriterSteps] /\ off \in [Writers -> Nat]
  BY Zenon DEF TypeInv, TypeOK
<1>2. ASSUME NEW from, NEW to, pc[t] = from, pc' = [pc EXCEPT ![t] = to],
             from \notin Rewriting, to \notin Rewriting,
             to \in BeforeRewrite => from \in BeforeRewrite /\ off'[t] = off[t],
             \A u \in Writers : u # t => off'[u] = off[u], UNCHANGED mem
      PROVE  VersionInv'
  <2>1. \A u \in Writers : /\ pc[u] \in Rewriting => pc'[u] \in Rewriting
                           /\ pc'[u] \in Rewriting => pc[u] \in Rewriting
                           /\ pc'[u] \in BeforeRewrite => pc[u] \in BeforeRewrite
                           /\ pc'[u] \in Rewriting \cup BeforeRewrite => off'[u] = off[u]
    BY <1>1, <1>2, Zenon
  <2> QED
    BY <1>2, <2>1, VersionMove, Zenon
<1> USE DEF Rewriting, BeforeRewrite, Goto
<1>3. ASSUME NEW k \in Keys, NEW v \in Values, Insert(t, k, v) PROVE VersionInv'
  BY <1>2, <1>3, Zenon DEF Insert, LockStripe
<1>4. ASSUME NEW k \in Keys, Remove(t, k) PROVE VersionInv'
  BY <1>2, <1>4, Zenon DEF Remove, LockStripe
<1>5. CASE AwaitResume(t)
  BY <1>2, <1>5, Zenon DEF AwaitResume
<1>6. CASE Acquire(t)
  BY <1>2, <1>6, Zenon DEF Acquire
<1>7. CASE CheckStop(t)
  BY <1>2, <1>7, Zenon DEF CheckStop
<1>8. CASE Reserve(t)
  <2>1. /\ pc[t] = "reserve" /\ UNCHANGED mem
        /\ \A u \in Writers : u # t => off'[u] = off[u]
        /\ pc' = [pc EXCEPT ![t] = "idle"] \/ pc' = [pc EXCEPT ![t] = "write"]
    BY <1>1, <1>8, Zenon DEF Reserve, Return
  <2> QED
    BY <1>2, <2>1, Zenon
<1>9. CASE PublishT1(t)
  BY <1>2, <1>9, Zenon DEF PublishT1
<1>10. CASE ReleaseHandle(t)
  BY <1>2, <1>10, Zenon DEF ReleaseHandle
<1>11. CASE ReserveWal(t)
  <2>1. /\ pc[t] \in {"log", "logDelete", "logInPlace"} /\ UNCHANGED mem
        /\ \A u \in Writers : u # t => off'[u] = off[u]
        /\ pc' = [pc EXCEPT ![t] = "idle"]
    BY <1>1, <1>11, Zenon DEF ReserveWal, Return
  <2> QED
    BY <1>2, <2>1, Zenon
<1>12. CASE EnterInPlace(t)
  BY <1>2, <1>12, Zenon DEF EnterInPlace
<1>13. CASE CheckBase(t)
  BY <1>2, <1>13, Zenon DEF CheckBase, FallThrough
<1>14. CASE CheckWatermark(t)
  BY <1>2, <1>14, Zenon DEF CheckWatermark, FallThrough
<1>15. ASSUME NEW k \in Keys, NEW v \in Values, Update(t, k, v) PROVE VersionInv'
  <2>1. /\ pc[t] = "idle" /\ lock[k] = Nil /\ t1[k] # NotFound
        /\ mem[t1[k]].ver + 2 <= MaxVersion /\ mem' = mem
        /\ off' = [off EXCEPT ![t] = t1[k]] /\ pc' = [pc EXCEPT ![t] = "enter"]
    BY <1>15, Zenon DEF Update, LockStripe
  <2>2. t1[k] \in Offsets
    BY <2>1, Zenon DEF TypeInv, TypeOK
  <2>3. mem[t1[k]].ver % 2 = 0
    <3> SUFFICES ASSUME mem[t1[k]].ver % 2 # 0 PROVE FALSE
      OBVIOUS
    <3>1. PICK u \in Writers : pc[u] \in Rewriting /\ off[u] = t1[k]
      BY <2>2, Zenon DEF VersionInv
    <3>2. key[u] \in Keys /\ t1[key[u]] = off[u] /\ mem[off[u]].key = key[u]
      BY <3>1, AloneInPlace, Zenon DEF InPlacePath, InPlaceWriting
    <3>3. key[u] = k
      BY <2>1, <3>1, <3>2, Zenon DEF ContentInv, NameInv
    <3>4. lock[key[u]] = u
      BY <3>1, ActiveWriter, Zenon
    <3> QED
      BY <2>1, <3>3, <3>4, NilAssumption, Zenon
  <2>4. \A u \in Writers : u # t => pc'[u] = pc[u] /\ off'[u] = off[u]
    BY <1>1, <2>1, Zenon
  <2>5. pc'[t] = "enter" /\ off'[t] = t1[k]
    BY <1>1, <2>1, <2>2, Zenon
  <2>6. \A o \in Offsets : mem'[o].ver % 2 # 0 =>
          \E u \in Writers : pc'[u] \in Rewriting /\ off'[u] = o
    <3>1. \A u \in Writers : pc[u] \in Rewriting => u # t
      BY <2>1, Zenon
    <3>2. \A o \in Offsets : mem[o].ver % 2 # 0 =>
            \E u \in Writers : pc[u] \in Rewriting /\ off[u] = o
      BY Zenon DEF VersionInv
    <3> QED
      BY <2>1, <2>4, <3>1, <3>2
  <2>7. ASSUME NEW u \in Writers
        PROVE  /\ pc'[u] \in Rewriting =>
                    mem'[off'[u]].ver % 2 # 0 /\ mem'[off'[u]].ver + 1 <= MaxVersion
               /\ pc'[u] \in BeforeRewrite =>
                    mem'[off'[u]].ver % 2 = 0 /\ mem'[off'[u]].ver + 2 <= MaxVersion
    <3>1. CASE u = t
      BY <2>1, <2>3, <2>5, <3>1, Zenon
    <3>2. CASE u # t
      BY <2>1, <2>4, <3>2, ZenonT(40) DEF VersionInv
    <3> QED
      BY <3>1, <3>2, Zenon
  <2> QED
    BY <2>6, <2>7, Zenon DEF VersionInv
<1>16. CASE WriteRecord(t)
  <2>1. /\ pc[t] = "write" /\ pc' = [pc EXCEPT ![t] = "publish"] /\ off' = off
        /\ mem' = [mem EXCEPT ![off[t]] = NewRecord(key[t], val[t])]
    BY <1>16, Zenon DEF WriteRecord
  <2>2. off[t] \in Offsets /\ mem \in [Offsets -> Records]
    BY <2>1, Zenon DEF TypeInv, TypeOK, LocalsOK
  <2>3. mem'[off[t]].ver = 0 /\ \A o \in Offsets : o # off[t] => mem'[o] = mem[o]
    BY <2>1, <2>2, Zenon DEF NewRecord
  <2>4. 0 % 2 = 0
    OBVIOUS
  <2>5. ASSUME NEW u \in Writers, pc[u] \in Rewriting \cup BeforeRewrite
        PROVE  u # t /\ off[u] \in Offsets /\ off[u] # off[t]
    <3>1. u # t
      BY <2>1, <2>5, Zenon
    <3> QED
      BY <2>1, <2>5, <3>1, AloneInPlace, Zenon DEF InPlacePath, InPlaceWriting
  <2>6. /\ \A u \in Writers : u # t => pc'[u] = pc[u]
        /\ pc'[t] = "publish"
    BY <1>1, <2>1, Zenon
  <2>7. \A o \in Offsets : mem'[o].ver % 2 # 0 =>
          \E u \in Writers : pc'[u] \in Rewriting /\ off'[u] = o
    <3> SUFFICES ASSUME NEW o \in Offsets, mem'[o].ver % 2 # 0
                 PROVE  \E u \in Writers : pc'[u] \in Rewriting /\ off'[u] = o
      BY Zenon
    <3>1. o # off[t] /\ mem[o].ver % 2 # 0
      BY <2>3, <2>4, Zenon
    <3>2. PICK u \in Writers : pc[u] \in Rewriting /\ off[u] = o
      BY <3>1, Zenon DEF VersionInv
    <3>3. u # t
      BY <2>5, <3>2, Zenon
    <3> QED
      BY <2>1, <2>6, <3>2, <3>3, Zenon
  <2>8. ASSUME NEW u \in Writers, pc'[u] \in Rewriting \cup BeforeRewrite
        PROVE  pc[u] = pc'[u] /\ mem'[off'[u]] = mem[off[u]]
    <3>1. u # t /\ pc[u] = pc'[u]
      BY <2>6, <2>8, Zenon
    <3> QED
      BY <2>1, <2>3, <2>5, <2>8, <3>1, Zenon
  <2>9. \A u \in Writers : pc'[u] \in Rewriting =>
          mem'[off'[u]].ver % 2 # 0 /\ mem'[off'[u]].ver + 1 <= MaxVersion
    BY <2>8, Zenon DEF VersionInv
  <2>10. \A u \in Writers : pc'[u] \in BeforeRewrite =>
          mem'[off'[u]].ver % 2 = 0 /\ mem'[off'[u]].ver + 2 <= MaxVersion
    BY <2>8, Zenon DEF VersionInv
  <2> QED
    BY <2>7, <2>9, <2>10, Zenon DEF VersionInv
<1>17. CASE UpdateValueAt(t)
  <2> DEFINE o == off[t]
  <2>1. /\ pc[t] \in {"verOdd"} \cup Rewriting /\ o \in Offsets /\ off' = off
        /\ \A p \in Offsets : p # o => mem'[p] = mem[p]
        /\ \/ /\ pc' = [pc EXCEPT ![t] = "lo"]
              /\ mem'[o].ver % 2 # 0 /\ mem'[o].ver + 1 <= MaxVersion
           \/ /\ \E s \in {"hi", "verEven"} : pc' = [pc EXCEPT ![t] = s]
              /\ mem'[o].ver % 2 # 0 /\ mem'[o].ver + 1 <= MaxVersion
           \/ /\ pc' = [pc EXCEPT ![t] = "logInPlace"]
              /\ mem'[o].ver % 2 = 0
    <3>1. off' = off
      BY <1>17, Zenon DEF UpdateValueAt
    <3> QED
      BY <1>17, <3>1, UpdateVersion, Zenon
  <2>2. \A u \in Writers : u # t => pc'[u] = pc[u]
    BY <1>1, <2>1, Zenon
  <2>3. \/ pc'[t] \in Rewriting /\ mem'[o].ver % 2 # 0 /\ mem'[o].ver + 1 <= MaxVersion
        \/ pc'[t] = "logInPlace" /\ mem'[o].ver % 2 = 0
    BY <1>1, <2>1, Zenon
  <2>4. ASSUME NEW u \in Writers, u # t, pc[u] \in Rewriting \cup BeforeRewrite
        PROVE  off[u] \in Offsets /\ off[u] # o /\ mem'[off[u]] = mem[off[u]]
    BY <2>1, <2>4, AloneInPlace, Zenon DEF InPlacePath, InPlaceWriting
  <2>5. \A p \in Offsets : mem'[p].ver % 2 # 0 =>
          \E u \in Writers : pc'[u] \in Rewriting /\ off'[u] = p
    <3> SUFFICES ASSUME NEW p \in Offsets, mem'[p].ver % 2 # 0
                 PROVE  \E u \in Writers : pc'[u] \in Rewriting /\ off'[u] = p
      BY Zenon
    <3>1. CASE p = o
      BY <2>1, <2>3, <3>1, Zenon
    <3>2. CASE p # o
      <4>1. PICK u \in Writers : pc[u] \in Rewriting /\ off[u] = p
        BY <2>1, <3>2, Zenon DEF VersionInv
      <4> QED
        BY <2>1, <2>2, <3>2, <4>1, Zenon
    <3> QED
      BY <3>1, <3>2, Zenon
  <2>6. ASSUME NEW u \in Writers
        PROVE  /\ pc'[u] \in Rewriting =>
                    mem'[off'[u]].ver % 2 # 0 /\ mem'[off'[u]].ver + 1 <= MaxVersion
               /\ pc'[u] \in BeforeRewrite =>
                    mem'[off'[u]].ver % 2 = 0 /\ mem'[off'[u]].ver + 2 <= MaxVersion
    <3>1. CASE u = t
      BY <2>1, <2>3, <3>1, Zenon
    <3>2. CASE u # t
      BY <2>1, <2>2, <2>4, <3>2, ZenonT(40) DEF VersionInv
    <3> QED
      BY <3>1, <3>2, Zenon
  <2> QED
    BY <2>5, <2>6, Zenon DEF VersionInv
<1> QED
  BY <1>3, <1>4, <1>5, <1>6, <1>7, <1>8, <1>9, <1>10, <1>11, <1>12, <1>13, <1>14, <1>15, <1>16,
     <1>17, Zenon DEF WriterStep

\* The checkpoint and the kernel move no writer and write no record.
LEMMA StillWriters ==
  ASSUME CheckpointStep \/ (\E o \in Offsets : Writeback(o)) \/ UNCHANGED vars
  PROVE  UNCHANGED <<bytesUsed, mem, t1, logged, lock, pc, key, val, off>>
BY Zenon DEF CheckpointStep, CkptUnchanged, Writeback, vars, ReadOldBase, StopWriters,
   StartWriterScan, StartInPlaceScan, StartScan, CaptureTarget, ResumeWriters, ClaimWatermark,
   StartMsync, FinishMsync, PublishManifest, AbortCycle, AdvanceBase, EndCycle, ScanSlot,
   MsyncRecord

LEMMA VersionStep ==
  ASSUME MaxVersion < VersionMod, TypeInv, ContentInv, VersionInv, [Next]_vars
  PROVE  VersionInv'
<1>1. CASE CheckpointStep \/ (\E o \in Offsets : Writeback(o)) \/ UNCHANGED vars
  BY <1>1, StillWriters, Zenon DEF VersionInv
<1> QED
  BY <1>1, WriterVersion, Zenon DEF Next

\* A record T1 has named is written again in place only.
LEMMA RecordStep ==
  ASSUME TypeInv, [Next]_vars, NEW o \in Offsets, o < bytesUsed,
         \A t \in Writers : pc[t] \in {"write", "publish"} => off[t] # o
  PROVE  /\ o < bytesUsed'
         /\ \A t \in Writers : pc'[t] \in {"write", "publish"} => off'[t] # o
         /\ mem'[o] = mem[o] \/ \E t \in Writers : UpdateValueAt(t) /\ off[t] = o
<1>1. /\ pc \in [Writers -> WriterSteps] /\ off \in [Writers -> Nat] /\ o \in Int
      /\ bytesUsed \in Nat /\ mem \in [Offsets -> Records]
  BY CapacityAssumption DEF TypeInv, TypeOK, Offsets
<1>2. ASSUME NEW t \in Writers, Reserve(t)
      PROVE  /\ o < bytesUsed' /\ mem' = mem
             /\ \A u \in Writers : pc'[u] \in {"write", "publish"} => off'[u] # o
  <2>1. pc[t] = "reserve" /\ bytesUsed' = bytesUsed + Len[val[t]] /\ mem' = mem
    BY <1>2, Zenon DEF Reserve
  <2>2. val[t] \in Values
    BY <2>1, Zenon DEF TypeInv, LocalsOK
  <2>3. Len[val[t]] \in Nat
    BY <2>2, LenAssumption, Zenon
  <2>4. \/ pc' = [pc EXCEPT ![t] = "idle"] /\ \A u \in Writers : u # t => off'[u] = off[u]
        \/ pc' = [pc EXCEPT ![t] = "write"] /\ off' = [off EXCEPT ![t] = bytesUsed]
    BY <1>1, <1>2, Zenon DEF Reserve, Return, Goto
  <2>5. bytesUsed # o
    BY <1>1
  <2>6. \A u \in Writers : pc'[u] \in {"write", "publish"} => off'[u] # o
    BY <1>1, <2>4, <2>5, Zenon
  <2> QED
    BY <1>1, <2>1, <2>3, <2>6
<1>3. ASSUME NEW t \in Writers, WriterStep(t), ~Reserve(t)
      PROVE  /\ bytesUsed' = bytesUsed
             /\ \A u \in Writers : pc'[u] \in {"write", "publish"} => off'[u] # o
             /\ mem'[o] = mem[o] \/ (UpdateValueAt(t) /\ off[t] = o)
  <2>1. bytesUsed' = bytesUsed
    BY <1>3, Zenon DEF WriterStep, Insert, Update, Remove, AwaitResume, Acquire, CheckStop,
       WriteRecord, PublishT1, ReleaseHandle, ReserveWal, EnterInPlace, CheckBase,
       CheckWatermark, UpdateValueAt
  <2>2. CASE WriteRecord(t)
    <3>1. /\ pc[t] = "write" /\ pc' = [pc EXCEPT ![t] = "publish"] /\ off' = off
          /\ mem' = [mem EXCEPT ![off[t]] = NewRecord(key[t], val[t])]
      BY <2>2, Zenon DEF WriteRecord, Goto
    <3> QED
      BY <1>1, <2>1, <3>1, Zenon
  <2>3. CASE ~WriteRecord(t)
    <3>1. \E to \in WriterSteps \ {"write", "publish"} : pc' = [pc EXCEPT ![t] = to]
      <4> USE DEF Goto, WriterSteps, InPlaceWriting, HoldsHandle
      <4>1. CASE \E k \in Keys : \/ Remove(t, k)
                                \/ \E v \in Values : Insert(t, k, v) \/ Update(t, k, v)
        BY <4>1, Zenon DEF Insert, Update, Remove
      <4>2. CASE AwaitResume(t) \/ Acquire(t) \/ CheckStop(t)
        BY <4>2, Zenon DEF AwaitResume, Acquire, CheckStop
      <4>3. CASE PublishT1(t) \/ ReleaseHandle(t) \/ ReserveWal(t) \/ EnterInPlace(t)
        BY <4>3, Zenon DEF PublishT1, ReleaseHandle, ReserveWal, Return, EnterInPlace
      <4>4. CASE CheckBase(t) \/ CheckWatermark(t)
        BY <4>4, Zenon DEF CheckBase, CheckWatermark, FallThrough
      <4>5. CASE UpdateValueAt(t)
        BY <4>5, Zenon DEF UpdateValueAt
      <4> QED
        BY <1>3, <2>3, <4>1, <4>2, <4>3, <4>4, <4>5, Zenon DEF WriterStep
    <3>2. off' = off \/ \E x : off' = [off EXCEPT ![t] = x]
      BY <1>3, <2>3, Zenon DEF WriterStep, Insert, Update, Remove, AwaitResume, Acquire,
         CheckStop, PublishT1, ReleaseHandle, ReserveWal, Return, EnterInPlace, CheckBase,
         CheckWatermark, UpdateValueAt
    <3>3. \A u \in Writers : pc'[u] \in {"write", "publish"} => off'[u] # o
      BY <1>1, <3>1, <3>2, Zenon
    <3>4. mem' = mem \/ UpdateValueAt(t)
      BY <1>3, <2>3, WriterFrame, Zenon
    <3>5. UpdateValueAt(t) => \E x : mem' = [mem EXCEPT ![off[t]] = x]
      BY Zenon DEF UpdateValueAt
    <3>6. mem'[o] = mem[o] \/ (UpdateValueAt(t) /\ off[t] = o)
      BY <1>1, <3>4, <3>5, Zenon
    <3> QED
      BY <2>1, <3>3, <3>6, Zenon
  <2> QED
    BY <2>2, <2>3, Zenon
<1>4. CASE CheckpointStep \/ (\E p \in Offsets : Writeback(p)) \/ UNCHANGED vars
  BY <1>4, StillWriters, Zenon
<1> QED
  BY <1>2, <1>3, <1>4, Zenon DEF Next

\* A step of the store beside a get.
LEMMA StoreBeside ==
  ASSUME MaxVersion < VersionMod, TypeInv, CaptureInv, SyncInv, ContentInv, VersionInv,
         TypeInv', CaptureInv', ReadTypeOK, StoreStep,
         NEW r \in Readers, Located(r), Copied(r)
  PROVE  Located(r)' /\ Copied(r)'
<1> DEFINE o == roff[r]
<1>1. /\ o \in Offsets /\ rkey[r] \in Keys /\ rkey[r] # Nil /\ o # NotFound /\ o \in Int
  BY NilAssumption, CapacityAssumption DEF Located, Offsets, NotFound
<1>2. rpc' = rpc /\ rkey' = rkey /\ roff' = roff /\ rver' = rver /\ rlo' = rlo /\ rhi' = rhi
  BY Zenon DEF StoreStep
<1>3. Next
  BY Zenon DEF StoreStep
<1>4. /\ valid[r] \subseteq valid'[r]
      /\ t1'[rkey[r]] = o /\ mem'[o].ver % 2 = 0 => mem'[o].lo \in valid'[r]
  <2>1. valid'[r] = IF rkey[r] = Nil THEN {}
                    ELSE IF t1'[rkey[r]] = NotFound THEN valid[r] \cup {Nil}
                    ELSE IF mem'[t1'[rkey[r]]].ver % 2 = 0
                           THEN valid[r] \cup {mem'[t1'[rkey[r]]].lo}
                    ELSE valid[r]
    BY Zenon DEF StoreStep
  <2> QED
    BY <1>1, <2>1
<1>5. /\ o < bytesUsed'
      /\ \A t \in Writers : pc'[t] \in {"write", "publish"} => off'[t] # o
      /\ mem'[o] = mem[o] \/ \E t \in Writers : UpdateValueAt(t) /\ off[t] = o
  BY <1>1, <1>3, RecordStep, Zenon DEF Located
<1>6. baseBoundary \in Nat /\ baseBoundary' \in Nat /\ baseBoundary' >= baseBoundary
  BY <1>3, BoundaryStep, Zenon DEF TypeInv, TypeOK
<1>7. o < baseBoundary => o < baseBoundary' /\ mem'[o] = mem[o]
  <2>1. o < baseBoundary => mem'[o] = mem[o]
    BY <1>1, <1>3, BaseStep, Zenon
  <2> QED
    BY <1>1, <1>6, <2>1
<1>8. CASE mem'[o] = mem[o]
  <2>1. Located(r)'
    BY <1>1, <1>2, <1>4, <1>5, <1>8, Zenon DEF Located
  <2>2. Copied(r)'
    BY <1>2, <1>4, <1>7, <1>8, Zenon DEF Copied
  <2> QED
    BY <2>1, <2>2, Zenon
<1>9. ASSUME mem'[o] # mem[o], NEW t \in Writers, UpdateValueAt(t), off[t] = o
      PROVE  Located(r)' /\ Copied(r)'
  <2>1. /\ mem[o].ver \in Nat /\ mem'[o].ver \in Nat /\ mem'[o].key = mem[o].key
        /\ \/ mem'[o].ver = mem[o].ver + 1 /\ mem'[o].ver % 2 # 0
           \/ mem'[o].ver = mem[o].ver /\ mem[o].ver % 2 # 0
           \/ mem'[o].ver = mem[o].ver + 1 /\ mem'[o].ver % 2 = 0
        /\ pc[t] \in {"verOdd"} \cup Rewriting
    <3>1. /\ mem[off[t]].ver \in Nat /\ mem'[off[t]].ver \in Nat
          /\ mem'[off[t]].key = mem[off[t]].key
          /\ \/ mem'[off[t]].ver = mem[off[t]].ver + 1 /\ mem'[off[t]].ver % 2 # 0
             \/ mem'[off[t]].ver = mem[off[t]].ver /\ mem[off[t]].ver % 2 # 0
             \/ mem'[off[t]].ver = mem[off[t]].ver + 1 /\ mem'[off[t]].ver % 2 = 0
          /\ pc[t] \in {"verOdd"} \cup Rewriting
      BY <1>9, UpdateVersion, Zenon
    <3> QED
      BY <1>9, <3>1, Zenon
  <2>2. t1' = t1
    BY <1>9, Zenon DEF UpdateValueAt
  <2>3. t1[key[t]] = o /\ key[t] = mem[o].key
    BY <1>9, <2>1, AloneInPlace, Zenon DEF InPlacePath, InPlaceWriting, Rewriting
  <2>4. mem[o].key = rkey[r]
    BY Zenon DEF Located
  <2>5. t1'[rkey[r]] = o
    BY <2>2, <2>3, <2>4, Zenon
  <2>6. Located(r)'
    BY <1>1, <1>2, <1>4, <1>5, <2>1, <2>4, <2>5, Zenon DEF Located
  <2>7. rpc[r] \in {"lo", "hi", "ver2"} =>
          /\ rver[r] \in Nat /\ rver[r] % 2 = 0
          /\ rver[r] <= mem'[o].ver /\ mem'[o].ver # rver[r]
    <3>1. rpc[r] \in {"lo", "hi", "ver2"} =>
            rver[r] \in Nat /\ rver[r] % 2 = 0 /\ rver[r] <= mem[o].ver
      BY Zenon DEF Copied
    <3> QED
      BY <2>1, <3>1
  <2>8. rpc[r] \notin {"baseLo", "baseHi"}
    BY <1>7, <1>9, Zenon DEF Copied
  <2>9. rpc[r] = "done" => rlo[r] = rhi[r] /\ rlo[r] \in valid'[r]
    BY <1>4, Zenon DEF Copied
  <2>10. Copied(r)'
    BY <1>2, <2>7, <2>8, <2>9, Zenon DEF Copied
  <2> QED
    BY <2>6, <2>10, Zenon
<1> QED
  BY <1>5, <1>8, <1>9, Zenon

\* Below base_boundary nobody rewrites, so the record there is whole and its
\* version even.
LEMMA BaseWhole ==
  ASSUME TypeInv, CaptureInv, ContentInv, VersionInv, NEW o \in Offsets, o < baseBoundary
  PROVE  mem[o].ver % 2 = 0 /\ mem[o].lo = mem[o].hi
<1>1. o \in Int /\ baseBoundary \in Nat
  BY CapacityAssumption DEF TypeInv, TypeOK, Offsets
<1>2. \A t \in Writers : pc[t] \in Rewriting => off[t] >= baseBoundary /\ off[t] \in Nat
  BY Zenon DEF CaptureInv, OwnInv, InPlaceWriting, Rewriting, TypeInv, TypeOK
<1>3. \A t \in Writers : pc[t] \in Rewriting => off[t] # o
  BY <1>1, <1>2
<1> QED
  BY <1>3, Zenon DEF VersionInv, ContentInv, UntornInv, Rewriting

\* A step of the get itself.
LEMMA ReaderSelf ==
  ASSUME TypeInv, CaptureInv, ContentInv, VersionInv, ReadTypeOK, ReadInv,
         NEW r \in Readers, ReaderStep(r)
  PROVE  ReadTypeOK' /\ ReadInv'
<1>1. UNCHANGED vars
  BY Zenon DEF ReaderStep, Lookup, ReadBoundary, FirstVersion, CopyLo, CopyHi, SecondVersion,
     Answer
<1>2. ReadTypeOK'
  BY Zenon DEF ReadTypeOK, ReaderStep, Lookup, ReadBoundary, ReadBase, RGoto, FirstVersion,
     CopyLo, CopyHi, SecondVersion, Answer
<1>3. UNCHANGED <<mem, bytesUsed, baseBoundary, pc, off, t1>>
  BY <1>1, Zenon DEF vars
<1>4. ASSUME NEW s \in Readers, s # r, rpc'[s] # "idle" PROVE Located(s)' /\ Copied(s)'
  <2>1. /\ rpc'[s] = rpc[s] /\ rkey'[s] = rkey[s] /\ roff'[s] = roff[s] /\ rver'[s] = rver[s]
        /\ rlo'[s] = rlo[s] /\ rhi'[s] = rhi[s] /\ valid'[s] = valid[s]
    <3>1. \E x : rpc' = [rpc EXCEPT ![r] = x]
      BY Zenon DEF ReaderStep, Lookup, ReadBoundary, ReadBase, RGoto, FirstVersion, CopyLo,
         CopyHi, SecondVersion, Answer
    <3>2. /\ rkey' = rkey \/ \E x : rkey' = [rkey EXCEPT ![r] = x]
          /\ roff' = roff \/ \E x : roff' = [roff EXCEPT ![r] = x]
      BY Zenon DEF ReaderStep, Lookup, ReadBoundary, FirstVersion, CopyLo, CopyHi,
         SecondVersion, Answer
    <3>3. /\ rver' = rver \/ \E x : rver' = [rver EXCEPT ![r] = x]
          /\ rlo' = rlo \/ \E x : rlo' = [rlo EXCEPT ![r] = x]
      BY Zenon DEF ReaderStep, Lookup, ReadBoundary, FirstVersion, CopyLo, CopyHi,
         SecondVersion, Answer
    <3>4. /\ rhi' = rhi \/ \E x : rhi' = [rhi EXCEPT ![r] = x]
          /\ valid' = valid \/ \E x : valid' = [valid EXCEPT ![r] = x]
      BY Zenon DEF ReaderStep, Lookup, ReadBoundary, FirstVersion, CopyLo, CopyHi,
         SecondVersion, Answer
    <3> QED
      BY <1>4, <3>1, <3>2, <3>3, <3>4, Zenon DEF ReadTypeOK
  <2>2. Located(s) /\ Copied(s)
    BY <1>4, <2>1, Zenon DEF ReadInv
  <2>3. Located(s)'
    BY <1>3, <2>1, <2>2, Zenon DEF Located
  <2>4. Copied(s)'
    BY <1>3, <2>1, <2>2, Zenon DEF Copied
  <2> QED
    BY <2>3, <2>4, Zenon
<1>5. ASSUME rpc'[r] # "idle" PROVE Located(r)' /\ Copied(r)'
  <2>1. ASSUME NEW k \in Keys, Lookup(r, k) PROVE Located(r)' /\ Copied(r)'
    <3>1. /\ t1[k] # NotFound /\ rkey'[r] = k /\ roff'[r] = t1[k] /\ rpc'[r] = "boundary"
          /\ valid'[r] = IF mem[t1[k]].ver % 2 = 0 THEN {mem[t1[k]].lo} ELSE {logged[k]}
      BY <2>1, Zenon DEF Lookup, RGoto, ReadTypeOK
    <3>2. t1[k] \in Offsets
      BY <3>1, Zenon DEF TypeInv, TypeOK
    <3>3. /\ mem[t1[k]].key = k /\ t1[k] < bytesUsed
          /\ \A t \in Writers : pc[t] \in {"write", "publish"} => off[t] # t1[k]
      BY <3>1, Zenon DEF ContentInv, NameInv, FreshInv
    <3>4. Located(r)'
      BY <1>3, <3>1, <3>2, <3>3, Zenon DEF Located
    <3>5. Copied(r)'
      BY <3>1, Zenon DEF Copied
    <3> QED
      BY <3>4, <3>5, Zenon
  <2>2. CASE \A k \in Keys : ~Lookup(r, k)
    <3>1. rpc[r] # "idle" /\ ~Answer(r)
      BY <1>5, <2>2, ZenonT(40) DEF ReaderStep, ReadBoundary, FirstVersion, CopyLo, CopyHi,
         SecondVersion, Answer, RGoto, ReadTypeOK
    <3>2. Located(r) /\ Copied(r)
      BY <3>1, Zenon DEF ReadInv
    <3>3. rkey' = rkey /\ roff' = roff /\ valid' = valid
      BY <2>2, <3>1, Zenon DEF ReaderStep, ReadBoundary, FirstVersion, CopyLo, CopyHi,
         SecondVersion
    <3>4. Located(r)'
      BY <1>3, <3>2, <3>3, Zenon DEF Located
    <3>5. roff[r] \in Offsets /\ mem[roff[r]].ver \in Nat
      <4>1. roff[r] \in Offsets /\ mem \in [Offsets -> Records]
        BY <3>2, Zenon DEF Located, TypeInv, TypeOK
      <4> QED
        BY <4>1, Zenon DEF Records
    <3>6. Copied(r)'
      <4>1. CASE ReadBoundary(r)
        <5>1. \/ rpc'[r] = "baseLo" /\ roff[r] < baseBoundary
              \/ rpc'[r] = "ver1"
          BY <4>1, Zenon DEF ReadBoundary, ReadBase, RGoto, ReadTypeOK
        <5> QED
          BY <1>3, <3>3, <5>1, Zenon DEF Copied
      <4>2. CASE FirstVersion(r)
        <5>1. rpc'[r] = "lo" /\ rver'[r] = mem[roff[r]].ver /\ mem[roff[r]].ver % 2 = 0
          BY <4>2, Zenon DEF FirstVersion, RGoto, ReadTypeOK
        <5>2. mem[roff[r]].ver <= mem[roff[r]].ver
          BY <3>5
        <5> QED
          BY <1>3, <3>3, <3>5, <5>1, <5>2, Zenon DEF Copied
      <4>3. CASE CopyLo(r)
        <5>1. /\ rpc[r] \in {"lo", "baseLo"} /\ rlo'[r] = mem[roff[r]].lo
              /\ rpc'[r] = IF rpc[r] = "lo" THEN "hi" ELSE "baseHi"
              /\ rver' = rver
          BY <4>3, Zenon DEF CopyLo, RGoto, ReadTypeOK
        <5> QED
          BY <1>3, <3>2, <3>3, <5>1, Zenon DEF Copied
      <4>4. CASE CopyHi(r) /\ rpc[r] = "hi"
        <5>1. /\ rhi'[r] = mem[roff[r]].hi /\ rpc'[r] = "ver2"
              /\ rver' = rver /\ rlo' = rlo
          BY <4>4, Zenon DEF CopyHi, RGoto, ReadTypeOK
        <5> QED
          BY <1>3, <3>2, <3>3, <4>4, <5>1, Zenon DEF Copied
      <4>5. CASE CopyHi(r) /\ rpc[r] # "hi"
        <5>1. /\ rpc[r] = "baseHi" /\ rhi'[r] = mem[roff[r]].hi /\ rpc'[r] = "done"
              /\ rlo' = rlo
          BY <4>5, Zenon DEF CopyHi, RGoto, ReadTypeOK
        <5>2. roff[r] < baseBoundary /\ rlo[r] = mem[roff[r]].lo
          BY <3>2, <5>1, Zenon DEF Copied
        <5>3. mem[roff[r]].ver % 2 = 0 /\ mem[roff[r]].lo = mem[roff[r]].hi
          BY <3>5, <5>2, BaseWhole, Zenon
        <5>4. rlo[r] \in valid[r]
          BY <3>2, <5>2, <5>3, Zenon DEF Located
        <5> QED
          BY <3>3, <5>1, <5>2, <5>3, <5>4, Zenon DEF Copied
      <4>6. CASE SecondVersion(r)
        <5>1. /\ rpc[r] = "ver2" /\ rlo' = rlo /\ rhi' = rhi /\ rver' = rver
              /\ rpc'[r] = IF mem[roff[r]].ver = rver[r] THEN "done" ELSE "ver1"
          BY <4>6, Zenon DEF SecondVersion, RGoto, ReadTypeOK
        <5>2. CASE mem[roff[r]].ver = rver[r]
          <6>1. /\ rlo[r] = mem[roff[r]].lo /\ rhi[r] = mem[roff[r]].hi
                /\ mem[roff[r]].ver % 2 = 0
            BY <3>2, <5>1, <5>2, Zenon DEF Copied
          <6>2. mem[roff[r]].lo = mem[roff[r]].hi
            <7>1. \A t \in Writers : pc[t] = "hi" => off[t] # roff[r]
              BY <6>1, ZenonT(40) DEF VersionInv, Rewriting
            <7> QED
              BY <3>5, <7>1, Zenon DEF ContentInv, UntornInv
          <6>3. rlo[r] \in valid[r]
            BY <3>2, <6>1, Zenon DEF Located
          <6> QED
            BY <3>3, <5>1, <5>2, <6>1, <6>2, <6>3, Zenon DEF Copied
        <5>3. CASE mem[roff[r]].ver # rver[r]
          BY <5>1, <5>3, Zenon DEF Copied
        <5> QED
          BY <5>2, <5>3, Zenon
      <4> QED
        BY <2>2, <3>1, <4>1, <4>2, <4>3, <4>4, <4>5, <4>6, Zenon DEF ReaderStep
    <3> QED
      BY <3>4, <3>6, Zenon
  <2> QED
    BY <2>1, <2>2, Zenon
<1>6. ReadInv'
  BY <1>4, <1>5, Zenon DEF ReadInv
<1> QED
  BY <1>2, <1>6, Zenon

LEMMA ReadStep ==
  ASSUME MaxVersion < VersionMod, TypeInv, CaptureInv, SyncInv, ContentInv, VersionInv,
         TypeInv', CaptureInv', ReadTypeOK, ReadInv, [NextRead]_<<vars, readVars>>
  PROVE  ReadTypeOK' /\ ReadInv'
<1>1. CASE StoreStep
  <2>1. rpc' = rpc
    BY <1>1, Zenon DEF StoreStep
  <2>2. ReadTypeOK'
    BY <1>1, Zenon DEF StoreStep, ReadTypeOK
  <2>3. ReadInv'
    BY <1>1, <2>1, StoreBeside, Zenon DEF ReadInv
  <2> QED
    BY <2>2, <2>3, Zenon
<1>2. CASE UNCHANGED <<vars, readVars>>
  <2>1. ReadTypeOK'
    BY <1>2, Zenon DEF ReadTypeOK, readVars
  <2>2. ReadInv'
    BY <1>2, Zenon DEF ReadInv, Located, Copied, vars, readVars
  <2> QED
    BY <2>1, <2>2, Zenon
<1> QED
  BY <1>1, <1>2, ReaderSelf, Zenon DEF NextRead

\* get_impl() returns a whole value the key had during the call, whether it
\* read below base_boundary without protection or under the seqlock, for any
\* number of readers, as long as no record's version wraps around.
THEOREM GetAtomicCorrect ==
  ASSUME MaxVersion < VersionMod PROVE SpecRead => []GetAtomic
<1> DEFINE Inv == /\ TypeInv /\ CaptureInv /\ SyncInv /\ ContentInv /\ VersionInv
                  /\ ReadTypeOK /\ ReadInv
<1>1. InitRead => Inv
  <2>1. InitRead => Init
    BY Zenon DEF InitRead
  <2>2. InitRead => ReadTypeOK /\ ReadInv
    BY Zenon DEF InitRead, ReadTypeOK, ReadInv
  <2> QED
    BY <2>1, <2>2, TypeInit, CaptureInit, SyncInit, ContentInit, VersionInit, Zenon
<1>2. Inv /\ [NextRead]_<<vars, readVars>> => Inv'
  <2> SUFFICES ASSUME Inv, [NextRead]_<<vars, readVars>> PROVE Inv'
    OBVIOUS
  <2>1. [Next]_vars
    BY Zenon DEF NextRead, StoreStep, ReaderStep, Lookup, ReadBoundary, FirstVersion, CopyLo,
       CopyHi, SecondVersion, Answer
  <2>2. TypeInv' /\ CaptureInv' /\ SyncInv' /\ ContentInv' /\ VersionInv'
    BY <2>1, TypeStep, CaptureStep, SyncStep, ContentStep, VersionStep, Zenon
  <2>3. ReadTypeOK' /\ ReadInv'
    BY <2>2, ReadStep, Zenon
  <2> QED
    BY <2>2, <2>3, Zenon
<1>3. Inv => GetAtomic
  BY Zenon DEF ReadInv, Copied, GetAtomic
<1> QED
  BY <1>1, <1>2, <1>3, PTL DEF SpecRead
=============================================================================
