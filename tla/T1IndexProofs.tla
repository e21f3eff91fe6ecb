--------------------------- MODULE T1IndexProofs ---------------------------
(***************************************************************************)
(* Reclamation and slots in T1Index: a region is deleted only when no      *)
(* thread can still hold a pointer into it, and an append region has one   *)
(* slot of a key, for any number of threads, keys and reorganizations.     *)
(***************************************************************************)
EXTENDS T1Index, FiniteSetTheorems, TLAPS

USE DEF regionVars, slotVars, histVars, threadVars, writerVars, readerVars, reorgVars

TypeInv ==
  /\ oldest \in Nat /\ epoch \in Nat \ {0}
  /\ \A t \in Threads : registered[t] \in Nat /\ entryEpoch[t] \in Nat
  /\ DOMAIN registered = Threads /\ DOMAIN entryEpoch = Threads
  /\ DOMAIN pc = Threads /\ DOMAIN ref = Threads /\ DOMAIN gen = Threads
  /\ DOMAIN sortedSeen = Readers /\ DOMAIN immSeen = Readers

\* Which generation each region pointer names at each step of reorganize().
NewSorted == {"unfreezeSorted", "unfreezeAppend", "bumpAgain", "drainAgain"}
PhaseInv ==
  /\ active = IF rpc \in {"idle", "swap"} THEN oldest ELSE oldest + 1
  /\ sorted = IF rpc \in NewSorted THEN oldest + 1 ELSE oldest
  /\ imm = IF rpc \in {"idle", "bumpAgain", "drainAgain"} THEN Null ELSE oldest
  /\ frozen = IF rpc \in {"collect", "merge", "load", "unfreezeSorted"} THEN oldest ELSE Null

\* with_epoch_guard(): a thread inside is registered under the epoch it read,
\* which may be an old one by then.
Outside == {"idle", "enter", "full"}
EpochInv ==
  \A t \in Threads :
    /\ entryEpoch[t] <= epoch /\ (pc[t] # "idle" => entryEpoch[t] # 0)
    /\ registered[t] = IF pc[t] \in Outside THEN 0 ELSE entryEpoch[t]

\* Every pointer thread t holds is into generation g or a later one.
Appending == {"reserve", "publish", "index"}
Above(t, g) ==
  /\ ref[t] # NoRef => g <= ref[t][2]
  /\ pc[t] \in Appending \cup {"scanImm", "walkSorted", "walkActive"} => g <= gen[t]
  /\ t \in Readers =>
       /\ pc[t] \in {"getActive", "getImm", "getSorted", "scanActive", "scanImm", "walkSorted"}
            => g <= sortedSeen[t]
       /\ immSeen[t] = Null \/ g <= immSeen[t]

\* A thread outside holds no pointer, nor does a put that found no slot.
Bare(t) ==
  /\ pc[t] \in Outside => ref[t] = NoRef /\ (t \in Readers => immSeen[t] = Null)
  /\ t \in Writers /\ pc[t] \in Appending \cup {"loadActive"} => ref[t] = NoRef

\* Once the second drain has passed a thread, or if it came after the epoch was
\* advanced, what it holds survives.
Passed(t) == rpc = "drainAgain" /\ (t \notin scan \/ registered[t] >= epoch)
HoldInv ==
  \A t \in Threads : Bare(t) /\ Above(t, oldest) /\ (Passed(t) => Above(t, oldest + 1))

ReclaimInv == TypeInv /\ PhaseInv /\ EpochInv /\ HoldInv

-----------------------------------------------------------------------------
(* What a step does to the thread that takes it, and what it leaves alone. *)

PutStep(w) == WriterStep(w) \/ \E k \in Keys, p \in Payloads : Put(w, k, p)
GetStep(r) == ReaderStep(r) \/ \E k \in Keys, o \in Operations : Read(r, k, o)
ReorgStep == FreezeAppend \/ ReorganizeStep

Frame(t) ==
  /\ DOMAIN registered' = Threads /\ DOMAIN entryEpoch' = Threads
  /\ DOMAIN pc' = Threads /\ DOMAIN ref' = Threads /\ DOMAIN gen' = Threads
  /\ DOMAIN sortedSeen' = Readers /\ DOMAIN immSeen' = Readers
  /\ \A u \in Threads : u # t =>
       /\ pc'[u] = pc[u] /\ ref'[u] = ref[u] /\ gen'[u] = gen[u]
       /\ registered'[u] = registered[u] /\ entryEpoch'[u] = entryEpoch[u]
  /\ \A r \in Readers : r # t => sortedSeen'[r] = sortedSeen[r] /\ immSeen'[r] = immSeen[r]
  /\ UNCHANGED <<regionVars, reorgVars>>

LEMMA WriterFrame ==
  ASSUME TypeInv, NEW w \in Writers, PutStep(w) PROVE Frame(w)
<1> USE DEF Frame, TypeInv, Goto
<1>1. CASE \E k \in Keys, p \in Payloads : Put(w, k, p)
  BY <1>1, Zenon DEF Put
<1>2. CASE Enter(w) \/ LoadActive(w) \/ CallAgain(w) \/ Publish(w) \/ Reserve(w)
  BY <1>2, Zenon DEF Enter, LoadActive, CallAgain, Publish, Reserve
<1>3. CASE Resolve(w)
  BY <1>3, Zenon DEF Resolve, ResolveActive, ResolveImm, ResolveFrozen, ResolveSorted,
     Resolved, ResolveUnchanged
<1>4. CASE BeginWrite(w) \/ TryStore(w) \/ StoreHash(w) \/ RetireSlot(w)
  BY <1>4, Zenon DEF BeginWrite, TryStore, StoreHash, RetireSlot, WriteSlot
<1>5. CASE EndWrite(w) \/ PublishIndex(w) \/ Retry(w)
  BY <1>5, Zenon DEF EndWrite, PublishIndex, ReturnPut, Retry
<1> QED
  BY <1>1, <1>2, <1>3, <1>4, <1>5, Zenon DEF PutStep, WriterStep

LEMMA ReaderFrame ==
  ASSUME TypeInv, NEW r \in Readers, GetStep(r) PROVE Frame(r)
<1> USE DEF Frame, TypeInv, Goto
<1>1. CASE \E k \in Keys, o \in Operations : Read(r, k, o)
  BY <1>1, Zenon DEF Read
<1>2. CASE Enter(r) \/ LoadSorted(r) \/ ScanActive(r) \/ ScanImm(r)
  BY <1>2, Zenon DEF Enter, LoadSorted, ScanActive, ScanImm
<1>3. CASE GetActive(r) \/ GetImm(r) \/ GetSorted(r)
  BY <1>3, Zenon DEF GetActive, GetImm, GetSorted, Lookup
<1>4. CASE GetHash(r) \/ GetPayload(r)
  BY <1>4, Zenon DEF GetHash, GetPayload
<1>5. CASE WalkSorted(r) \/ WalkActive(r) \/ WalkImm(r)
  BY <1>5, Zenon DEF WalkSorted, WalkActive, WalkImm, Walk
<1>6. CASE ReturnRead(r)
  BY <1>6, Zenon DEF ReturnRead
<1> QED
  BY <1>1, <1>2, <1>3, <1>4, <1>5, <1>6, Zenon DEF GetStep, ReaderStep

LEMMA ReorgFrame ==
  ASSUME ReorgStep
  PROVE  UNCHANGED <<pc, registered, entryEpoch, ref, gen, sortedSeen, immSeen>>
BY Zenon DEF ReorgStep, ReorganizeStep, FreezeAppend, SwapActive, AdvanceEpoch, DrainSlot,
   FreezeSorted, Collect, SkipDead, MergeEntry, PublishSorted, UnfreezeSorted, UnfreezeAppend,
   DeleteOld, ReorgUnchanged

\* How a step of thread t is seen by its epoch guard.
Guarded(t) ==
  \/ /\ pc[t] \in Outside /\ pc'[t] = "enter" /\ entryEpoch'[t] = epoch
     /\ registered'[t] = registered[t] /\ ref'[t] = ref[t]
     /\ t \in Readers => immSeen'[t] = immSeen[t]
  \/ /\ pc[t] = "enter" /\ pc'[t] \in {"active", "loadSorted"} /\ entryEpoch'[t] = entryEpoch[t]
     /\ registered'[t] = entryEpoch[t] /\ ref'[t] = ref[t]
     /\ t \in Readers => immSeen'[t] = immSeen[t]
  \/ /\ pc'[t] = "idle" /\ entryEpoch'[t] = 0 /\ registered'[t] = 0 /\ ref'[t] = NoRef
     /\ t \in Readers => immSeen'[t] = Null
  \/ /\ t \in Writers /\ pc[t] = "reserve" /\ pc'[t] = "full" /\ entryEpoch'[t] = entryEpoch[t]
     /\ registered'[t] = 0 /\ ref'[t] = ref[t]
  \/ /\ pc[t] \notin Outside /\ pc'[t] \notin Outside
     /\ entryEpoch'[t] = entryEpoch[t] /\ registered'[t] = registered[t]

LEMMA WriterGuarded ==
  ASSUME TypeInv, NEW w \in Writers, PutStep(w) PROVE Guarded(w)
<1>0. w \in Threads /\ w \notin Readers
  BY ThreadAssumption, Zenon DEF Threads
<1> USE <1>0 DEF TypeInv, Guarded, Goto, Outside
<1>1. CASE \E k \in Keys, p \in Payloads : Put(w, k, p)
  BY <1>1, Zenon DEF Put
<1>2. CASE Enter(w) \/ LoadActive(w) \/ CallAgain(w) \/ Publish(w)
  BY <1>2, Zenon DEF Enter, LoadActive, CallAgain, Publish
<1>3. CASE Reserve(w)
  BY <1>3, Zenon DEF Reserve
<1>4. CASE Resolve(w)
  BY <1>4, Zenon DEF Resolve, ResolveActive, ResolveImm, ResolveFrozen, ResolveSorted,
     Resolved, ResolveUnchanged
<1>5. CASE BeginWrite(w) \/ TryStore(w) \/ StoreHash(w) \/ RetireSlot(w)
  BY <1>5, Zenon DEF BeginWrite, TryStore, StoreHash, RetireSlot, WriteSlot
<1>6. CASE EndWrite(w) \/ PublishIndex(w) \/ Retry(w)
  BY <1>6, Zenon DEF EndWrite, PublishIndex, ReturnPut, Retry
<1> QED
  BY <1>1, <1>2, <1>3, <1>4, <1>5, <1>6, Zenon DEF PutStep, WriterStep

LEMMA ReaderGuarded ==
  ASSUME TypeInv, NEW r \in Readers, GetStep(r) PROVE Guarded(r)
<1>0. r \in Threads /\ r \notin Writers
  BY ThreadAssumption, Zenon DEF Threads
<1> USE <1>0 DEF TypeInv, Guarded, Goto, Outside
<1>1. CASE \E k \in Keys, o \in Operations : Read(r, k, o)
  BY <1>1, Zenon DEF Read
<1>2. CASE Enter(r) \/ LoadSorted(r) \/ ScanActive(r) \/ ScanImm(r)
  BY <1>2, Zenon DEF Enter, LoadSorted, ScanActive, ScanImm
<1>3. CASE GetActive(r) \/ GetImm(r) \/ GetSorted(r)
  BY <1>3, Zenon DEF GetActive, GetImm, GetSorted, Lookup
<1>4. CASE GetHash(r) \/ GetPayload(r)
  BY <1>4, Zenon DEF GetHash, GetPayload
<1>5. CASE WalkSorted(r) \/ WalkActive(r) \/ WalkImm(r)
  BY <1>5, Zenon DEF WalkSorted, WalkActive, WalkImm, Walk
<1>6. CASE ReturnRead(r)
  BY <1>6, Zenon DEF ReturnRead
<1> QED
  BY <1>1, <1>2, <1>3, <1>4, <1>5, <1>6, Zenon DEF GetStep, ReaderStep

\* A step is one thread's or reorganize()'s.
LEMMA ThreadStep ==
  ASSUME TypeInv, Next
  PROVE  \/ \E t \in Threads : /\ Guarded(t) /\ Frame(t)
                               /\ \/ t \in Writers /\ PutStep(t)
                                  \/ t \in Readers /\ GetStep(t)
         \/ ReorgStep
<1>1. (\E w \in Writers : PutStep(w)) \/ (\E r \in Readers : GetStep(r)) \/ ReorgStep
  BY Zenon DEF Next, PutStep, GetStep, ReorgStep
<1> QED
  BY <1>1, WriterFrame, ReaderFrame, WriterGuarded, ReaderGuarded, Zenon DEF Threads

-----------------------------------------------------------------------------
(* Types, phases and epochs.                                               *)

LEMMA ReclaimInit == Init => ReclaimInv
<1> SUFFICES ASSUME Init PROVE ReclaimInv
  OBVIOUS
<1>1. TypeInv
  BY DEF Init, TypeInv, Threads
<1>2. PhaseInv
  BY DEF Init, PhaseInv, NewSorted
<1>3. EpochInv
  BY DEF Init, EpochInv, Outside, Threads
<1>4. HoldInv
  BY DEF Init, HoldInv, Bare, Above, Passed, Outside, Appending, Threads, NoRef
<1> QED
  BY <1>1, <1>2, <1>3, <1>4, Zenon DEF ReclaimInv

LEMMA TypeStep ==
  ASSUME TypeInv, Next PROVE TypeInv'
<1>1. ASSUME NEW t \in Threads, Guarded(t), Frame(t) PROVE TypeInv'
  <2>1. registered'[t] \in Nat /\ entryEpoch'[t] \in Nat
    BY <1>1 DEF TypeInv, Guarded
  <2>2. UNCHANGED <<oldest, epoch>>
    BY <1>1, Zenon DEF Frame
  <2> QED
    BY <1>1, <2>1, <2>2, Zenon DEF TypeInv, Frame
<1>2. ASSUME ReorgStep PROVE TypeInv'
  <2>1. oldest' \in Nat /\ epoch' \in Nat \ {0}
    <3>1. (oldest' = oldest \/ oldest' = oldest + 1) /\ (epoch' = epoch \/ epoch' = epoch + 1)
      BY <1>2, Zenon DEF ReorgStep, ReorganizeStep, FreezeAppend, SwapActive, AdvanceEpoch, DrainSlot,
         FreezeSorted, Collect, SkipDead, MergeEntry, PublishSorted, UnfreezeSorted, UnfreezeAppend,
         DeleteOld
    <3> QED
      BY <3>1 DEF TypeInv
  <2> QED
    BY <1>2, <2>1, ReorgFrame, Zenon DEF TypeInv
<1> QED
  BY <1>1, <1>2, ThreadStep, Zenon

LEMMA PhaseStep ==
  ASSUME TypeInv, PhaseInv, Next PROVE PhaseInv'
<1> USE DEF PhaseInv
<1>1. ASSUME NEW t \in Threads, Frame(t) PROVE PhaseInv'
  BY <1>1, Zenon DEF Frame
<1>2. ASSUME ReorgStep PROVE PhaseInv'
  <2> USE DEF NewSorted
  <2>0. oldest \in Nat
    BY Zenon DEF TypeInv
  <2>1. CASE FreezeAppend
    BY <2>0, <2>1 DEF FreezeAppend
  <2>2. CASE SwapActive
    BY <2>0, <2>2 DEF SwapActive
  <2>3. CASE AdvanceEpoch
    BY <2>0, <2>3 DEF AdvanceEpoch
  <2>4. CASE FreezeSorted \/ UnfreezeSorted \/ UnfreezeAppend
    BY <2>0, <2>4 DEF FreezeSorted, UnfreezeSorted, UnfreezeAppend
  <2>5. CASE Collect \/ (\E t \in Threads : DrainSlot(t)) \/ SkipDead \/ MergeEntry
    BY <2>5, Zenon DEF Collect, DrainSlot, SkipDead, MergeEntry
  <2>6. CASE PublishSorted
    <3>1. rpc = "merge" /\ rpc' = "unfreezeSorted" /\ sorted' = sorted + 1
          /\ UNCHANGED <<oldest, active, imm, frozen>>
      BY <2>6, Zenon DEF PublishSorted
    <3> QED
      BY <2>0, <3>1
  <2>7. CASE DeleteOld
    <3>1. rpc = "drainAgain" /\ rpc' = "idle" /\ oldest' = oldest + 1 /\ UNCHANGED regionVars
      BY <2>7, Zenon DEF DeleteOld
    <3> QED
      BY <2>0, <3>1
  <2> QED
    BY <1>2, <2>1, <2>2, <2>3, <2>4, <2>5, <2>6, <2>7, Zenon DEF ReorgStep, ReorganizeStep
<1> QED
  BY <1>1, <1>2, ThreadStep, Zenon

LEMMA EpochStep ==
  ASSUME TypeInv, EpochInv, Next PROVE EpochInv'
<1>0. epoch \in Nat \ {0} /\ \A t \in Threads : entryEpoch[t] \in Nat
  BY Zenon DEF TypeInv
<1>1. ASSUME NEW t \in Threads, Guarded(t), Frame(t) PROVE EpochInv'
  <2>1. entryEpoch'[t] <= epoch /\ (pc'[t] # "idle" => entryEpoch'[t] # 0)
        /\ registered'[t] = IF pc'[t] \in Outside THEN 0 ELSE entryEpoch'[t]
    BY <1>0, <1>1 DEF Guarded, EpochInv, Outside
  <2>2. epoch' = epoch
    BY <1>1, Zenon DEF Frame
  <2> QED
    BY <1>1, <2>1, <2>2, Zenon DEF EpochInv, Frame
<1>2. ASSUME ReorgStep PROVE EpochInv'
  <2>1. epoch' = epoch \/ epoch' = epoch + 1
    BY <1>2, Zenon DEF ReorgStep, ReorganizeStep, FreezeAppend, SwapActive, AdvanceEpoch, DrainSlot,
       FreezeSorted, Collect, SkipDead, MergeEntry, PublishSorted, UnfreezeSorted, UnfreezeAppend,
       DeleteOld
  <2>2. \A t \in Threads : entryEpoch[t] <= epoch'
    BY <1>0, <2>1 DEF EpochInv
  <2> QED
    BY <1>2, <2>2, ReorgFrame, Zenon DEF EpochInv
<1> QED
  BY <1>1, <1>2, ThreadStep, Zenon

-----------------------------------------------------------------------------
(* What threads hold.                                                      *)

\* find_with_index() and find_sorted() answer with a slot of the region.
LEMMA FindFacts ==
  /\ \A g, k : FindAppend(g, k) # NoRef => FindAppend(g, k)[2] = g
  /\ \A g, k : FindSorted(g, k) # NoRef => FindSorted(g, k)[2] = g
<1>1. \A g, k : AppendRef(g, k)[2] = g /\ SortedRef(g, k)[2] = g
  BY SMT DEF AppendRef, SortedRef
<1> QED
  BY <1>1, Zenon DEF FindAppend, FindSorted

\* The regions a thread may take a pointer to.
LEMMA PhaseFacts ==
  ASSUME TypeInv, PhaseInv
  PROVE  /\ oldest <= active /\ oldest <= sorted
         /\ imm = Null \/ oldest <= imm
         /\ frozen = Null \/ oldest <= frozen
         /\ rpc = "drainAgain" => oldest + 1 <= active /\ oldest + 1 <= sorted /\ imm = Null
BY DEF PhaseInv, TypeInv, NewSorted

\* resolve(), as the thread sees it.
LEMMA ResolveStep ==
  ASSUME TypeInv, NEW w \in Writers, Resolve(w)
  PROVE  /\ gen' = gen
         /\ pc'[w] \notin Outside \cup Appending \cup {"scanImm", "walkSorted", "walkActive"}
         /\ \/ ref'[w] \in {ref[w], NoRef}
            \/ ref'[w] = FindAppend(active, key[w]) \/ ref'[w] = FindSorted(sorted, key[w])
         /\ pc'[w] = "loadActive" => ref'[w] = NoRef
<1>0. w \in Threads
  BY Zenon DEF Threads
<1> USE <1>0 DEF TypeInv, Resolved, ResolveUnchanged, Goto, Outside, Appending
<1>1. CASE ResolveActive(w)
  BY <1>1, Zenon DEF ResolveActive
<1>2. CASE ResolveImm(w)
  BY <1>2, Zenon DEF ResolveImm
<1>3. CASE ResolveFrozen(w)
  BY <1>3, Zenon DEF ResolveFrozen
<1>4. CASE ResolveSorted(w)
  BY <1>4, Zenon DEF ResolveSorted
<1> QED
  BY <1>1, <1>2, <1>3, <1>4, Zenon DEF Resolve

\* A thread only takes pointers to the regions that are in place.
LEMMA WriterAbove ==
  ASSUME TypeInv, NEW w \in Writers, PutStep(w), NEW g, Above(w, g), g <= active, g <= sorted
  PROVE  Above(w, g)'
<1>0. w \in Threads /\ w \notin Readers
  BY ThreadAssumption, Zenon DEF Threads
<1>a. (ref[w] # NoRef => g <= ref[w][2]) /\ (pc[w] \in Appending => g <= gen[w])
  BY Zenon DEF Above
<1> SUFFICES (ref'[w] # NoRef => g <= ref'[w][2])
             /\ (pc'[w] \in Appending \cup {"scanImm", "walkSorted", "walkActive"} => g <= gen'[w])
  BY <1>0, Zenon DEF Above
<1> USE <1>0, <1>a DEF TypeInv, Goto, Appending
<1>1. CASE \E k \in Keys, p \in Payloads : Put(w, k, p)
  BY <1>1, Zenon DEF Put
<1>2. CASE Enter(w) \/ LoadActive(w) \/ CallAgain(w) \/ Publish(w) \/ Reserve(w)
  BY <1>2, Zenon DEF Enter, LoadActive, CallAgain, Publish, Reserve
<1>3. CASE Resolve(w)
  <2>1. pc'[w] \notin {"reserve", "publish", "index", "scanImm", "walkSorted", "walkActive"}
    BY <1>3, ResolveStep, Zenon
  <2>2. \/ ref'[w] \in {ref[w], NoRef}
        \/ ref'[w] = FindAppend(active, key[w]) \/ ref'[w] = FindSorted(sorted, key[w])
    BY <1>3, ResolveStep, Zenon
  <2> QED
    BY <2>1, <2>2, FindFacts, SMT
<1>4. CASE BeginWrite(w) \/ TryStore(w) \/ StoreHash(w) \/ RetireSlot(w)
  BY <1>4, Zenon DEF BeginWrite, TryStore, StoreHash, RetireSlot, WriteSlot
<1>5. CASE EndWrite(w) \/ PublishIndex(w) \/ Retry(w)
  BY <1>5, Zenon DEF EndWrite, PublishIndex, ReturnPut, Retry
<1> QED
  BY <1>1, <1>2, <1>3, <1>4, <1>5, Zenon DEF PutStep, WriterStep

LEMMA ReaderAbove ==
  ASSUME TypeInv, NEW r \in Readers, GetStep(r), NEW g, Above(r, g), g <= active, g <= sorted,
         imm = Null \/ g <= imm
  PROVE  Above(r, g)'
<1>0. r \in Threads
  BY Zenon DEF Threads
<1> USE <1>0 DEF TypeInv, Goto, Above, Appending
<1>1. CASE \E k \in Keys, o \in Operations : Read(r, k, o)
  BY <1>1, Zenon DEF Read
<1>2. CASE Enter(r) \/ LoadSorted(r)
  BY <1>2, Zenon DEF Enter, LoadSorted
<1>3. CASE GetActive(r)
  BY <1>3, FindFacts, Zenon DEF GetActive, Lookup
<1>4. CASE GetImm(r)
  BY <1>4, FindFacts, Zenon DEF GetImm, Lookup
<1>5. CASE GetSorted(r)
  BY <1>5, FindFacts, Zenon DEF GetSorted, Lookup
<1>6. CASE GetHash(r) \/ GetPayload(r)
  BY <1>6, Zenon DEF GetHash, GetPayload
<1>7. CASE ScanActive(r) \/ ScanImm(r)
  BY <1>7, Zenon DEF ScanActive, ScanImm
<1>8. CASE WalkSorted(r) \/ WalkActive(r) \/ WalkImm(r)
  BY <1>8, Zenon DEF WalkSorted, WalkActive, WalkImm, Walk
<1>9. CASE ReturnRead(r)
  BY <1>9, Zenon DEF ReturnRead
<1> QED
  BY <1>1, <1>2, <1>3, <1>4, <1>5, <1>6, <1>7, <1>8, <1>9, Zenon DEF GetStep, ReaderStep

\* A put appends only after it has dropped, or never found, a slot.
LEMMA WriterBare ==
  ASSUME TypeInv, NEW w \in Writers, PutStep(w), Bare(w)
  PROVE  pc'[w] \in Appending \cup {"loadActive"} => ref'[w] = NoRef
<1>0. w \in Threads
  BY Zenon DEF Threads
<1> USE <1>0 DEF TypeInv, Bare, Goto, Appending
<1>1. CASE \E k \in Keys, p \in Payloads : Put(w, k, p)
  BY <1>1, Zenon DEF Put
<1>2. CASE Enter(w) \/ LoadActive(w) \/ CallAgain(w) \/ Publish(w) \/ Reserve(w)
  BY <1>2, Zenon DEF Enter, LoadActive, CallAgain, Publish, Reserve
<1>3. CASE Resolve(w)
  BY <1>3, ResolveStep, Zenon
<1>4. CASE BeginWrite(w) \/ TryStore(w) \/ StoreHash(w) \/ RetireSlot(w)
  BY <1>4, Zenon DEF BeginWrite, TryStore, StoreHash, RetireSlot, WriteSlot
<1>5. CASE EndWrite(w) \/ PublishIndex(w) \/ Retry(w)
  BY <1>5, Zenon DEF EndWrite, PublishIndex, ReturnPut, Retry
<1> QED
  BY <1>1, <1>2, <1>3, <1>4, <1>5, Zenon DEF PutStep, WriterStep

\* A thread's own step.  The one that matters is Enter: a thread the drain has
\* not passed may register only now, but then it holds nothing yet.
LEMMA HoldThread ==
  ASSUME TypeInv, PhaseInv, EpochInv, HoldInv, NEW t \in Threads, Guarded(t), Frame(t),
         (t \in Writers /\ PutStep(t)) \/ (t \in Readers /\ GetStep(t))
  PROVE  HoldInv'
<1>0. epoch \in Nat \ {0} /\ entryEpoch[t] \in Nat /\ UNCHANGED <<rpc, scan, epoch, oldest>>
  BY Zenon DEF TypeInv, Frame
<1>1. ASSUME NEW g, g <= active, g <= sorted, imm = Null \/ g <= imm, Above(t, g)
      PROVE  Above(t, g)'
  BY <1>1, WriterAbove, ReaderAbove, Zenon
<1>2. Above(t, oldest)'
  <2>1. Above(t, oldest)
    BY Zenon DEF HoldInv
  <2> QED
    BY <1>0, <1>1, <2>1, PhaseFacts, Zenon DEF Above
<1>3. ASSUME Passed(t)' PROVE Above(t, oldest + 1)'
  <2>1. CASE Passed(t)
    <3>1. Above(t, oldest + 1) /\ rpc = "drainAgain"
      BY <2>1, Zenon DEF HoldInv, Passed
    <3> QED
      BY <1>0, <1>1, <3>1, PhaseFacts, Zenon DEF Above
  <2>2. CASE ~Passed(t)
    <3>1. pc[t] = "enter" /\ pc'[t] \in {"active", "loadSorted"} /\ ref'[t] = ref[t]
          /\ (t \in Readers => immSeen'[t] = immSeen[t])
      BY <1>0, <1>3, <2>2 DEF Passed, Guarded, EpochInv, Outside
    <3>2. ref[t] = NoRef /\ (t \in Readers => immSeen[t] = Null)
      BY <3>1, Zenon DEF HoldInv, Bare, Outside
    <3> QED
      BY <3>1, <3>2, Zenon DEF Above, Appending
  <2> QED
    BY <2>1, <2>2, Zenon
<1>4. Bare(t)'
  <2>1. Bare(t)
    BY Zenon DEF HoldInv
  <2>2. pc'[t] \in Outside => ref'[t] = NoRef /\ (t \in Readers => immSeen'[t] = Null)
    <3>1. pc[t] = "reserve" /\ t \in Writers => ref[t] = NoRef /\ t \notin Readers
      BY <2>1, ThreadAssumption, Zenon DEF Bare, Appending
    <3> QED
      BY <2>1, <3>1, Zenon DEF Guarded, Outside, Bare
  <2>3. t \in Writers => PutStep(t)
    BY ThreadAssumption, Zenon
  <2>4. t \in Writers /\ pc'[t] \in Appending \cup {"loadActive"} => ref'[t] = NoRef
    BY <2>1, <2>3, WriterBare, Zenon
  <2> QED
    BY <2>2, <2>4, Zenon DEF Bare
<1>5. ASSUME NEW u \in Threads, u # t
      PROVE  (Bare(u) /\ Above(u, oldest) /\ (Passed(u) => Above(u, oldest + 1)))'
  <2>1. (Above(u, oldest) => Above(u, oldest)') /\ (Above(u, oldest + 1) => Above(u, oldest + 1)')
    BY <1>0, <1>5, Zenon DEF Frame, Above
  <2>2. (Bare(u) => Bare(u)') /\ (Passed(u)' => Passed(u))
    BY <1>0, <1>5, Zenon DEF Frame, Bare, Passed
  <2> QED
    BY <2>1, <2>2, Zenon DEF HoldInv
<1> QED
  BY <1>2, <1>3, <1>4, <1>5, Zenon DEF HoldInv

\* A step of reorganize(): the drain passes a thread that is outside or came
\* late, and only when it has passed all of them is the generation deleted.
LEMMA HoldReorg ==
  ASSUME TypeInv, EpochInv, HoldInv, ReorgStep PROVE HoldInv'
<1>0. UNCHANGED <<pc, ref, gen, registered, sortedSeen, immSeen>>
  BY ReorgFrame, Zenon
<1>1. \A t \in Threads : Bare(t)'
  BY <1>0, Zenon DEF HoldInv, Bare
<1>2. CASE DeleteOld
  <2>1. rpc = "drainAgain" /\ scan = {} /\ oldest' = oldest + 1 /\ rpc' = "idle"
    BY <1>2, Zenon DEF DeleteOld
  <2>2. \A t \in Threads : Above(t, oldest + 1)
    BY <2>1, Zenon DEF HoldInv, Passed
  <2>3. \A t \in Threads : Above(t, oldest)' /\ ~Passed(t)'
    BY <1>0, <2>1, <2>2, Zenon DEF Above, Passed
  <2> QED
    BY <1>1, <2>3, Zenon DEF HoldInv
<1>3. ASSUME oldest' = oldest, \A t \in Threads : Passed(t)' => Above(t, oldest + 1)
      PROVE  HoldInv'
  <2>1. \A t \in Threads : Above(t, oldest)'
    BY <1>0, <1>3, Zenon DEF HoldInv, Above
  <2>2. ASSUME NEW t \in Threads, Above(t, oldest + 1) PROVE Above(t, oldest + 1)'
    BY <1>0, <1>3, <2>2, Zenon DEF Above
  <2> QED
    BY <1>1, <1>3, <2>1, <2>2, Zenon DEF HoldInv
<1>4. CASE AdvanceEpoch
  <2>1. oldest' = oldest /\ scan' = Threads /\ epoch' = epoch + 1
    BY <1>4, Zenon DEF AdvanceEpoch
  <2>2. \A t \in Threads : ~(registered[t] >= epoch + 1)
    BY DEF EpochInv, TypeInv
  <2> QED
    BY <1>0, <1>3, <2>1, <2>2, Zenon DEF Passed
<1>5. ASSUME NEW t \in Threads, DrainSlot(t) PROVE HoldInv'
  <2>1. UNCHANGED <<rpc, oldest, epoch>> /\ scan' = scan \ {t}
        /\ (registered[t] = 0 \/ registered[t] >= epoch) /\ rpc \in {"drain", "drainAgain"}
    BY <1>5, Zenon DEF DrainSlot
  <2>2. ASSUME registered[t] = 0 PROVE Above(t, oldest + 1)
    <3>1. pc[t] \in Outside
      BY <2>2, Zenon DEF EpochInv, Outside
    <3> QED
      BY <3>1, Zenon DEF HoldInv, Bare, Above, Outside, Appending
  <2>3. ASSUME registered[t] >= epoch, rpc = "drainAgain" PROVE Above(t, oldest + 1)
    BY <2>3, Zenon DEF HoldInv, Passed
  <2>4. ASSUME NEW u \in Threads, Passed(u)' PROVE Above(u, oldest + 1)
    <3>1. u = t \/ Passed(u)
      BY <1>0, <2>1, <2>4, Zenon DEF Passed
    <3> QED
      BY <2>1, <2>2, <2>3, <2>4, <3>1, Zenon DEF HoldInv, Passed
  <2> QED
    BY <1>3, <2>1, <2>4, Zenon
<1>6. CASE ~DeleteOld /\ ~AdvanceEpoch /\ ~\E t \in Threads : DrainSlot(t)
  <2>1. oldest' = oldest /\ rpc' # "drainAgain"
    BY <1>6, Zenon DEF ReorgStep, ReorganizeStep, FreezeAppend, SwapActive, FreezeSorted,
       Collect, SkipDead, MergeEntry, PublishSorted, UnfreezeSorted, UnfreezeAppend
  <2> QED
    BY <1>3, <2>1, Zenon DEF Passed
<1> QED
  BY <1>2, <1>4, <1>5, <1>6, Zenon

LEMMA ReclaimStep == ReclaimInv /\ [Next]_vars => ReclaimInv'
<1> SUFFICES ASSUME ReclaimInv, [Next]_vars PROVE ReclaimInv'
  OBVIOUS
<1> USE DEF ReclaimInv
<1>1. CASE Next
  <2>1. HoldInv'
    BY <1>1, ThreadStep, HoldThread, HoldReorg, Zenon
  <2> QED
    BY <1>1, <2>1, TypeStep, PhaseStep, EpochStep, Zenon
<1>2. CASE UNCHANGED vars
  BY <1>2, Zenon DEF vars, TypeInv, PhaseInv, EpochInv, HoldInv, Bare, Above, Passed
<1> QED
  BY <1>1, <1>2, Zenon

\* No thread holds a pointer into a region that reorganize() has deleted
\* (with_epoch_guard(), wait_until_epoch()): for any number of threads, keys and
\* reorganizations, and though a thread registers under an epoch that may be
\* outdated by then.
THEOREM NoUseAfterFreeCorrect == Spec => []NoUseAfterFree
<1>1. ReclaimInv => NoUseAfterFree
  <2> SUFFICES ASSUME ReclaimInv PROVE NoUseAfterFree
    OBVIOUS
  <2>1. \A t \in Threads : Above(t, oldest)
    BY Zenon DEF ReclaimInv, HoldInv
  <2>2. oldest <= sorted /\ oldest <= active /\ (imm = Null \/ oldest <= imm)
        /\ (frozen = Null \/ oldest <= frozen)
    BY PhaseFacts, Zenon DEF ReclaimInv
  <2> QED
    BY <2>1, <2>2, Zenon DEF NoUseAfterFree, Above, Appending, Threads
<1> QED
  BY ReclaimInit, ReclaimStep, <1>1, PTL DEF Spec

-----------------------------------------------------------------------------
(* One slot of a key in each append region.                                *)

Gens == 0 .. MaxGen

RegionInv ==
  /\ active \in Gens /\ (rpc = "swap" => active < MaxGen)
  /\ tail \in [Gens -> Nat] /\ index \in [Gens -> [Keys -> Nat]]
  /\ \A g \in Gens, k \in Keys : active < g => index[g][k] = 0
  /\ DOMAIN key = Threads /\ DOMAIN num = Writers /\ DOMAIN lock = Keys

\* A put in progress has the key's stripe.  When it has missed the key in the
\* active region it is not there, and will not be in the one it appends to.
Putting(w) ==
  /\ pc[w] # "idle" => key[w] \in Keys /\ lock[key[w]] = w
  /\ pc[w] \in {"imm", "frozen", "sorted", "loadActive"} => index[active][key[w]] = 0
  /\ pc[w] \in Appending =>
       gen[w] \in Gens /\ gen[w] <= active /\ index[gen[w]][key[w]] = 0
  /\ pc[w] \in {"publish", "index"} => num[w] \in Nat /\ 1 <= num[w] /\ num[w] <= tail[gen[w]]
  /\ pc[w] = "publish" => AppendRef(gen[w], num[w]) \notin DOMAIN slot

NumberInv ==
  \A w, u \in Writers :
    w # u /\ pc[w] \in {"publish", "index"} /\ pc[u] \in {"publish", "index"} /\ gen[w] = gen[u]
      => num[w] # num[u]

\* A slot of an append region is the one the hash index names, or its put is
\* about to enter it there.
Named(g, i, k) ==
  \/ i = index[g][k]
  \/ \E w \in Writers : pc[w] = "index" /\ gen[w] = g /\ num[w] = i /\ key[w] = k

SlotInv ==
  \A s \in DOMAIN slot : s[1] = "append" =>
    /\ "key" \in DOMAIN slot[s] /\ slot[s].key \in Keys
    /\ \E g \in Gens, i \in Nat :
         s = AppendRef(g, i) /\ 1 <= i /\ i <= tail[g] /\ Named(g, i, slot[s].key)

ShardInv == RegionInv /\ (\A w \in Writers : Putting(w)) /\ NumberInv /\ SlotInv

LEMMA RefFacts ==
  /\ \A g, i : AppendRef(g, i)[1] = "append" /\ AppendRef(g, i)[2] = g /\ SortedRef(g, i)[1] = "sorted"
  /\ \A g, i, h, j : AppendRef(g, i) = AppendRef(h, j) => g = h /\ i = j
BY SMT DEF AppendRef, SortedRef

\* Steps that add no slot to an append region and keep those there the key's.
SameSlots ==
  \A s \in DOMAIN slot' : s[1] = "append" =>
    s \in DOMAIN slot /\ ("key" \in DOMAIN slot[s] => "key" \in DOMAIN slot'[s])
    /\ ("key" \in DOMAIN slot[s] => slot'[s].key = slot[s].key)

AddsSlot(w) ==
  /\ UNCHANGED <<tail, index>>
  /\ DOMAIN slot' = DOMAIN slot \cup {AppendRef(gen[w], num[w])}
  /\ \A s \in DOMAIN slot : slot'[s] = slot[s]
  /\ AppendRef(gen[w], num[w]) \notin DOMAIN slot =>
       slot'[AppendRef(gen[w], num[w])] = Slot(key[w], HashOf[val[w]], val[w])

LEMMA WriteKeeps ==
  ASSUME NEW r, NEW f, NEW x, slot' = [slot EXCEPT ![r] = [slot[r] EXCEPT ![f] = x]], f # "key"
  PROVE  SameSlots
<1>1. DOMAIN slot' = DOMAIN slot /\ \A s \in DOMAIN slot : s # r => slot'[s] = slot[s]
  BY Zenon
<1>2. r \in DOMAIN slot => slot'[r] = [slot[r] EXCEPT ![f] = x]
  BY Zenon
<1>3. DOMAIN [slot[r] EXCEPT ![f] = x] = DOMAIN slot[r]
  BY Zenon
<1>4. "key" \in DOMAIN slot[r] => [slot[r] EXCEPT ![f] = x]["key"] = slot[r]["key"]
  BY Zenon
<1> QED
  BY <1>1, <1>2, <1>3, <1>4, Zenon DEF SameSlots

LEMMA PublishAdds ==
  ASSUME NEW w \in Writers, Publish(w) PROVE AddsSlot(w)
<1>1. /\ slot' = Extend(slot, [s \in {AppendRef(gen[w], num[w])} |->
                                  Slot(key[w], HashOf[val[w]], val[w])])
      /\ UNCHANGED <<tail, index>>
  BY Zenon DEF Publish
<1> QED
  BY <1>1, Zenon DEF AddsSlot, Extend

\* What the steps of a put do to the slots.
Quiet(w) == pc[w] \notin {"reserve", "publish", "index"} /\ SameSlots /\ UNCHANGED <<tail, index>>

LEMMA WriterEffect ==
  ASSUME NEW w \in Writers, PutStep(w)
  PROVE  \/ Quiet(w) \/ Publish(w) \/ PublishIndex(w) \/ Reserve(w)
<1>0. SameSlots \/ slot' # slot
  BY Zenon DEF SameSlots
<1>1. CASE (\E k \in Keys, p \in Payloads : Put(w, k, p)) \/ Enter(w) \/ LoadActive(w) \/ CallAgain(w)
  BY <1>0, <1>1, Zenon DEF Put, Enter, LoadActive, CallAgain, Quiet
<1>2. CASE Resolve(w)
  BY <1>0, <1>2, Zenon DEF Resolve, ResolveActive, ResolveImm, ResolveFrozen, ResolveSorted,
     ResolveUnchanged, Quiet
<1>3. CASE BeginWrite(w)
  BY <1>3, WriteKeeps, Zenon DEF BeginWrite, WriteSlot, Bump, Quiet
<1>4. CASE TryStore(w) \/ RetireSlot(w)
  BY <1>4, WriteKeeps, Zenon DEF TryStore, RetireSlot, WriteSlot, Quiet
<1>5. CASE StoreHash(w)
  BY <1>5, WriteKeeps, Zenon DEF StoreHash, WriteSlot, Quiet
<1>6. CASE EndWrite(w) \/ Retry(w)
  <2>1. slot' = [slot EXCEPT ![ref[w]] = [slot[ref[w]] EXCEPT !["version"] = slot[ref[w]]["version"] + 1]]
    BY <1>6, Zenon DEF EndWrite, Retry, Bump
  <2>2. SameSlots
    BY <2>1, WriteKeeps, Zenon
  <2> QED
    BY <1>6, <2>2, Zenon DEF EndWrite, Retry, Quiet
<1> QED
  BY <1>1, <1>2, <1>3, <1>4, <1>5, <1>6, Zenon DEF PutStep, WriterStep

\* What a put leaves to the others: their calls, and the stripes they hold.
Leaves(w) ==
  /\ DOMAIN key' = Threads /\ DOMAIN num' = Writers /\ DOMAIN lock' = Keys
  /\ \A u \in Writers : u # w => key'[u] = key[u] /\ num'[u] = num[u]
  /\ \A k \in Keys : lock[k] # w /\ lock[k] # Nil => lock'[k] = lock[k]

LEMMA WriterLeaves ==
  ASSUME RegionInv, NEW w \in Writers, Putting(w), PutStep(w) PROVE Leaves(w)
<1>0. \A u \in Writers : u \in Threads
  BY Zenon DEF Threads
<1> USE <1>0 DEF RegionInv, Leaves
<1>1. ASSUME NEW k \in Keys, NEW p \in Payloads, Put(w, k, p) PROVE Leaves(w)
  <2>1. lock[k] = Nil /\ lock' = [lock EXCEPT ![k] = w] /\ key' = [key EXCEPT ![w] = k] /\ num' = num
    BY <1>1, Zenon DEF Put
  <2> QED
    BY <2>1, Zenon
<1>2. CASE Enter(w) \/ LoadActive(w) \/ CallAgain(w) \/ Publish(w) \/ Reserve(w)
  BY <1>2, Zenon DEF Enter, LoadActive, CallAgain, Publish, Reserve
<1>3. CASE Resolve(w)
  BY <1>3, Zenon DEF Resolve, ResolveActive, ResolveImm, ResolveFrozen, ResolveSorted,
     ResolveUnchanged
<1>4. CASE BeginWrite(w) \/ TryStore(w) \/ StoreHash(w) \/ RetireSlot(w) \/ Retry(w)
  BY <1>4, Zenon DEF BeginWrite, TryStore, StoreHash, RetireSlot, WriteSlot, Retry
<1>5. CASE EndWrite(w) \/ PublishIndex(w)
  <2>1. pc[w] # "idle"
    BY <1>5, Zenon DEF EndWrite, PublishIndex
  <2>2. lock[key[w]] = w
    BY <2>1, Zenon DEF Putting
  <2>3. /\ lock' = [lock EXCEPT ![key[w]] = Nil] /\ key' = [key EXCEPT ![w] = Nil]
        /\ num' = [num EXCEPT ![w] = 0]
    BY <1>5, Zenon DEF EndWrite, PublishIndex, ReturnPut
  <2> QED
    BY <2>2, <2>3, Zenon
<1> QED
  BY <1>1, <1>2, <1>3, <1>4, <1>5, Zenon DEF PutStep, WriterStep

\* The steps on the way to a new slot.
LEMMA ResolveMisses ==
  ASSUME TypeInv, NEW w \in Writers, Putting(w), Resolve(w)
  PROVE  pc'[w] \in {"imm", "frozen", "sorted", "loadActive"} => index[active][key[w]] = 0
<1>0. w \in Threads
  BY Zenon DEF Threads
<1>1. FindAppend(active, key[w]) = NoRef => index[active][key[w]] = 0
  BY SMT DEF FindAppend, AppendRef, NoRef
<1>2. CASE ResolveActive(w)
  BY <1>0, <1>1, <1>2, Zenon DEF ResolveActive, Resolved, Goto, TypeInv
<1>3. CASE ResolveImm(w) \/ ResolveFrozen(w) \/ ResolveSorted(w)
  BY <1>3, Zenon DEF ResolveImm, ResolveFrozen, ResolveSorted, Putting
<1> QED
  BY <1>2, <1>3, Zenon DEF Resolve

LEMMA SlotOf ==
  ASSUME SlotInv, NEW g, NEW i, AppendRef(g, i) \in DOMAIN slot
  PROVE  /\ "key" \in DOMAIN slot[AppendRef(g, i)] /\ slot[AppendRef(g, i)].key \in Keys
         /\ g \in Gens /\ i \in Nat /\ 1 <= i /\ i <= tail[g]
         /\ Named(g, i, slot[AppendRef(g, i)].key)
<1> DEFINE s == AppendRef(g, i)
<1>1. s[1] = "append"
  BY RefFacts, Zenon
<1> HIDE DEF s
<1>2. /\ "key" \in DOMAIN slot[s] /\ slot[s].key \in Keys
      /\ \E h \in Gens, j \in Nat :
           s = AppendRef(h, j) /\ 1 <= j /\ j <= tail[h] /\ Named(h, j, slot[s].key)
  BY <1>1, Zenon DEF SlotInv, s
<1>3. PICK h \in Gens, j \in Nat :
        s = AppendRef(h, j) /\ 1 <= j /\ j <= tail[h] /\ Named(h, j, slot[s].key)
  BY <1>2, Zenon
<1>4. h = g /\ j = i
  BY <1>3, SMT DEF s, AppendRef
<1> QED
  BY <1>2, <1>3, <1>4, Zenon DEF s

LEMMA ReserveFacts ==
  ASSUME TypeInv, RegionInv, SlotInv, NEW w \in Writers, Putting(w), Reserve(w)
  PROVE  /\ UNCHANGED <<slot, index, gen, key, lock>>
         /\ \A g \in Gens : tail'[g] \in Nat /\ tail[g] <= tail'[g]
         /\ pc[w] = "reserve" /\ pc'[w] \in {"full", "publish"}
         /\ pc'[w] = "publish" =>
              /\ num'[w] = tail[gen[w]] + 1 /\ tail'[gen[w]] = tail[gen[w]] + 1
              /\ AppendRef(gen[w], num'[w]) \notin DOMAIN slot
<1>0. w \in Threads /\ pc[w] = "reserve"
  BY Zenon DEF Threads, Reserve
<1>1. gen[w] \in Gens /\ tail[gen[w]] \in Nat
  BY <1>0, Zenon DEF Putting, Appending, RegionInv
<1>2. UNCHANGED <<slot, index, gen, key, lock>> /\ pc'[w] \in {"full", "publish"}
  BY <1>0, Zenon DEF Reserve, Goto, TypeInv
<1>3. tail' = tail \/ tail' = [tail EXCEPT ![gen[w]] = tail[gen[w]] + 1]
  BY Zenon DEF Reserve
<1>4. \A g \in Gens : tail'[g] \in Nat /\ tail[g] <= tail'[g]
  BY <1>1, <1>3 DEF RegionInv
<1>5. ASSUME pc'[w] = "publish"
      PROVE  num'[w] = tail[gen[w]] + 1 /\ tail' = [tail EXCEPT ![gen[w]] = tail[gen[w]] + 1]
  BY <1>0, <1>5, Zenon DEF Reserve, Goto, TypeInv, RegionInv
<1>6. AppendRef(gen[w], tail[gen[w]] + 1) \notin DOMAIN slot
  <2>1. ~(tail[gen[w]] + 1 <= tail[gen[w]])
    BY <1>1
  <2> QED
    BY <2>1, SlotOf, Zenon
<1>7. tail' = [tail EXCEPT ![gen[w]] = tail[gen[w]] + 1] => tail'[gen[w]] = tail[gen[w]] + 1
  BY <1>1 DEF RegionInv
<1> QED
  BY <1>0, <1>2, <1>4, <1>5, <1>6, <1>7, Zenon

LEMMA OwnPutting ==
  ASSUME TypeInv, RegionInv, SlotInv, NEW w \in Writers, Putting(w), PutStep(w) PROVE Putting(w)'
<1>0. w \in Threads /\ active' = active
  BY WriterFrame, Zenon DEF Threads, Frame
<1>1. ASSUME NEW k \in Keys, NEW p \in Payloads, Put(w, k, p) PROVE Putting(w)'
  <2>0. lock' = [lock EXCEPT ![k] = w] /\ key' = [key EXCEPT ![w] = k] /\ Goto(w, "enter")
    BY <1>1, Zenon DEF Put
  <2>1. pc'[w] = "enter" /\ key'[w] = k /\ lock'[k] = w
    BY <1>0, <2>0, Zenon DEF Goto, TypeInv, RegionInv
  <2> QED
    BY <2>1, Zenon DEF Putting, Appending
<1>2. CASE Enter(w) \/ CallAgain(w)
  <2>1. pc[w] # "idle" /\ pc'[w] \in {"active", "enter"} /\ UNCHANGED <<key, lock>>
    BY <1>0, <1>2, Zenon DEF Enter, CallAgain, Goto, TypeInv
  <2> QED
    BY <2>1, Zenon DEF Putting, Appending
<1>3. CASE Resolve(w)
  <2>1. pc[w] # "idle" /\ UNCHANGED <<key, lock, index>>
    BY <1>3, Zenon DEF Resolve, ResolveActive, ResolveImm, ResolveFrozen, ResolveSorted,
       ResolveUnchanged
  <2>2. pc'[w] \notin Appending
    BY <1>3, ResolveStep, Zenon
  <2> QED
    BY <1>0, <1>3, <2>1, <2>2, ResolveMisses, Zenon DEF Putting, Appending
<1>4. CASE BeginWrite(w) \/ TryStore(w) \/ StoreHash(w) \/ RetireSlot(w) \/ Retry(w)
  <2>1. pc[w] # "idle" /\ pc'[w] \in {"tryStore", "active", "endWrite", "retry"}
        /\ UNCHANGED <<key, lock>>
    BY <1>0, <1>4, Zenon DEF BeginWrite, TryStore, StoreHash, RetireSlot, WriteSlot, Retry, Goto, TypeInv
  <2> QED
    BY <2>1, Zenon DEF Putting, Appending
<1>5. CASE EndWrite(w) \/ PublishIndex(w)
  <2>1. pc'[w] = "idle"
    BY <1>0, <1>5, Zenon DEF EndWrite, PublishIndex, ReturnPut, Goto, TypeInv
  <2> QED
    BY <2>1, Zenon DEF Putting, Appending
<1>6. CASE LoadActive(w)
  <2>1. pc[w] = "loadActive" /\ pc'[w] = "reserve" /\ gen'[w] = active /\ UNCHANGED <<key, lock, index>>
    BY <1>0, <1>6, Zenon DEF LoadActive, Goto, TypeInv
  <2>2. active \in Gens /\ active <= active
    BY CapAssumption DEF RegionInv, Gens
  <2> QED
    BY <1>0, <2>1, <2>2, Zenon DEF Putting, Appending
<1>7. CASE Reserve(w)
  <2>1. tail[gen[w]] \in Nat
    BY <1>7, Zenon DEF Reserve, Putting, Appending, RegionInv
  <2>2. pc'[w] = "publish" => num'[w] \in Nat /\ 1 <= num'[w] /\ num'[w] <= tail'[gen[w]]
    BY <1>7, <2>1, ReserveFacts
  <2> QED
    BY <1>0, <1>7, <2>2, ReserveFacts, Zenon DEF Putting, Appending
<1>8. CASE Publish(w)
  <2>1. pc[w] = "publish" /\ pc'[w] = "index" /\ UNCHANGED <<key, lock, index, gen, num, tail>>
    BY <1>0, <1>8, Zenon DEF Publish, Goto, TypeInv
  <2> QED
    BY <1>0, <2>1, Zenon DEF Putting, Appending
<1> QED
  BY <1>1, <1>2, <1>3, <1>4, <1>5, <1>6, <1>7, <1>8, Zenon DEF PutStep, WriterStep

\* A put meets no other put of its key.
LEMMA OtherPut ==
  ASSUME TypeInv, RegionInv, \A v \in Writers : Putting(v),
         NEW w \in Writers, PutStep(w), NEW u \in Writers, u # w, pc[u] # "idle"
  PROVE  /\ pc'[u] = pc[u] /\ gen'[u] = gen[u] /\ key'[u] = key[u] /\ num'[u] = num[u]
         /\ key[u] \in Keys /\ lock'[key[u]] = u /\ (pc[w] # "idle" => key[w] # key[u])
<1>1. Frame(w) /\ Leaves(w) /\ u \in Threads
  BY WriterFrame, WriterLeaves, Zenon DEF Threads
<1>2. key[u] \in Keys /\ lock[key[u]] = u /\ (pc[w] # "idle" => lock[key[w]] = w)
  BY Zenon DEF Putting
<1>3. u # Nil
  BY ThreadAssumption, Zenon
<1> QED
  BY <1>1, <1>2, <1>3, Zenon DEF Frame, Leaves

LEMMA IndexedFacts ==
  ASSUME RegionInv, NEW w \in Writers, Putting(w), PublishIndex(w)
  PROVE  /\ pc[w] = "index" /\ gen[w] \in Gens /\ gen[w] <= active /\ key[w] \in Keys
         /\ index[gen[w]][key[w]] = 0 /\ num[w] \in Nat /\ UNCHANGED <<slot, tail>>
         /\ index' \in [Gens -> [Keys -> Nat]] /\ index'[gen[w]][key[w]] = num[w]
         /\ \A g \in Gens, k \in Keys : g # gen[w] \/ k # key[w] => index'[g][k] = index[g][k]
<1>1. pc[w] = "index" /\ UNCHANGED <<slot, tail>> /\ index' = [index EXCEPT ![gen[w]][key[w]] = num[w]]
  BY Zenon DEF PublishIndex
<1>2. gen[w] \in Gens /\ gen[w] <= active /\ key[w] \in Keys /\ index[gen[w]][key[w]] = 0 /\ num[w] \in Nat
  BY <1>1, Zenon DEF Putting, Appending
<1>3. index \in [Gens -> [Keys -> Nat]]
  BY Zenon DEF RegionInv
<1> QED
  BY <1>1, <1>2, <1>3

\* The puts of other keys are not disturbed.
LEMMA OthersPutting ==
  ASSUME TypeInv, RegionInv, SlotInv, NumberInv, \A v \in Writers : Putting(v),
         NEW w \in Writers, PutStep(w), NEW u \in Writers, u # w
  PROVE  Putting(u)'
<1>1. CASE pc[u] = "idle"
  <2>1. pc'[u] = "idle"
    BY <1>1, WriterFrame, Zenon DEF Frame, Threads
  <2> QED
    BY <2>1, Zenon DEF Putting, Appending
<1>2. CASE pc[u] # "idle"
  <2>1. /\ pc'[u] = pc[u] /\ gen'[u] = gen[u] /\ key'[u] = key[u] /\ num'[u] = num[u]
        /\ key[u] \in Keys /\ lock'[key[u]] = u /\ (pc[w] # "idle" => key[w] # key[u])
    BY <1>2, OtherPut, SMT
  <2>2. active' = active /\ active \in Gens /\ Putting(u) /\ Putting(w)
    BY WriterFrame, Zenon DEF Frame, RegionInv
  <2>3. CASE Quiet(w)
    <3>1. UNCHANGED <<tail, index>>
      BY <2>3, Zenon DEF Quiet
    <3>2. AppendRef(gen[u], num[u]) \notin DOMAIN slot => AppendRef(gen[u], num[u]) \notin DOMAIN slot'
      <4>1. AppendRef(gen[u], num[u])[1] = "append"
        BY SMT DEF AppendRef
      <4> QED
        BY <2>3, <4>1, Zenon DEF Quiet, SameSlots
    <3> QED
      BY <2>1, <2>2, <3>1, <3>2, Zenon DEF Putting
  <2>4. CASE Publish(w)
    <3>1. UNCHANGED <<tail, index>> /\ DOMAIN slot' = DOMAIN slot \cup {AppendRef(gen[w], num[w])}
          /\ pc[w] = "publish"
      BY <2>4, PublishAdds, Zenon DEF AddsSlot, Publish
    <3>2. pc[u] = "publish" => gen[u] # gen[w] \/ num[u] # num[w]
      BY <3>1, Zenon DEF NumberInv
    <3>3. pc[u] = "publish" => AppendRef(gen[u], num[u]) # AppendRef(gen[w], num[w])
      BY <3>2, SMT DEF AppendRef
    <3> QED
      BY <2>1, <2>2, <3>1, <3>3, Zenon DEF Putting
  <2>5. CASE PublishIndex(w)
    <3>1. /\ UNCHANGED <<slot, tail>> /\ pc[w] # "idle"
          /\ \A g \in Gens, k \in Keys : k # key[w] => index'[g][k] = index[g][k]
      BY <2>2, <2>5, IndexedFacts
    <3>2. /\ index'[active][key[u]] = index[active][key[u]]
          /\ gen[u] \in Gens => index'[gen[u]][key[u]] = index[gen[u]][key[u]]
      BY <2>1, <2>2, <3>1, Zenon
    <3>3. UNCHANGED <<slot, tail>>
      BY <3>1, Zenon
    <3> QED
      BY <2>1, <2>2, <3>2, <3>3, Zenon DEF Putting
  <2>6. CASE Reserve(w)
    <3>1. UNCHANGED <<slot, index>> /\ \A g \in Gens : tail'[g] \in Nat /\ tail[g] <= tail'[g]
      BY <2>2, <2>6, ReserveFacts, Zenon
    <3>2. pc[u] \in {"publish", "index"} =>
            num[u] \in Nat /\ num[u] <= tail[gen[u]] /\ gen[u] \in Gens /\ tail[gen[u]] \in Nat
      BY <2>2, Zenon DEF Putting, Appending, RegionInv
    <3>3. pc[u] \in {"publish", "index"} => num[u] <= tail'[gen[u]]
      BY <3>1, <3>2
    <3> QED
      BY <2>1, <2>2, <3>1, <3>3, Zenon DEF Putting
  <2> QED
    BY <2>3, <2>4, <2>5, <2>6, WriterEffect, Zenon
<1> QED
  BY <1>1, <1>2, Zenon

\* fetch_add() gives no slot number out twice.
LEMMA NumberStep ==
  ASSUME TypeInv, RegionInv, SlotInv, NumberInv, \A v \in Writers : Putting(v),
         NEW w \in Writers, PutStep(w)
  PROVE  NumberInv'
<1> DEFINE Numbered == {"publish", "index"}
<1>0. w \in Threads
  BY Zenon DEF Threads
<1>1. pc'[w] \in Numbered =>
        /\ gen'[w] = gen[w]
        /\ \/ pc[w] \in Numbered /\ num'[w] = num[w]
           \/ pc[w] = "reserve" /\ num'[w] = tail[gen[w]] + 1
  <2>1. CASE \E k \in Keys, p \in Payloads : Put(w, k, p)
    BY <1>0, <2>1, Zenon DEF Put, Goto, TypeInv
  <2>2. CASE Enter(w) \/ LoadActive(w) \/ CallAgain(w) \/ Publish(w)
    BY <1>0, <2>2, Zenon DEF Enter, LoadActive, CallAgain, Publish, Goto, TypeInv
  <2>3. CASE Resolve(w)
    BY <2>3, ResolveStep, Zenon DEF Appending
  <2>4. CASE BeginWrite(w) \/ TryStore(w) \/ StoreHash(w) \/ RetireSlot(w)
    BY <1>0, <2>4, Zenon DEF BeginWrite, TryStore, StoreHash, RetireSlot, WriteSlot, Goto, TypeInv
  <2>5. CASE EndWrite(w) \/ PublishIndex(w) \/ Retry(w)
    BY <1>0, <2>5, Zenon DEF EndWrite, PublishIndex, ReturnPut, Retry, Goto, TypeInv
  <2>6. CASE Reserve(w)
    BY <2>6, ReserveFacts, Zenon
  <2> QED
    BY <2>1, <2>2, <2>3, <2>4, <2>5, <2>6, Zenon DEF PutStep, WriterStep
<1>2. ASSUME NEW u \in Writers, u # w, pc'[u] \in Numbered
      PROVE  pc'[u] = pc[u] /\ gen'[u] = gen[u] /\ num'[u] = num[u]
  <2>1. pc'[u] = pc[u]
    BY <1>2, WriterFrame, Zenon DEF Frame, Threads
  <2>2. pc[u] # "idle"
    BY <1>2, <2>1, Zenon
  <2>3. gen'[u] = gen[u] /\ num'[u] = num[u]
    BY <1>2, <2>2, OtherPut, SMT
  <2> QED
    BY <2>1, <2>3, Zenon
<1>3. ASSUME NEW u \in Writers, u # w, pc'[u] \in Numbered, pc'[w] \in Numbered, gen'[u] = gen'[w]
      PROVE  num'[u] # num'[w]
  <2>1. pc'[u] = pc[u] /\ gen'[u] = gen[u] /\ num'[u] = num[u]
    BY <1>2, <1>3, Zenon
  <2>2. num[u] \in Nat /\ num[u] <= tail[gen[u]] /\ tail[gen[u]] \in Nat
    BY <1>3, <2>1, Zenon DEF Putting, Appending, RegionInv
  <2>3. num[u] # tail[gen[u]] + 1
    BY <2>2
  <2> QED
    BY <1>1, <1>3, <2>1, <2>3, Zenon DEF NumberInv
<1>4. ASSUME NEW u \in Writers, NEW t \in Writers, u # w, t # w, u # t, gen'[u] = gen'[t],
             pc'[u] \in Numbered, pc'[t] \in Numbered
      PROVE  num'[u] # num'[t]
  <2>1. pc'[u] = pc[u] /\ gen'[u] = gen[u] /\ num'[u] = num[u]
    BY <1>2, <1>4, Zenon
  <2>2. pc'[t] = pc[t] /\ gen'[t] = gen[t] /\ num'[t] = num[t]
    BY <1>2, <1>4, Zenon
  <2> QED
    BY <1>4, <2>1, <2>2, Zenon DEF NumberInv
<1> QED
  BY <1>3, <1>4, Zenon DEF NumberInv

\* A put takes no other put's slot out of the index or from before it.
LEMMA NamedKeeps ==
  ASSUME TypeInv, RegionInv, \A v \in Writers : Putting(v), NEW w \in Writers, PutStep(w),
         NEW g, NEW i, NEW k, Named(g, i, k), pc[w] # "index", index' = index
  PROVE  Named(g, i, k)'
<1>1. CASE i = index[g][k]
  BY <1>1, Zenon DEF Named
<1>2. ASSUME NEW u \in Writers, pc[u] = "index", gen[u] = g, num[u] = i, key[u] = k
      PROVE  Named(g, i, k)'
  <2>1. pc'[u] = pc[u] /\ gen'[u] = gen[u] /\ key'[u] = key[u] /\ num'[u] = num[u]
    BY <1>2, OtherPut, SMT
  <2> QED
    BY <1>2, <2>1, Zenon DEF Named
<1> QED
  BY <1>1, <1>2, Zenon DEF Named

LEMMA SlotStep ==
  ASSUME TypeInv, RegionInv, SlotInv, NumberInv, \A v \in Writers : Putting(v),
         NEW w \in Writers, PutStep(w)
  PROVE  SlotInv'
<1> SUFFICES ASSUME NEW s \in DOMAIN slot', s[1] = "append"
             PROVE  /\ "key" \in DOMAIN slot'[s] /\ slot'[s].key \in Keys
                    /\ \E g \in Gens, i \in Nat : /\ s = AppendRef(g, i) /\ 1 <= i /\ i <= tail'[g]
                                                  /\ Named(g, i, slot[s].key)'
  BY Zenon DEF SlotInv
<1>0. Putting(w)
  BY Zenon
<1>1. ASSUME s \in DOMAIN slot
      PROVE  /\ "key" \in DOMAIN slot[s] /\ slot[s].key \in Keys
             /\ \E g \in Gens, i \in Nat :
                  s = AppendRef(g, i) /\ 1 <= i /\ i <= tail[g] /\ Named(g, i, slot[s].key)
  BY <1>1, Zenon DEF SlotInv
<1>2. ASSUME NEW g, NEW i, NEW k, Named(g, i, k), k = slot[s].key, slot'[s].key = slot[s].key,
             pc[w] # "index", index' = index
      PROVE  Named(g, i, slot[s].key)'
  <2>1. Named(g, i, k)'
    BY <1>2, NamedKeeps, Zenon
  <2> QED
    BY <1>2, <2>1, Zenon DEF Named
<1>3. CASE Quiet(w)
  <2>1. s \in DOMAIN slot /\ UNCHANGED <<tail, index>> /\ pc[w] # "index"
    BY <1>3, Zenon DEF Quiet, SameSlots
  <2>2. "key" \in DOMAIN slot'[s] /\ slot'[s].key = slot[s].key
    BY <1>1, <1>3, <2>1, Zenon DEF Quiet, SameSlots
  <2> QED
    BY <1>1, <1>2, <2>1, <2>2, Zenon
<1>4. CASE Publish(w)
  <2> DEFINE g == gen[w]
             i == num[w]
  <2>1. AddsSlot(w) /\ pc[w] = "publish" /\ UNCHANGED <<gen, num, key, tail, index>>
    BY <1>4, PublishAdds, Zenon DEF Publish, AddsSlot
  <2>2. pc'[w] = "index"
    BY <1>4, Zenon DEF Publish, Goto, TypeInv, Threads
  <2>3. /\ g \in Gens /\ i \in Nat /\ 1 <= i /\ i <= tail[g] /\ key[w] \in Keys
        /\ AppendRef(g, i) \notin DOMAIN slot
    BY <1>0, <2>1, Zenon DEF Putting, Appending
  <2>4. CASE s \in DOMAIN slot
    <3>1. slot'[s] = slot[s]
      BY <2>1, <2>4, Zenon DEF AddsSlot
    <3> QED
      BY <1>1, <1>2, <2>1, <2>4, <3>1, Zenon
  <2>5. CASE s = AppendRef(g, i)
    <3>1. slot'[s] = Slot(key[w], HashOf[val[w]], val[w])
      BY <2>1, <2>3, <2>5, Zenon DEF AddsSlot
    <3>2. "key" \in DOMAIN slot'[s] /\ slot'[s].key = key[w]
      BY <3>1 DEF Slot
    <3>3. gen'[w] = g /\ num'[w] = i /\ key'[w] = key[w] /\ tail'[g] = tail[g]
      BY <2>1, Zenon
    <3> HIDE DEF g, i
    <3>4. PICK h, j : h = g /\ j = i
      BY Zenon
    <3>5. Named(h, j, slot[s].key)'
      BY <2>2, <3>2, <3>3, <3>4, Zenon DEF Named
    <3>6. h \in Gens /\ j \in Nat /\ s = AppendRef(h, j) /\ 1 <= j /\ j <= tail'[h]
      BY <2>1, <2>3, <2>5, <3>4, Zenon
    <3> QED
      BY <2>3, <3>2, <3>5, <3>6, Zenon
  <2> QED
    BY <2>1, <2>4, <2>5, Zenon DEF AddsSlot
<1>5. CASE PublishIndex(w)
  <2>1. /\ pc[w] = "index" /\ index[gen[w]][key[w]] = 0 /\ slot' = slot /\ tail' = tail
        /\ index'[gen[w]][key[w]] = num[w]
        /\ \A g \in Gens, k \in Keys : g # gen[w] \/ k # key[w] => index'[g][k] = index[g][k]
    BY <1>0, <1>5, IndexedFacts
  <2>2. PICK g \in Gens, i \in Nat :
          s = AppendRef(g, i) /\ 1 <= i /\ i <= tail[g] /\ Named(g, i, slot[s].key)
    BY <1>1, <2>1, Zenon
  <2>3. PICK k \in Keys : k = slot[s].key
    BY <1>1, <2>1, Zenon
  <2>4. ASSUME i = index[g][k] PROVE Named(g, i, k)'
    <3>1. i # 0
      BY <2>2
    <3>2. g # gen[w] \/ k # key[w]
      BY <2>1, <2>4, <3>1, Zenon
    <3>3. i = index'[g][k]
      BY <2>1, <2>4, <3>2, Zenon
    <3> QED
      BY <3>3, Zenon DEF Named
  <2>5. ASSUME NEW u \in Writers, pc[u] = "index", gen[u] = g, num[u] = i, key[u] = k
        PROVE  Named(g, i, k)'
    <3>1. CASE u = w
      BY <2>1, <2>5, <3>1, Zenon DEF Named
    <3>2. CASE u # w
      <4>1. pc'[u] = pc[u] /\ gen'[u] = gen[u] /\ key'[u] = key[u] /\ num'[u] = num[u]
        <5>1. pc[u] # "idle"
          BY <2>5, Zenon
        <5> QED
          BY <3>2, <5>1, OtherPut, SMT
      <4> QED
        BY <2>5, <4>1, Zenon DEF Named
    <3> QED
      BY <3>1, <3>2, Zenon
  <2>6. Named(g, i, k)'
    <3>1. Named(g, i, k)
      BY <2>2, <2>3, Zenon
    <3> QED
      BY <3>1, <2>4, <2>5, Zenon DEF Named
  <2>7. Named(g, i, slot[s].key)'
    BY <2>1, <2>3, <2>6, Zenon DEF Named
  <2> QED
    BY <1>1, <2>1, <2>2, <2>7, Zenon
<1>6. CASE Reserve(w)
  <2>1. /\ slot' = slot /\ index' = index /\ pc[w] # "index"
        /\ \A g \in Gens : tail'[g] \in Nat /\ tail[g] <= tail'[g]
    BY <1>0, <1>6, ReserveFacts
  <2>2. PICK g \in Gens, i \in Nat :
          s = AppendRef(g, i) /\ 1 <= i /\ i <= tail[g] /\ Named(g, i, slot[s].key)
    BY <1>1, <2>1, Zenon
  <2>3. i <= tail'[g]
    <3>1. tail[g] \in Nat /\ tail'[g] \in Nat /\ tail[g] <= tail'[g]
      BY <2>1, Zenon DEF RegionInv
    <3> QED
      BY <2>2, <3>1
  <2>4. Named(g, i, slot[s].key)'
    BY <1>2, <2>1, <2>2, Zenon
  <2> QED
    BY <1>1, <2>1, <2>2, <2>3, <2>4, Zenon
<1> QED
  BY <1>3, <1>4, <1>5, <1>6, WriterEffect, Zenon

\* Region pointers and index entries.
LEMMA RegionStep ==
  ASSUME TypeInv, RegionInv, SlotInv, NEW w \in Writers, Putting(w), PutStep(w)
  PROVE  RegionInv'
<1>1. UNCHANGED <<active, rpc>> /\ DOMAIN key' = Threads /\ DOMAIN num' = Writers /\ DOMAIN lock' = Keys
  BY WriterFrame, WriterLeaves, Zenon DEF Frame, Leaves
<1>2. CASE Quiet(w) \/ Publish(w)
  BY <1>1, <1>2, PublishAdds, Zenon DEF Quiet, AddsSlot, RegionInv
<1>3. CASE PublishIndex(w)
  <2>1. /\ gen[w] \in Gens /\ gen[w] <= active /\ tail' = tail
        /\ index' \in [Gens -> [Keys -> Nat]]
        /\ \A g \in Gens, k \in Keys : g # gen[w] \/ k # key[w] => index'[g][k] = index[g][k]
    BY <1>3, IndexedFacts
  <2>2. \A g \in Gens : active < g => g # gen[w]
    BY <2>1, CapAssumption DEF RegionInv, Gens
  <2> QED
    BY <1>1, <2>1, <2>2, Zenon DEF RegionInv
<1>4. CASE Reserve(w)
  <2>1. index' = index /\ \A g \in Gens : tail'[g] \in Nat
    BY <1>4, ReserveFacts
  <2>2. tail' = tail \/ tail' = [tail EXCEPT ![gen[w]] = tail[gen[w]] + 1]
    BY <1>4, Zenon DEF Reserve
  <2>3. tail' \in [Gens -> Nat]
    BY <2>1, <2>2, Zenon DEF RegionInv
  <2> QED
    BY <1>1, <2>1, <2>3, Zenon DEF RegionInv
<1> QED
  BY <1>2, <1>3, <1>4, WriterEffect, Zenon

\* The steps of a get, of a scan and of reorganize() add no slot to an append
\* region and leave puts and stripes alone.
Aside ==
  /\ UNCHANGED <<tail, index, lock, num>> /\ SameSlots /\ DOMAIN key' = Threads
  /\ \A w \in Writers : pc'[w] = pc[w] /\ gen'[w] = gen[w] /\ key'[w] = key[w]
  /\ active' \in Gens /\ active <= active' /\ (rpc' = "swap" => active' < MaxGen)

LEMMA ReaderAside ==
  ASSUME TypeInv, RegionInv, NEW r \in Readers, GetStep(r) PROVE Aside
<1>0. \A w \in Writers : w # r /\ w \in Threads
  BY ThreadAssumption, Zenon DEF Threads
<1>1. UNCHANGED slotVars /\ UNCHANGED <<lock, num, active, rpc>> /\ \A w \in Writers : pc'[w] = pc[w] /\ gen'[w] = gen[w]
  <2>1. Frame(r)
    BY ReaderFrame, Zenon
  <2>2. UNCHANGED slotVars /\ UNCHANGED <<lock, num>>
    BY Zenon DEF GetStep, Read, ReaderStep, Enter, LoadSorted, ScanActive, ScanImm, GetActive,
       GetImm, GetSorted, Lookup, GetHash, GetPayload, WalkSorted, WalkActive, WalkImm, Walk, ReturnRead
  <2> QED
    BY <1>0, <2>1, <2>2, Zenon DEF Frame
<1>2. DOMAIN key' = Threads /\ \A w \in Writers : key'[w] = key[w]
  <2> USE <1>0 DEF RegionInv
  <2>1. ASSUME NEW k \in Keys, NEW o \in Operations, Read(r, k, o)
        PROVE  DOMAIN key' = Threads /\ \A w \in Writers : key'[w] = key[w]
    BY <2>1, Zenon DEF Read
  <2>2. CASE ReturnRead(r)
    BY <2>2, Zenon DEF ReturnRead
  <2>3. CASE ReaderStep(r) /\ ~ReturnRead(r)
    BY <2>3, Zenon DEF ReaderStep, Enter, LoadSorted, ScanActive, ScanImm, GetActive,
       GetImm, GetSorted, Lookup, GetHash, GetPayload, WalkSorted, WalkActive, WalkImm, Walk
  <2> QED
    BY <2>1, <2>2, <2>3, Zenon DEF GetStep
<1>3. active' \in Gens /\ active <= active' /\ (rpc' = "swap" => active' < MaxGen)
  <2>1. active \in Gens /\ (rpc = "swap" => active < MaxGen) /\ active' = active /\ rpc' = rpc
    BY <1>1, Zenon DEF RegionInv
  <2> QED
    BY <2>1, CapAssumption, SMT DEF Gens
<1> QED
  BY <1>1, <1>2, <1>3, Zenon DEF Aside, SameSlots

LEMMA ReorgAside ==
  ASSUME RegionInv, ReorgStep PROVE Aside
<1>1. UNCHANGED <<pc, gen, key, tail, index, lock, num>>
  BY Zenon DEF ReorgStep, ReorganizeStep, FreezeAppend, SwapActive, AdvanceEpoch, DrainSlot,
     FreezeSorted, Collect, SkipDead, MergeEntry, PublishSorted, UnfreezeSorted, UnfreezeAppend,
     DeleteOld, ReorgUnchanged
<1>2. SameSlots
  <2>1. CASE PublishSorted
    <3>1. /\ \A s \in DOMAIN slot : slot'[s] = slot[s]
          /\ \A s \in DOMAIN slot' : s \notin DOMAIN slot => \E k : s = SortedRef(sorted + 1, k)
      BY <2>1, Zenon DEF PublishSorted, Extend
    <3>2. \A g, k : SortedRef(g, k)[1] # "append"
      BY SMT DEF SortedRef
    <3>3. \A s \in DOMAIN slot' : s[1] = "append" => s \in DOMAIN slot
      <4> SUFFICES ASSUME NEW s \in DOMAIN slot', s \notin DOMAIN slot PROVE s[1] # "append"
        BY Zenon
      <4>1. PICK k : s = SortedRef(sorted + 1, k)
        BY <3>1, Zenon
      <4>2. SortedRef(sorted + 1, k)[1] # "append"
        BY <3>2, Zenon
      <4> QED
        BY <4>1, <4>2, Zenon
    <3> QED
      BY <3>1, <3>3, Zenon DEF SameSlots
  <2>2. CASE DeleteOld
    BY <2>2, Zenon DEF DeleteOld, SameSlots
  <2>3. CASE ~PublishSorted /\ ~DeleteOld
    <3>1. slot' = slot
      BY <2>3, Zenon DEF ReorgStep, ReorganizeStep, FreezeAppend, SwapActive, AdvanceEpoch, DrainSlot,
         FreezeSorted, Collect, SkipDead, MergeEntry, UnfreezeSorted, UnfreezeAppend
    <3> QED
      BY <3>1, Zenon DEF SameSlots
  <2> QED
    BY <2>1, <2>2, <2>3, Zenon
<1>3. \/ active' = active /\ (rpc' = "swap" => active < MaxGen)
      \/ active' = active + 1 /\ active < MaxGen /\ rpc' # "swap"
  <2>1. CASE FreezeAppend \/ SwapActive
    BY <2>1, Zenon DEF FreezeAppend, SwapActive, RegionInv
  <2>2. CASE SkipDead
    BY <2>2, Zenon DEF SkipDead
  <2>3. CASE (\E t \in Threads : DrainSlot(t)) \/ AdvanceEpoch
    BY <2>3, Zenon DEF DrainSlot, AdvanceEpoch
  <2>4. CASE FreezeSorted \/ Collect \/ MergeEntry \/ PublishSorted \/ UnfreezeSorted
             \/ UnfreezeAppend \/ DeleteOld
    BY <2>4, Zenon DEF FreezeSorted, Collect, MergeEntry, PublishSorted, UnfreezeSorted,
       UnfreezeAppend, DeleteOld
  <2> QED
    BY <2>1, <2>2, <2>3, <2>4, Zenon DEF ReorgStep, ReorganizeStep
<1>4. active' \in Gens /\ active <= active' /\ (rpc' = "swap" => active' < MaxGen)
  <2>1. active \in Gens
    BY Zenon DEF RegionInv
  <2> QED
    BY <1>3, <2>1, CapAssumption, SMT DEF Gens
<1> QED
  BY <1>1, <1>2, <1>4, Zenon DEF Aside, RegionInv

LEMMA AsideKeeps ==
  ASSUME ShardInv, Aside PROVE ShardInv'
<1> USE DEF ShardInv
<1>1. \A g \in Gens : active' < g => active < g
  BY CapAssumption DEF Aside, RegionInv, Gens
<1>2. RegionInv'
  BY <1>1, Zenon DEF Aside, RegionInv
<1>3. ASSUME NEW w \in Writers PROVE Putting(w)'
  <2>1. /\ pc'[w] = pc[w] /\ gen'[w] = gen[w] /\ key'[w] = key[w] /\ Putting(w)
        /\ UNCHANGED <<tail, index, lock, num>> /\ active' \in Gens
    BY Zenon DEF Aside
  <2>2. gen[w] \in Gens /\ gen[w] <= active => gen[w] <= active'
    BY CapAssumption DEF Aside, RegionInv, Gens
  <2>3. key[w] \in Keys /\ index[active][key[w]] = 0 => index[active'][key[w]] = 0
    <3>1. active' = active \/ active < active'
      BY CapAssumption DEF Aside, RegionInv, Gens
    <3> QED
      BY <2>1, <3>1, Zenon DEF RegionInv
  <2>4. AppendRef(gen[w], num[w]) \notin DOMAIN slot => AppendRef(gen[w], num[w]) \notin DOMAIN slot'
    <3>1. AppendRef(gen[w], num[w])[1] = "append"
      BY SMT DEF AppendRef
    <3> QED
      BY <3>1, Zenon DEF Aside, SameSlots
  <2>5. key'[w] \in Keys \/ pc'[w] = "idle"
    BY <2>1, Zenon DEF Putting
  <2> QED
    BY <2>1, <2>2, <2>3, <2>4, <2>5, Zenon DEF Putting, Appending
<1>4. NumberInv'
  <2>1. num' = num /\ \A w \in Writers : pc'[w] = pc[w] /\ gen'[w] = gen[w]
    BY Zenon DEF Aside
  <2>2. ASSUME NEW w \in Writers, NEW u \in Writers, w # u, pc'[w] \in {"publish", "index"},
               pc'[u] \in {"publish", "index"}, gen'[w] = gen'[u]
        PROVE  num'[w] # num'[u]
    <3>1. pc'[w] = pc[w] /\ gen'[w] = gen[w] /\ pc'[u] = pc[u] /\ gen'[u] = gen[u]
      BY <2>1, Zenon
    <3> QED
      BY <2>1, <2>2, <3>1, Zenon DEF NumberInv
  <2> QED
    BY <2>2, Zenon DEF NumberInv
<1>5. ASSUME NEW g, NEW i, NEW k, Named(g, i, k) PROVE Named(g, i, k)'
  BY <1>5, Zenon DEF Aside, Named
<1>6. ASSUME NEW s \in DOMAIN slot', s[1] = "append"
      PROVE  /\ "key" \in DOMAIN slot'[s] /\ slot'[s].key \in Keys
             /\ \E g \in Gens, i \in Nat : /\ s = AppendRef(g, i) /\ 1 <= i /\ i <= tail'[g]
                                           /\ Named(g, i, slot[s].key)'
  <2>1. /\ s \in DOMAIN slot /\ "key" \in DOMAIN slot[s] /\ slot[s].key \in Keys
        /\ \E g \in Gens, i \in Nat :
             s = AppendRef(g, i) /\ 1 <= i /\ i <= tail[g] /\ Named(g, i, slot[s].key)
    BY <1>6, Zenon DEF Aside, SameSlots, SlotInv
  <2>2. "key" \in DOMAIN slot'[s] /\ slot'[s].key = slot[s].key /\ tail' = tail
    BY <1>6, <2>1, Zenon DEF Aside, SameSlots
  <2>3. PICK k : k = slot[s].key
    BY Zenon
  <2>4. PICK g \in Gens, i \in Nat :
          s = AppendRef(g, i) /\ 1 <= i /\ i <= tail[g] /\ Named(g, i, k)
    BY <2>1, <2>3, Zenon
  <2>5. Named(g, i, k)'
    BY <1>5, <2>4, Zenon
  <2>6. Named(g, i, slot[s].key)'
    BY <2>2, <2>3, <2>5, Zenon DEF Named
  <2> QED
    BY <2>1, <2>2, <2>4, <2>6, Zenon
<1>7. SlotInv'
  BY <1>6, Zenon DEF SlotInv
<1> QED
  BY <1>2, <1>3, <1>4, <1>7, Zenon

LEMMA ShardInit == Init => ShardInv
<1> SUFFICES ASSUME Init PROVE ShardInv
  OBVIOUS
<1>1. DOMAIN slot = {}
  BY SMT DEF Init
<1>2. RegionInv
  <2>1. 0 \in Gens /\ 0 \in Nat
    BY CapAssumption DEF Gens
  <2> QED
    BY <2>1, Zenon DEF Init, RegionInv, Gens
<1>3. \A w \in Writers : pc[w] = "idle"
  BY Zenon DEF Init, Threads
<1> QED
  BY <1>1, <1>2, <1>3, Zenon DEF ShardInv, SlotInv, NumberInv, Putting, Appending

LEMMA ShardStep == TypeInv /\ ShardInv /\ [Next]_vars => ShardInv'
<1> SUFFICES ASSUME TypeInv, ShardInv, [Next]_vars PROVE ShardInv'
  OBVIOUS
<1>1. ASSUME NEW w \in Writers, PutStep(w) PROVE ShardInv'
  <2> USE <1>1 DEF ShardInv
  <2>1. RegionInv' /\ Putting(w)'
    BY RegionStep, OwnPutting, Zenon
  <2>2. \A u \in Writers : u # w => Putting(u)'
    BY OthersPutting, Zenon
  <2>3. NumberInv'
    BY NumberStep, Zenon
  <2>4. SlotInv'
    BY SlotStep, Zenon
  <2> QED
    BY <2>1, <2>2, <2>3, <2>4, Zenon
<1>2. ASSUME NEW r \in Readers, GetStep(r) PROVE ShardInv'
  BY <1>2, ReaderAside, AsideKeeps, Zenon DEF ShardInv
<1>3. CASE ReorgStep
  BY <1>3, ReorgAside, AsideKeeps, Zenon DEF ShardInv
<1>4. CASE UNCHANGED vars
  <2>1. UNCHANGED <<slot, tail, index, lock, num, key, pc, gen, active, rpc>>
    BY <1>4, Zenon DEF vars
  <2>2. active \in Gens /\ active <= active
    BY CapAssumption DEF ShardInv, RegionInv, Gens
  <2>3. Aside
    BY <2>1, <2>2, Zenon DEF ShardInv, RegionInv, Aside, SameSlots
  <2> QED
    BY <2>3, AsideKeeps, Zenon
<1> QED
  BY <1>1, <1>2, <1>3, <1>4, Zenon DEF Next, PutStep, GetStep, ReorgStep

\* An append region never holds two slots of a key, however often puts of it are
\* turned away from a frozen slot and resolve it again (put_with_stored_hash(),
\* AppendRegion::insert()): for any number of threads, keys and reorganizations.
THEOREM NoDuplicateSlotCorrect == Spec => []NoDuplicateSlot
<1>1. ASSUME ShardInv, NEW g, NEW k \in Keys, NEW s \in Published(g, k)
      PROVE  Published(g, k) \subseteq {s}
  <2> USE <1>1 DEF ShardInv
  <2>1. ASSUME NEW t \in Published(g, k)
        PROVE  g \in Gens /\ \E i \in Nat : t = AppendRef(g, i) /\ 1 <= i /\ Named(g, i, k)
    <3>1. t \in DOMAIN slot /\ t[1] = "append" /\ t[2] = g /\ slot[t].key = k
      BY <2>1, Zenon DEF Published
    <3>2. PICK h \in Gens, i \in Nat : t = AppendRef(h, i) /\ 1 <= i /\ Named(h, i, k)
      BY <3>1, Zenon DEF SlotInv
    <3>3. h = g
      BY <3>1, <3>2, SMT DEF AppendRef
    <3> QED
      BY <3>2, <3>3, Zenon
  <2>2. ASSUME NEW i \in Nat, NEW j \in Nat, 1 <= i, 1 <= j, Named(g, i, k), Named(g, j, k), g \in Gens
        PROVE  i = j
    <3>1. ASSUME NEW w \in Writers, pc[w] = "index", gen[w] = g, key[w] = k
          PROVE  index[g][k] = 0 /\ lock[k] = w
      BY <3>1, Zenon DEF Putting, Appending
    <3>2. i # 0 /\ j # 0
      BY <2>2
    <3> QED
      BY <2>2, <3>1, <3>2, Zenon DEF Named
  <2> QED
    BY <2>1, <2>2, Zenon
<1>2. ASSUME ShardInv PROVE NoDuplicateSlot
  <2> SUFFICES ASSUME NEW g, NEW k \in Keys PROVE Cardinality(Published(g, k)) <= 1
    BY Zenon DEF NoDuplicateSlot
  <2>1. CASE Published(g, k) = {}
    BY <2>1, FS_EmptySet
  <2>2. ASSUME NEW s \in Published(g, k) PROVE Cardinality(Published(g, k)) <= 1
    <3>1. Published(g, k) = {s}
      <4>1. Published(g, k) \subseteq {s}
        BY <1>1, <1>2, Zenon
      <4> QED
        BY <4>1, Zenon
    <3>2. Cardinality({s}) = 1
      BY FS_Singleton, Zenon
    <3>3. Cardinality(Published(g, k)) = 1
      BY <3>1, <3>2, Zenon
    <3> QED
      BY <3>3
  <2> QED
    BY <2>1, <2>2, Zenon
<1>3. ReclaimInv => TypeInv
  BY Zenon DEF ReclaimInv
<1> QED
  BY ReclaimInit, ReclaimStep, ShardInit, ShardStep, <1>2, <1>3, PTL DEF Spec

=============================================================================
