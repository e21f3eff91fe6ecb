------------------------- MODULE ReorgFlightProofs --------------------------
(***************************************************************************)
(* For any number of callers, any threshold and stride: one cycle runs at  *)
(* a time, and a call that returned was served.                            *)
(***************************************************************************)
EXTENDS ReorgFlight, TLAPS

\* Whoever is in a cycle holds the flag, and holds it alone.
FlagInv ==
  /\ \A t \in Threads : pc[t] \in InCycle => running
  /\ OneCycle

\* Only a checkpoint captures, commits and rotates.  With an empty active region no
\* merge is owed; nothing is owed to a thread outside of a call.  The caller
\* that dumps for a checkpoint is in the capture of its own cycle, and is owed
\* nothing once it has committed; nor is one that merges once it has frozen.
ServedInv ==
  /\ \A t \in Threads : pc[t] \in {"capture", "commit", "rotate"} => mode[t] = "Checkpoint"
  /\ mode[Worker] = "Checkpoint"
  /\ ~dirty => \A c \in owed : mode[c] = "Checkpoint"
  /\ \A c \in Callers : pc[c] = "idle" => c \notin owed
  /\ \A c \in Callers : pc[c] \in {"dump", "spin", "merging", "commit"} /\ mode[c] = "Checkpoint"
       => c \in captured
  /\ \A c \in Callers : pc[c] = "merging" /\ mode[c] = "T1Only" => c \notin owed
  /\ \A c \in Callers : pc[c] \in {"rotate", "release", "returned"} => c \notin owed

-----------------------------------------------------------------------------
\* The state keeps its type: the flags, the sampling counter, the program
\* counters and the sets of calls.
THEOREM TypeCorrect == Spec => []TypeOK
<1>1. Init => TypeOK
  <2> SUFFICES ASSUME Init PROVE TypeOK
    OBVIOUS
  <2>1. /\ tick \in 0 .. Stride - 1 /\ size \in 0 .. MaxSize
        /\ calls \in 0 .. MaxCalls /\ fails \in 0 .. MaxFails
    BY FlightAssumption, SMT DEF Init
  <2>2. /\ running \in BOOLEAN /\ requested \in BOOLEAN /\ dirty \in BOOLEAN
        /\ captured \subseteq Callers /\ owed \subseteq Callers /\ merge \in Mergers
    BY Zenon DEF Init, Mergers
  <2>3. /\ pc \in [Threads -> {"idle", "wait", "try", "returned", "failed"} \cup InCycle]
        /\ mode \in [Threads -> Modes]
    BY SMT DEF Init, Modes
  <2> QED
    BY <2>1, <2>2, <2>3, Zenon DEF TypeOK
<1>2. TypeOK /\ [Next]_vars => TypeOK'
  <2> SUFFICES ASSUME TypeOK, [Next]_vars PROVE TypeOK'
    OBVIOUS
  <2> USE FlightAssumption DEF TypeOK, Threads, Modes, Mergers, InCycle
  <2>1. CASE Write \/ WriteQuiet
    <3>1. tick' \in 0 .. Stride - 1 /\ size' \in 0 .. MaxSize
      <4>1. tick' = (tick + 1) % Stride \/ tick' = tick
        BY <2>1, Zenon DEF Write, WriteQuiet
      <4>2. size' = IF size < MaxSize THEN size + 1 ELSE size
        BY <2>1, Zenon DEF Write, WriteQuiet
      <4> QED
        BY <4>1, <4>2, SMT
    <3>2. requested' \in BOOLEAN /\ dirty' \in BOOLEAN
      BY <2>1, Zenon DEF Write, WriteQuiet
    <3> QED
      BY <2>1, <3>1, <3>2, Zenon DEF Write, WriteQuiet
  <2>2. CASE MaintainBegins \/ MaintainEnds
    BY <2>2, Zenon DEF MaintainBegins, MaintainEnds, Freeze
  <2>3. ASSUME NEW c \in Callers, NEW m \in Modes, Call(c, m) PROVE TypeOK'
    BY <2>3 DEF Call
  <2>4. ASSUME NEW c \in Callers, Wait(c) \/ Skip(c) \/ Acquire(c) \/ Return(c)
        PROVE TypeOK'
    <3>1. CASE Wait(c) \/ Skip(c)
      BY <3>1, Zenon DEF Wait, Skip
    <3>2. CASE Acquire(c)
      BY <3>2, Zenon DEF Acquire
    <3>3. CASE Return(c)
      BY <3>3, Zenon DEF Return
    <3> QED
      BY <2>4, <3>1, <3>2, <3>3, Zenon
  <2>5. CASE TakeRequest \/ WorkerAcquire \/ Recheck
    BY <2>5, Zenon DEF TakeRequest, WorkerAcquire, Recheck
  <2>6. ASSUME NEW t \in Threads, CycleStep(t) PROVE TypeOK'
    <3>1. CASE Capture(t) \/ Commit(t)
      BY <3>1, Zenon DEF Capture, Commit
    <3>5. CASE Dump(t) \/ MergeBegins(t) \/ MergeEnds(t)
      <4>1. pc' \in [Threads -> {"idle", "wait", "try", "returned", "failed"} \cup InCycle]
        BY <3>5 DEF Dump, MergeBegins, MergeEnds, AfterDump
      <4> QED
        BY <3>5, <4>1, Zenon DEF Dump, MergeBegins, MergeEnds, Freeze
    <3>2. CASE Rotate(t)
      BY <3>2 DEF Rotate
    <3>3. CASE Release(t)
      BY <3>3, Zenon DEF Release
    <3>4. CASE Fail(t)
      <4>1. fails' \in 0 .. MaxFails
        BY <3>4, SMT DEF Fail
      <4>2. pc' \in [Threads -> {"idle", "wait", "try", "returned", "failed"} \cup InCycle]
        BY <3>4, SMT DEF Fail
      <4>3. running' \in BOOLEAN /\ captured' \subseteq Callers /\ merge' \in Mergers
        BY <3>4, Zenon DEF Fail
      <4> QED
        BY <3>4, <4>1, <4>2, <4>3, Zenon DEF Fail
    <3> QED
      BY <2>6, <3>1, <3>2, <3>3, <3>4, <3>5, Zenon DEF CycleStep
  <2>7. CASE UNCHANGED vars
    BY <2>7, Zenon DEF vars
  <2> QED
    BY <2>1, <2>2, <2>3, <2>4, <2>5, <2>6, <2>7, Zenon DEF Next, CallerStep, WorkerStep
<1> QED
  BY <1>1, <1>2, PTL DEF Spec

-----------------------------------------------------------------------------
LEMMA FlagStep == TypeOK /\ FlagInv /\ [Next]_vars => FlagInv'
<1> SUFFICES ASSUME TypeOK, FlagInv, [Next]_vars PROVE FlagInv'
  OBVIOUS
<1> USE FlightAssumption DEF TypeOK, FlagInv, OneCycle, Threads, InCycle
<1>1. CASE Write \/ WriteQuiet \/ MaintainBegins \/ MaintainEnds \/ UNCHANGED vars
  BY <1>1, Zenon DEF Write, WriteQuiet, MaintainBegins, MaintainEnds, vars
<1>2. ASSUME NEW c \in Callers, NEW m \in Modes, Call(c, m) PROVE FlagInv'
  BY <1>2, Zenon DEF Call
<1>3. ASSUME NEW c \in Callers, Wait(c) \/ Skip(c) \/ Acquire(c) \/ Return(c)
      PROVE FlagInv'
  BY <1>3 DEF Wait, Skip, Acquire, Return
<1>4. CASE TakeRequest \/ WorkerAcquire \/ Recheck
  BY <1>4 DEF TakeRequest, WorkerAcquire, Recheck
<1>5. ASSUME NEW t \in Threads, CycleStep(t) PROVE FlagInv'
  <2>1. CASE Capture(t) \/ Commit(t) \/ Rotate(t)
    BY <2>1 DEF Capture, Commit, Rotate
  <2>3. CASE Dump(t) \/ MergeBegins(t) \/ MergeEnds(t)
    BY <2>3 DEF Dump, MergeBegins, MergeEnds, AfterDump
  <2>2. CASE Release(t) \/ Fail(t)
    BY <2>2 DEF Release, Fail
  <2> QED
    BY <1>5, <2>1, <2>2, <2>3, Zenon DEF CycleStep
<1> QED
  BY <1>1, <1>2, <1>3, <1>4, <1>5, Zenon DEF Next, CallerStep, WorkerStep

\* One cycle at a time, whoever asks for it: the flag is claimed by an exchange
\* and released by its owner only, also when a step throws.
THEOREM OneCycleAtATime == Spec => []OneCycle
<1>1. Init => FlagInv
  BY FlightAssumption, Zenon DEF Init, FlagInv, OneCycle, Threads, InCycle
<1>2. FlagInv => OneCycle
  BY Zenon DEF FlagInv
<1> QED
  BY <1>1, <1>2, FlagStep, TypeCorrect, PTL DEF Spec

-----------------------------------------------------------------------------
LEMMA ServedStep == TypeOK /\ FlagInv /\ ServedInv /\ [Next]_vars => ServedInv'
<1> SUFFICES ASSUME TypeOK, FlagInv, ServedInv, [Next]_vars PROVE ServedInv'
  OBVIOUS
<1> USE FlightAssumption DEF TypeOK, ServedInv, Threads, Modes, InCycle
<1>1. CASE Write \/ WriteQuiet \/ MaintainBegins \/ MaintainEnds \/ UNCHANGED vars
  BY <1>1, Zenon DEF Write, WriteQuiet, MaintainBegins, MaintainEnds, Freeze, vars
<1>2. ASSUME NEW c \in Callers, NEW m \in Modes, Call(c, m) PROVE ServedInv'
  BY <1>2, Zenon DEF Call
<1>3. ASSUME NEW c \in Callers, Wait(c) \/ Skip(c) \/ Acquire(c) \/ Return(c)
      PROVE ServedInv'
  <2>1. CASE Wait(c) \/ Skip(c)
    BY <1>3, <2>1 DEF Wait, Skip
  <2>2. CASE Acquire(c)
    BY <1>3, <2>2, Zenon DEF Acquire
  <2>3. CASE Return(c)
    BY <1>3, <2>3, Zenon DEF Return
  <2> QED
    BY <1>3, <2>1, <2>2, <2>3, Zenon
<1>4. CASE TakeRequest \/ WorkerAcquire \/ Recheck
  BY <1>4 DEF TakeRequest, WorkerAcquire, Recheck
<1>5. ASSUME NEW t \in Threads, CycleStep(t) PROVE ServedInv'
  <2>1. CASE Capture(t)
    BY <2>1, Zenon DEF Capture, FlagInv, OneCycle
  <2>2. CASE Commit(t)
    BY <2>2, Zenon DEF Commit, FlagInv, OneCycle
  <2>3. CASE Rotate(t)
    BY <2>3 DEF Rotate
  <2>5. CASE Dump(t)
    BY <2>5 DEF Dump, AfterDump
  <2>6. CASE MergeBegins(t)
    BY <2>6, Zenon DEF MergeBegins, Freeze
  <2>7. CASE MergeEnds(t)
    BY <2>7 DEF MergeEnds, AfterDump
  <2>4. CASE Release(t) \/ Fail(t)
    BY <2>4 DEF Release, Fail, FlagInv, OneCycle
  <2> QED
    BY <1>5, <2>1, <2>2, <2>3, <2>4, <2>5, <2>6, <2>7, Zenon DEF CycleStep
<1> QED
  BY <1>1, <1>2, <1>3, <1>4, <1>5, Zenon DEF Next, CallerStep, WorkerStep

\* A call that returned was served: a checkpoint() by a manifest whose target was
\* captured after the call began, a merge_t1() by merges, its own or of T1's workers,
\* that have taken from the active region all it found there.
THEOREM ReturnIsService == Spec => []ReturnMeansDone
<1>1. Init => FlagInv /\ ServedInv
  BY FlightAssumption, Zenon DEF Init, FlagInv, ServedInv, OneCycle, Threads, InCycle
<1>2. ServedInv => ReturnMeansDone
  BY Zenon DEF ServedInv, ReturnMeansDone
<1> QED
  BY <1>1, <1>2, FlagStep, ServedStep, TypeCorrect, PTL DEF Spec
=============================================================================
