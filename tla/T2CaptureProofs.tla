-------------------------- MODULE T2CaptureProofs --------------------------
(***************************************************************************)
(* The capture protocol of T2Capture, for any number of writers, keys and  *)
(* values and any capacity: types, what the writer gate, the watermark and *)
(* the in-place barrier guarantee the checkpoint, and what that makes of   *)
(* the base region.                                                        *)
(***************************************************************************)
EXTENDS T2Capture, TLAPS

USE DEF t2Vars, gateVars, ownVars, kvVars, writerVars, ckptVars

InPlacePath == {"enter", "checkBase", "checkWatermark"} \cup InPlaceWriting

\* What a writer's locals hold at each of its steps.
LocalsOK ==
  \A t \in Writers :
    /\ pc[t] # "idle" => key[t] \in Keys
    /\ pc[t] \notin {"idle", "logDelete"} => val[t] \in Values
    /\ pc[t] \in {"write", "publish", "release", "log"} \cup InPlacePath
          => off[t] \in Offsets

TypeInv == TypeOK /\ LocalsOK

LEMMA TypeInit == Init => TypeInv
<1> SUFFICES ASSUME Init PROVE TypeInv
  OBVIOUS
<1> USE DEF Offsets, NotFound
<1>1. [o \in Offsets |-> Blank] \in [Offsets -> Records]
  BY Zenon DEF Records, Blank
<1>2. \A k \in Keys, v \in Values : NewRecord(k, v) \in Records
  BY LenAssumption, Zenon DEF Records, NewRecord
<1>3. /\ mem \in [Offsets -> Records] /\ disk \in [Offsets -> Records]
      /\ t1 \in [Keys -> Offsets \cup {NotFound}]
      /\ logged \in [Keys -> Values \cup {Nil}]
      /\ bytesUsed \in Nat /\ baseBoundary \in Nat /\ manifest \in Nat
  <2>1. CASE \E k \in Keys, v \in Values :
               /\ Len[v] <= Capacity
               /\ Fresh(Len[v], [[o \in Offsets |-> Blank] EXCEPT ![0] = NewRecord(k, v)],
                        [[kk \in Keys |-> NotFound] EXCEPT ![k] = 0],
                        [[kk \in Keys |-> Nil] EXCEPT ![k] = v])
    <3>1. PICK k \in Keys, v \in Values :
               /\ Len[v] <= Capacity
               /\ Fresh(Len[v], [[o \in Offsets |-> Blank] EXCEPT ![0] = NewRecord(k, v)],
                        [[kk \in Keys |-> NotFound] EXCEPT ![k] = 0],
                        [[kk \in Keys |-> Nil] EXCEPT ![k] = v])
      BY <2>1, Zenon
    <3>2. Len[v] \in Nat \ {0} /\ 0 \in Offsets
      BY <3>1, LenAssumption, CapacityAssumption
    <3>3. mem \in [Offsets -> Records] /\ disk \in [Offsets -> Records]
      BY <3>1, <1>1, <1>2, Zenon DEF Fresh
    <3> QED
      BY <3>1, <3>2, <3>3, Zenon DEF Fresh
  <2>2. CASE Fresh(0, [o \in Offsets |-> Blank], [k \in Keys |-> NotFound],
                   [k \in Keys |-> Nil])
    BY <1>1, <2>2, Zenon DEF Fresh
  <2> QED
    BY <2>1, <2>2, Zenon DEF Init
<1>4. /\ stop \in BOOLEAN /\ registered \subseteq Writers
      /\ watermark \in Nat /\ inPlace \in [Writers -> Nat]
      /\ lock \in [Keys -> Writers \cup {Nil}]
      /\ pc \in [Writers -> WriterSteps]
      /\ key \in [Writers -> Keys \cup {Nil}]
      /\ val \in [Writers -> Values \cup {Nil}]
      /\ off \in [Writers -> Nat]
      /\ cpc \in CkptSteps /\ oldBase \in Nat /\ target \in Nat
      /\ scan \subseteq Writers /\ dirty \subseteq Offsets
  <2>1. stop \in BOOLEAN /\ registered \subseteq Writers /\ scan \subseteq Writers
    BY Zenon DEF Init
  <2>2. pc \in [Writers -> WriterSteps] /\ cpc \in CkptSteps
    BY Zenon DEF Init, WriterSteps, CkptSteps
  <2>3. /\ watermark \in Nat /\ oldBase \in Nat /\ target \in Nat /\ dirty \subseteq Offsets
        /\ inPlace \in [Writers -> Nat] /\ off \in [Writers -> Nat]
    BY Zenon DEF Init
  <2>4. /\ lock \in [Keys -> Writers \cup {Nil}]
        /\ key \in [Writers -> Keys \cup {Nil}]
        /\ val \in [Writers -> Values \cup {Nil}]
    BY Zenon DEF Init
  <2> QED
    BY <2>1, <2>2, <2>3, <2>4, Zenon
<1>5. LocalsOK
  BY Zenon DEF Init, LocalsOK, InPlacePath, InPlaceWriting
<1> QED
  BY <1>3, <1>4, <1>5, Zenon DEF TypeInv, TypeOK

\* The types of what the store, the writers and the checkpoint own: an action
\* of one leaves most of the others' state alone.
StoreTypeOK ==
  /\ bytesUsed \in Nat /\ baseBoundary \in Nat /\ manifest \in Nat
  /\ mem \in [Offsets -> Records] /\ disk \in [Offsets -> Records]
  /\ t1 \in [Keys -> Offsets \cup {NotFound}]
  /\ logged \in [Keys -> Values \cup {Nil}]

WriterTypeOK ==
  /\ registered \subseteq Writers
  /\ inPlace \in [Writers -> Nat]
  /\ lock \in [Keys -> Writers \cup {Nil}]
  /\ pc \in [Writers -> WriterSteps]
  /\ key \in [Writers -> Keys \cup {Nil}]
  /\ val \in [Writers -> Values \cup {Nil}]
  /\ off \in [Writers -> Nat]
  /\ LocalsOK

CkptTypeOK ==
  /\ stop \in BOOLEAN /\ watermark \in Nat
  /\ cpc \in CkptSteps /\ oldBase \in Nat /\ target \in Nat
  /\ scan \subseteq Writers /\ dirty \subseteq Offsets

LEMMA TypeParts ==
  /\ TypeInv <=> StoreTypeOK /\ WriterTypeOK /\ CkptTypeOK
  /\ TypeInv' <=> StoreTypeOK' /\ WriterTypeOK' /\ CkptTypeOK'
  BY Zenon DEF TypeInv, TypeOK, StoreTypeOK, WriterTypeOK, CkptTypeOK

LEMMA TypeFrames ==
  /\ StoreTypeOK /\ UNCHANGED <<t2Vars, t1, logged>> => StoreTypeOK'
  /\ WriterTypeOK /\ UNCHANGED <<registered, inPlace, lock, writerVars>> => WriterTypeOK'
  /\ CkptTypeOK /\ UNCHANGED <<stop, watermark, ckptVars>> => CkptTypeOK'
<1>1. StoreTypeOK /\ UNCHANGED <<t2Vars, t1, logged>> => StoreTypeOK'
  BY Zenon DEF StoreTypeOK
<1>2. LocalsOK /\ UNCHANGED writerVars => LocalsOK'
  BY Zenon DEF LocalsOK
<1>3. WriterTypeOK /\ UNCHANGED <<registered, inPlace, lock, writerVars>> => WriterTypeOK'
  BY <1>2, Zenon DEF WriterTypeOK
<1>4. CkptTypeOK /\ UNCHANGED <<stop, watermark, ckptVars>> => CkptTypeOK'
  BY Zenon DEF CkptTypeOK
<1> QED
  BY <1>1, <1>3, <1>4, Zenon

\* A writer's step keeps the types.
LEMMA WriterType ==
  ASSUME TypeInv, NEW t \in Writers, WriterStep(t) PROVE TypeInv'
<1>1. StoreTypeOK /\ WriterTypeOK /\ CkptTypeOK
  BY TypeParts, Zenon
<1>2. CkptTypeOK'
  <2>1. UNCHANGED <<stop, watermark, ckptVars>>
    BY Zenon DEF WriterStep, Insert, Update, Remove, AwaitResume, Acquire, CheckStop, Reserve,
       WriteRecord, PublishT1, ReleaseHandle, ReserveWal, EnterInPlace, CheckBase,
       CheckWatermark, UpdateValueAt
  <2> QED
    BY <1>1, <2>1, TypeFrames, Zenon
<1> SUFFICES StoreTypeOK' /\ WriterTypeOK'
  BY <1>2, TypeParts, Zenon
<1> USE DEF WriterSteps, InPlaceWriting, HoldsHandle, InPlacePath, Goto
<1>3. ASSUME NEW k \in Keys, NEW v \in Values, Insert(t, k, v) PROVE StoreTypeOK' /\ WriterTypeOK'
  <2>1. WriterTypeOK'
    BY <1>1, <1>3, Zenon DEF WriterTypeOK, LocalsOK, Insert, LockStripe
  <2>2. StoreTypeOK'
    BY <1>1, <1>3, TypeFrames, Zenon DEF Insert
  <2> QED
    BY <2>1, <2>2, Zenon
<1>4. ASSUME NEW k \in Keys, NEW v \in Values, Update(t, k, v) PROVE StoreTypeOK' /\ WriterTypeOK'
  <2>0. t1[k] \in Offsets /\ t1[k] \in Nat
    BY <1>1, <1>4 DEF StoreTypeOK, Update, Offsets
  <2>1. WriterTypeOK'
    BY <1>1, <1>4, <2>0, Zenon DEF WriterTypeOK, LocalsOK, Update, LockStripe
  <2>2. StoreTypeOK'
    BY <1>1, <1>4, TypeFrames, Zenon DEF Update
  <2> QED
    BY <2>1, <2>2, Zenon
<1>5. ASSUME NEW k \in Keys, Remove(t, k) PROVE StoreTypeOK' /\ WriterTypeOK'
  <2>1. WriterTypeOK'
    BY <1>1, <1>5, Zenon DEF WriterTypeOK, LocalsOK, Remove, LockStripe
  <2>2. StoreTypeOK'
    BY <1>1, <1>5, Zenon DEF StoreTypeOK, Remove
  <2> QED
    BY <2>1, <2>2, Zenon
<1>6. ASSUME AwaitResume(t) PROVE StoreTypeOK' /\ WriterTypeOK'
  <2>1. WriterTypeOK'
    BY <1>1, <1>6, Zenon DEF WriterTypeOK, LocalsOK, AwaitResume
  <2>2. StoreTypeOK'
    BY <1>1, <1>6, TypeFrames, Zenon DEF AwaitResume
  <2> QED
    BY <2>1, <2>2, Zenon
<1>7. ASSUME Acquire(t) PROVE StoreTypeOK' /\ WriterTypeOK'
  <2>1. WriterTypeOK'
    BY <1>1, <1>7, Zenon DEF WriterTypeOK, LocalsOK, Acquire
  <2>2. StoreTypeOK'
    BY <1>1, <1>7, TypeFrames, Zenon DEF Acquire
  <2> QED
    BY <2>1, <2>2, Zenon
<1>8. ASSUME CheckStop(t) PROVE StoreTypeOK' /\ WriterTypeOK'
  <2>1. WriterTypeOK'
    BY <1>1, <1>8 DEF WriterTypeOK, LocalsOK, CheckStop
  <2>2. StoreTypeOK'
    BY <1>1, <1>8, TypeFrames, Zenon DEF CheckStop
  <2> QED
    BY <2>1, <2>2, Zenon
<1>9. ASSUME Reserve(t) PROVE StoreTypeOK' /\ WriterTypeOK'
  <2>1. /\ val[t] \in Values /\ key[t] \in Keys /\ bytesUsed \in Nat
        /\ bytesUsed' = bytesUsed + Len[val[t]]
    BY <1>1, <1>9, Zenon DEF StoreTypeOK, WriterTypeOK, LocalsOK, Reserve
  <2>2. Len[val[t]] \in Nat \ {0}
    BY <2>1, LenAssumption, Zenon
  <2>3. StoreTypeOK'
    BY <1>1, <1>9, <2>1, <2>2 DEF StoreTypeOK, Reserve
  <2>4. CASE bytesUsed' > Capacity
    BY <1>1, <1>9, <2>1, <2>3, <2>4 DEF WriterTypeOK, LocalsOK, Reserve, Return
  <2>5. CASE ~(bytesUsed' > Capacity)
    <3>1. bytesUsed \in Offsets
      BY <2>1, <2>2, <2>5, CapacityAssumption DEF Offsets
    <3> QED
      BY <1>1, <1>9, <2>1, <2>3, <2>5, <3>1 DEF WriterTypeOK, LocalsOK, Reserve
  <2> QED
    BY <2>4, <2>5, Zenon
<1>10. ASSUME WriteRecord(t) PROVE StoreTypeOK' /\ WriterTypeOK'
  <2>1. WriterTypeOK'
    BY <1>1, <1>10, Zenon DEF WriterTypeOK, LocalsOK, WriteRecord
  <2>2. key[t] \in Keys /\ val[t] \in Values
    BY <1>1, <1>10, Zenon DEF WriterTypeOK, LocalsOK, WriteRecord
  <2>3. NewRecord(key[t], val[t]) \in Records
    BY <2>2, LenAssumption, Zenon DEF NewRecord, Records
  <2>4. StoreTypeOK'
    BY <1>1, <1>10, <2>3, Zenon DEF StoreTypeOK, WriteRecord
  <2> QED
    BY <2>1, <2>4, Zenon
<1>11. ASSUME PublishT1(t) PROVE StoreTypeOK' /\ WriterTypeOK'
  <2>1. WriterTypeOK'
    BY <1>1, <1>11, Zenon DEF WriterTypeOK, LocalsOK, PublishT1
  <2>2. key[t] \in Keys /\ off[t] \in Offsets
    BY <1>1, <1>11, Zenon DEF WriterTypeOK, LocalsOK, PublishT1
  <2>3. StoreTypeOK'
    BY <1>1, <1>11, <2>2, Zenon DEF StoreTypeOK, PublishT1
  <2> QED
    BY <2>1, <2>3, Zenon
<1>12. ASSUME ReleaseHandle(t) PROVE StoreTypeOK' /\ WriterTypeOK'
  <2>1. WriterTypeOK'
    BY <1>1, <1>12, Zenon DEF WriterTypeOK, LocalsOK, ReleaseHandle
  <2>2. StoreTypeOK'
    BY <1>1, <1>12, TypeFrames, Zenon DEF ReleaseHandle
  <2> QED
    BY <2>1, <2>2, Zenon
<1>13. ASSUME ReserveWal(t) PROVE StoreTypeOK' /\ WriterTypeOK'
  <2>1. WriterTypeOK'
    BY <1>1, <1>13, Zenon DEF WriterTypeOK, LocalsOK, ReserveWal, Return
  <2>2. val[t] \in Values \cup {Nil}
    BY <1>1, Zenon DEF WriterTypeOK
  <2>3. StoreTypeOK'
    BY <1>1, <1>13, <2>2, Zenon DEF StoreTypeOK, ReserveWal
  <2> QED
    BY <2>1, <2>3, Zenon
<1>14. ASSUME EnterInPlace(t) PROVE StoreTypeOK' /\ WriterTypeOK'
  <2>1. WriterTypeOK'
    BY <1>1, <1>14 DEF WriterTypeOK, LocalsOK, EnterInPlace
  <2>2. StoreTypeOK'
    BY <1>1, <1>14, TypeFrames, Zenon DEF EnterInPlace
  <2> QED
    BY <2>1, <2>2, Zenon
<1>15. ASSUME CheckBase(t) PROVE StoreTypeOK' /\ WriterTypeOK'
  <2>1. WriterTypeOK'
    <3>1. pc[t] = "checkBase" /\ UNCHANGED <<registered, lock, key, val, off>>
      BY <1>15, Zenon DEF CheckBase
    <3>2. \/ FallThrough(t)
          \/ Goto(t, "checkWatermark") /\ UNCHANGED inPlace
      BY <1>15, Zenon DEF CheckBase
    <3> QED
      BY <1>1, <3>1, <3>2 DEF WriterTypeOK, LocalsOK, FallThrough
  <2>2. StoreTypeOK'
    BY <1>1, <1>15, TypeFrames, Zenon DEF CheckBase
  <2> QED
    BY <2>1, <2>2, Zenon
<1>16. ASSUME CheckWatermark(t) PROVE StoreTypeOK' /\ WriterTypeOK'
  <2>1. WriterTypeOK'
    BY <1>1, <1>16 DEF WriterTypeOK, LocalsOK, CheckWatermark, FallThrough
  <2>2. StoreTypeOK'
    BY <1>1, <1>16, TypeFrames, Zenon DEF CheckWatermark
  <2> QED
    BY <2>1, <2>2, Zenon
<1>17. ASSUME UpdateValueAt(t) PROVE StoreTypeOK' /\ WriterTypeOK'
  <2>1. WriterTypeOK'
    BY <1>1, <1>17 DEF WriterTypeOK, LocalsOK, UpdateValueAt
  <2>2. mem \in [Offsets -> Records] /\ off[t] \in Offsets /\ val[t] \in Values
    BY <1>1, <1>17, Zenon DEF StoreTypeOK, WriterTypeOK, LocalsOK, UpdateValueAt
  <2>3. PICK r : mem' = [mem EXCEPT ![off[t]] = r] /\
                 \/ r = [mem[off[t]] EXCEPT !.ver = (@ + 1) % VersionMod]
                 \/ r = [mem[off[t]] EXCEPT !.lo = val[t]]
                 \/ r = [mem[off[t]] EXCEPT !.hi = val[t]]
    BY <1>17, Zenon DEF UpdateValueAt
  <2>4. r \in Records
    BY <2>2, <2>3, VersionAssumption DEF Records
  <2>5. mem' \in [Offsets -> Records]
    BY <2>2, <2>3, <2>4, Zenon
  <2>6. StoreTypeOK'
    BY <1>1, <1>17, <2>5, Zenon DEF StoreTypeOK, UpdateValueAt
  <2> QED
    BY <2>1, <2>6, Zenon
<1> QED
  BY <1>3, <1>4, <1>5, <1>6, <1>7, <1>8, <1>9, <1>10, <1>11, <1>12, <1>13, <1>14, <1>15,
     <1>16, <1>17, Zenon DEF WriterStep

\* A step of the checkpoint thread keeps the types.
LEMMA CheckpointType ==
  ASSUME TypeInv, CheckpointStep PROVE TypeInv'
<1>1. StoreTypeOK /\ WriterTypeOK /\ CkptTypeOK
  BY TypeParts, Zenon
<1>2. UNCHANGED <<kvVars, writerVars, registered, inPlace, mem, bytesUsed>>
  BY Zenon DEF CheckpointStep, ReadOldBase, StopWriters, StartWriterScan, StartInPlaceScan,
     StartScan, CaptureTarget, ResumeWriters, ClaimWatermark, StartMsync, FinishMsync,
     PublishManifest, AbortCycle, AdvanceBase, EndCycle, ScanSlot, MsyncRecord, CkptUnchanged
<1>3. WriterTypeOK'
  BY <1>1, <1>2, TypeFrames, Zenon
<1>4. /\ baseBoundary \in Nat /\ bytesUsed \in Nat /\ manifest \in Nat
      /\ mem \in [Offsets -> Records] /\ disk \in [Offsets -> Records]
  BY <1>1, Zenon DEF StoreTypeOK
<1> SUFFICES /\ CkptTypeOK'
             /\ baseBoundary' \in Nat /\ manifest' \in Nat /\ disk' \in [Offsets -> Records]
  BY <1>1, <1>2, <1>3, TypeParts, Zenon DEF StoreTypeOK
<1> USE DEF CkptTypeOK, CkptSteps
<1>5. CASE ReadOldBase
  BY <1>1, <1>4, <1>5, Zenon DEF ReadOldBase
<1>6. CASE StopWriters
  BY <1>1, <1>4, <1>6, Zenon DEF StopWriters
<1>7. CASE StartWriterScan
  BY <1>1, <1>4, <1>7, Zenon DEF StartWriterScan, StartScan
<1>8. CASE StartInPlaceScan
  BY <1>1, <1>4, <1>8, Zenon DEF StartInPlaceScan, StartScan
<1>9. CASE CaptureTarget
  BY <1>1, <1>4, <1>9, Zenon DEF CaptureTarget
<1>10. CASE ResumeWriters
  BY <1>1, <1>4, <1>10, Zenon DEF ResumeWriters
<1>11. CASE ClaimWatermark
  BY <1>1, <1>4, <1>11, Zenon DEF ClaimWatermark
<1>12. CASE StartMsync
  BY <1>1, <1>4, <1>12, Zenon DEF StartMsync
<1>13. CASE FinishMsync
  BY <1>1, <1>4, <1>13, Zenon DEF FinishMsync
<1>14. CASE PublishManifest
  BY <1>1, <1>4, <1>14, Zenon DEF PublishManifest
<1>15. CASE AbortCycle
  BY <1>1, <1>4, <1>15, Zenon DEF AbortCycle, EndCycle
<1>16. CASE AdvanceBase
  BY <1>1, <1>4, <1>16, Zenon DEF AdvanceBase, EndCycle
<1>17. CASE \E t \in Writers : ScanSlot(t)
  BY <1>1, <1>4, <1>17, Zenon DEF ScanSlot
<1>18. CASE \E o \in Offsets : MsyncRecord(o)
  BY <1>1, <1>4, <1>18, Zenon DEF MsyncRecord
<1> QED
  BY <1>5, <1>6, <1>7, <1>8, <1>9, <1>10, <1>11, <1>12, <1>13, <1>14, <1>15, <1>16, <1>17, <1>18, Zenon
     DEF CheckpointStep

LEMMA TypeStep == TypeInv /\ [Next]_vars => TypeInv'
<1> SUFFICES ASSUME TypeInv, [Next]_vars PROVE TypeInv'
  OBVIOUS
<1>1. StoreTypeOK /\ WriterTypeOK /\ CkptTypeOK
  BY TypeParts, Zenon
<1>2. ASSUME NEW o \in Offsets, Writeback(o) PROVE TypeInv'
  <2>1. StoreTypeOK'
    BY <1>1, <1>2, Zenon DEF StoreTypeOK, Writeback
  <2>2. WriterTypeOK' /\ CkptTypeOK'
    BY <1>1, <1>2, TypeFrames, Zenon DEF Writeback
  <2> QED
    BY <2>1, <2>2, TypeParts, Zenon
<1>3. CASE UNCHANGED vars
  BY <1>1, <1>3, TypeFrames, TypeParts, Zenon DEF vars
<1> QED
  BY <1>2, <1>3, WriterType, CheckpointType, Zenon DEF Next

\* Every variable keeps its type, whatever the writers, the checkpoint and the
\* kernel do; in particular a published offset lies inside the mapping.
THEOREM TypeCorrect == Spec => []TypeOK
<1>1. TypeInv => TypeOK
  BY Zenon DEF TypeInv
<1> QED
  BY TypeInit, TypeStep, <1>1, PTL DEF Spec

-----------------------------------------------------------------------------
(* The checkpoint and the writers.                                         *)

\* WriterGate: a handle is held by registered threads only, and the pass over
\* the slots leaves behind no thread that still holds one.
GateInv ==
  /\ \A t \in Writers : t \in registered <=> pc[t] \in HoldsHandle \cup {"check"}
  /\ stop <=> cpc \in {"scanStart", "scan", "resume"}
  /\ cpc = "scan" => \A t \in Writers : pc[t] \in HoldsHandle => t \in scan
  /\ cpc = "resume" => \A t \in Writers : pc[t] \notin HoldsHandle

\* Appends: what is reserved lies below bytes_used, and from the capture on no
\* unpublished append lies below the target.
AppendInv ==
  /\ \A t \in Writers : pc[t] \in {"write", "publish"} =>
        off[t] < bytesUsed /\ off[t] >= baseBoundary
  /\ baseBoundary <= bytesUsed
  /\ TargetHeld => baseBoundary <= target /\ target <= bytesUsed
  /\ CaptureQuiescent

\* In-place updates: the guard names the offset from the moment the boundaries
\* are read, and the drain leaves behind no update that writes below the target.
OwnInv ==
  /\ \A t \in Writers :
        pc[t] \in {"checkBase", "checkWatermark"} \cup InPlaceWriting =>
           inPlace[t] = off[t] + 1
  /\ \A t \in Writers : pc[t] = "checkWatermark" =>
        off[t] >= baseBoundary \/ watermark >= baseBoundary
  /\ \A t \in Writers : pc[t] \in InPlaceWriting => off[t] >= baseBoundary
  /\ cpc \in {"drainStart", "drain", "msync", "publish", "advance"} => watermark = target
  /\ cpc = "drain" => \A t \in Writers :
        pc[t] \in InPlaceWriting /\ off[t] < target => t \in scan
  /\ NoInPlaceBelowTarget

\* The boundaries: the manifest is ahead of base_boundary only between the
\* publish and the advance, and an abort reverts to the boundary in force.
BoundaryInv ==
  /\ manifest = IF cpc = "advance" THEN target ELSE baseBoundary
  /\ cpc # "idle" => oldBase = baseBoundary

CaptureInv == GateInv /\ AppendInv /\ OwnInv /\ BoundaryInv

LEMMA CaptureInit == Init => CaptureInv
<1> SUFFICES ASSUME Init PROVE CaptureInv
  OBVIOUS
<1>1. bytesUsed \in Nat /\ baseBoundary = bytesUsed /\ manifest = bytesUsed
  BY TypeInit, Zenon DEF Init, Fresh, TypeInv, TypeOK
<1> QED
  BY <1>1 DEF Init, CaptureInv, GateInv, AppendInv, OwnInv, BoundaryInv, TargetHeld,
     CaptureQuiescent, NoInPlaceBelowTarget, HoldsHandle, InPlaceWriting

\* The three steps of a writer that branch, one lemma each.
LEMMA CheckStopCapture ==
  ASSUME TypeInv, CaptureInv, NEW t \in Writers, CheckStop(t) PROVE CaptureInv'
<1>1. /\ pc[t] = "check" /\ t \in registered
      /\ UNCHANGED <<bytesUsed, baseBoundary, manifest, stop, watermark, inPlace, off, cpc,
                     oldBase, target, scan>>
  BY Zenon DEF CheckStop, CaptureInv, GateInv
<1>2. /\ \A u \in Writers : u # t => pc'[u] = pc[u] /\ (u \in registered' <=> u \in registered)
      /\ \/ stop /\ pc'[t] = "gate" /\ t \notin registered'
         \/ ~stop /\ pc'[t] = "reserve" /\ t \in registered'
  BY <1>1, Zenon DEF CheckStop, Goto, TypeInv, TypeOK
<1>3. GateInv'
  BY <1>1, <1>2, Zenon DEF GateInv, CaptureInv, HoldsHandle
<1>4. AppendInv'
  BY <1>1, <1>2, Zenon DEF AppendInv, CaptureInv, TargetHeld, CaptureQuiescent
<1>5. OwnInv'
  BY <1>1, <1>2, Zenon DEF OwnInv, CaptureInv, InPlaceWriting, NoInPlaceBelowTarget
<1>6. BoundaryInv'
  BY <1>1, Zenon DEF BoundaryInv, CaptureInv
<1> QED
  BY <1>3, <1>4, <1>5, <1>6, Zenon DEF CaptureInv

LEMMA ReserveCapture ==
  ASSUME TypeInv, CaptureInv, NEW t \in Writers, Reserve(t) PROVE CaptureInv'
<1>1. /\ pc[t] = "reserve" /\ val[t] \in Values /\ t \in registered
      /\ UNCHANGED <<baseBoundary, manifest, stop, watermark, inPlace, cpc, oldBase, target, scan>>
  BY Zenon DEF Reserve, TypeInv, LocalsOK, CaptureInv, GateInv, HoldsHandle
<1>2. /\ bytesUsed \in Nat /\ bytesUsed' \in Nat /\ bytesUsed' > bytesUsed
      /\ baseBoundary \in Nat /\ target \in Nat
  BY <1>1, LenAssumption DEF Reserve, TypeInv, TypeOK
<1>3. \A u \in Writers : u # t =>
        pc'[u] = pc[u] /\ off'[u] = off[u] /\ (u \in registered' <=> u \in registered)
  BY DEF Reserve, Return, Goto, TypeInv, TypeOK
<1>4. \/ pc'[t] = "idle" /\ t \notin registered'
      \/ pc'[t] = "write" /\ off'[t] = bytesUsed /\ t \in registered'
  BY <1>1 DEF Reserve, Return, Goto, TypeInv, TypeOK
<1>5. GateInv'
  BY <1>1, <1>3, <1>4, Zenon DEF GateInv, CaptureInv, HoldsHandle
<1>6. AppendInv'
  <2>1. \A u \in Writers : pc[u] \in {"write", "publish"} => off[u] \in Nat
    BY Zenon DEF TypeInv, TypeOK
  <2> QED
    BY <1>1, <1>2, <1>3, <1>4, <2>1 DEF AppendInv, CaptureInv, TargetHeld, CaptureQuiescent
<1>7. OwnInv'
  BY <1>1, <1>3, <1>4, Zenon DEF OwnInv, CaptureInv, InPlaceWriting, NoInPlaceBelowTarget
<1>8. BoundaryInv'
  BY <1>1, Zenon DEF BoundaryInv, CaptureInv
<1> QED
  BY <1>5, <1>6, <1>7, <1>8, Zenon DEF CaptureInv

LEMMA WatermarkCapture ==
  ASSUME TypeInv, CaptureInv, NEW t \in Writers, CheckWatermark(t) PROVE CaptureInv'
<1>1. /\ pc[t] = "checkWatermark"
      /\ UNCHANGED <<bytesUsed, baseBoundary, manifest, stop, registered, watermark, off, cpc,
                     oldBase, target, scan>>
      /\ off[t] \in Nat /\ watermark \in Nat /\ baseBoundary \in Nat /\ target \in Nat
  BY Zenon DEF CheckWatermark, TypeInv, TypeOK
<1>2. /\ \A u \in Writers : u # t => pc'[u] = pc[u] /\ inPlace'[u] = inPlace[u]
      /\ \/ pc'[t] = "gate"
         \/ pc'[t] = "verOdd" /\ inPlace'[t] = inPlace[t] /\ off[t] >= watermark
  BY <1>1 DEF CheckWatermark, FallThrough, Goto, TypeInv, TypeOK
<1>3. GateInv'
  BY <1>1, <1>2, Zenon DEF GateInv, CaptureInv, HoldsHandle
<1>4. AppendInv'
  BY <1>1, <1>2, Zenon DEF AppendInv, CaptureInv, TargetHeld, CaptureQuiescent
<1>5. OwnInv'
  BY <1>1, <1>2 DEF OwnInv, CaptureInv, InPlaceWriting, NoInPlaceBelowTarget
<1>6. BoundaryInv'
  BY <1>1, Zenon DEF BoundaryInv, CaptureInv
<1> QED
  BY <1>3, <1>4, <1>5, <1>6, Zenon DEF CaptureInv

\* A step of writer t that takes no space, passes neither the writer gate nor
\* the watermark check, and moves from one step of a protocol to the next.
LEMMA MoveCapture ==
  ASSUME CaptureInv, NEW t \in Writers,
         UNCHANGED <<bytesUsed, baseBoundary, manifest, stop, watermark, cpc, oldBase,
                     target, scan>>,
         \A u \in Writers : u # t =>
           /\ pc'[u] = pc[u] /\ off'[u] = off[u] /\ inPlace'[u] = inPlace[u]
           /\ u \in registered' <=> u \in registered,
         t \in registered' <=> pc'[t] \in HoldsHandle \cup {"check"},
         pc'[t] \in HoldsHandle => pc[t] \in HoldsHandle,
         pc'[t] \in {"write", "publish"} => pc[t] \in {"write", "publish"} /\ off'[t] = off[t],
         pc'[t] \in InPlaceWriting => pc[t] \in InPlaceWriting /\ off'[t] = off[t],
         pc'[t] \in {"checkBase", "checkWatermark"} \cup InPlaceWriting =>
           inPlace'[t] = off'[t] + 1,
         pc'[t] = "checkWatermark" => off'[t] >= baseBoundary
  PROVE  CaptureInv'
<1>1. GateInv'
  BY Zenon DEF CaptureInv, GateInv
<1>2. AppendInv'
  BY Zenon DEF CaptureInv, AppendInv, TargetHeld, CaptureQuiescent
<1>3. OwnInv'
  BY DEF CaptureInv, OwnInv, NoInPlaceBelowTarget
<1>4. BoundaryInv'
  BY Zenon DEF CaptureInv, BoundaryInv
<1> QED
  BY <1>1, <1>2, <1>3, <1>4, Zenon DEF CaptureInv

\* The writers' other steps.
LEMMA WriterCapture ==
  ASSUME TypeInv, CaptureInv, NEW t \in Writers, WriterStep(t) PROVE CaptureInv'
<1>1. /\ pc \in [Writers -> WriterSteps] /\ off \in [Writers -> Nat]
      /\ inPlace \in [Writers -> Nat]
      /\ \A u \in Writers : u \in registered <=> pc[u] \in HoldsHandle \cup {"check"}
  BY Zenon DEF TypeInv, TypeOK, CaptureInv, GateInv
<1>2. \A u \in Writers :
        pc[u] \in {"checkBase", "checkWatermark"} \cup InPlaceWriting => inPlace[u] = off[u] + 1
  BY Zenon DEF CaptureInv, OwnInv
<1> DEFINE Frame == UNCHANGED <<bytesUsed, baseBoundary, manifest, stop, watermark, cpc,
                                oldBase, target, scan>>
<1> USE DEF HoldsHandle, InPlaceWriting, Goto
<1>3. ASSUME NEW k \in Keys, NEW v \in Values, Insert(t, k, v) PROVE CaptureInv'
  <2>1. Frame /\ UNCHANGED <<registered, inPlace, off>> /\ Goto(t, "gate") /\ pc[t] = "idle"
    BY <1>3, Zenon DEF Insert, LockStripe
  <2> QED
    BY <1>1, <2>1, MoveCapture, Zenon
<1>4. ASSUME NEW k \in Keys, NEW v \in Values, Update(t, k, v) PROVE CaptureInv'
  <2>1. /\ Frame /\ UNCHANGED <<registered, inPlace>> /\ Goto(t, "enter") /\ pc[t] = "idle"
        /\ off' = [off EXCEPT ![t] = t1[k]]
    BY <1>4, Zenon DEF Update, LockStripe
  <2> QED
    BY <1>1, <2>1, MoveCapture, Zenon
<1>5. ASSUME NEW k \in Keys, Remove(t, k) PROVE CaptureInv'
  <2>1. Frame /\ UNCHANGED <<registered, inPlace, off>> /\ Goto(t, "logDelete") /\ pc[t] = "idle"
    BY <1>5, Zenon DEF Remove, LockStripe
  <2> QED
    BY <1>1, <2>1, MoveCapture, Zenon
<1>6. ASSUME AwaitResume(t) PROVE CaptureInv'
  <2>1. Frame /\ UNCHANGED <<registered, inPlace, off>> /\ Goto(t, "register") /\ pc[t] = "gate"
    BY <1>6, Zenon DEF AwaitResume
  <2> QED
    BY <1>1, <2>1, MoveCapture, Zenon
<1>7. ASSUME Acquire(t) PROVE CaptureInv'
  <2>1. /\ Frame /\ UNCHANGED <<inPlace, off>> /\ Goto(t, "check") /\ pc[t] = "register"
        /\ registered' = registered \cup {t}
    BY <1>7, Zenon DEF Acquire
  <2> QED
    BY <1>1, <2>1, MoveCapture, Zenon
<1>8. ASSUME WriteRecord(t) PROVE CaptureInv'
  <2>1. Frame /\ UNCHANGED <<registered, inPlace, off>> /\ Goto(t, "publish") /\ pc[t] = "write"
    BY <1>8, Zenon DEF WriteRecord
  <2> QED
    BY <1>1, <2>1, MoveCapture, Zenon
<1>9. ASSUME PublishT1(t) PROVE CaptureInv'
  <2>1. Frame /\ UNCHANGED <<registered, inPlace, off>> /\ Goto(t, "release") /\ pc[t] = "publish"
    BY <1>9, Zenon DEF PublishT1
  <2> QED
    BY <1>1, <2>1, MoveCapture, Zenon
<1>10. ASSUME ReleaseHandle(t) PROVE CaptureInv'
  <2>1. /\ Frame /\ UNCHANGED <<inPlace, off>> /\ Goto(t, "log") /\ pc[t] = "release"
        /\ registered' = registered \ {t}
    BY <1>10, Zenon DEF ReleaseHandle
  <2> QED
    BY <1>1, <2>1, MoveCapture, Zenon
<1>11. ASSUME ReserveWal(t) PROVE CaptureInv'
  <2>1. /\ Frame /\ UNCHANGED registered /\ Goto(t, "idle")
        /\ pc[t] \in {"log", "logDelete", "logInPlace"}
        /\ inPlace' = [inPlace EXCEPT ![t] = 0] /\ off' = [off EXCEPT ![t] = 0]
    BY <1>11, Zenon DEF ReserveWal, Return
  <2> QED
    BY <1>1, <2>1, MoveCapture, Zenon
<1>12. ASSUME EnterInPlace(t) PROVE CaptureInv'
  <2>1. /\ Frame /\ UNCHANGED <<registered, off>> /\ Goto(t, "checkBase") /\ pc[t] = "enter"
        /\ inPlace' = [inPlace EXCEPT ![t] = off[t] + 1]
    BY <1>12, Zenon DEF EnterInPlace
  <2> QED
    BY <1>1, <2>1, MoveCapture, Zenon
<1>13. ASSUME CheckBase(t) PROVE CaptureInv'
  <2>1. Frame /\ UNCHANGED <<registered, off>> /\ pc[t] = "checkBase"
    BY <1>13, Zenon DEF CheckBase
  <2>2. off[t] \in Nat /\ baseBoundary \in Nat
    BY <1>1, Zenon DEF TypeInv, TypeOK
  <2>3. CASE FallThrough(t)
    BY <1>1, <2>1, <2>3, MoveCapture, Zenon DEF FallThrough
  <2>4. CASE Goto(t, "checkWatermark") /\ UNCHANGED inPlace /\ ~(off[t] < baseBoundary)
    BY <1>1, <1>2, <2>1, <2>2, <2>4, MoveCapture
  <2> QED
    BY <1>13, <2>3, <2>4, Zenon DEF CheckBase
<1>14. ASSUME UpdateValueAt(t) PROVE CaptureInv'
  <2>1. Frame /\ UNCHANGED <<registered, inPlace, off>>
    BY <1>14, Zenon DEF UpdateValueAt
  <2>2. PICK s \in InPlaceWriting : pc[t] \in InPlaceWriting /\ Goto(t, s)
    BY <1>14, Zenon DEF UpdateValueAt
  <2> QED
    BY <1>1, <1>2, <2>1, <2>2, MoveCapture
<1> QED
  BY <1>3, <1>4, <1>5, <1>6, <1>7, <1>8, <1>9, <1>10, <1>11, <1>12, <1>13, <1>14,
     CheckStopCapture, ReserveCapture, WatermarkCapture, Zenon DEF WriterStep

\* The checkpoint thread's steps, which touch no writer's state.
LEMMA CheckpointCapture ==
  ASSUME TypeInv, CaptureInv, CheckpointStep PROVE CaptureInv'
<1>1. UNCHANGED <<pc, registered, off, inPlace, bytesUsed>>
  BY Zenon DEF CheckpointStep, ReadOldBase, StopWriters, StartWriterScan, StartInPlaceScan,
     StartScan, CaptureTarget, ResumeWriters, ClaimWatermark, StartMsync, FinishMsync,
     PublishManifest, AbortCycle, AdvanceBase, EndCycle, ScanSlot, MsyncRecord, CkptUnchanged
<1>2. /\ off \in [Writers -> Nat] /\ inPlace \in [Writers -> Nat]
      /\ bytesUsed \in Nat /\ baseBoundary \in Nat /\ target \in Nat /\ watermark \in Nat
  BY Zenon DEF TypeInv, TypeOK
<1>3. GateInv /\ AppendInv /\ OwnInv /\ BoundaryInv
  BY Zenon DEF CaptureInv
<1>4. /\ \A t \in Writers : t \in registered <=> t \in registered'
      /\ \A t \in Writers : pc'[t] = pc[t] /\ off'[t] = off[t] /\ inPlace'[t] = inPlace[t]
  BY <1>1, Zenon
<1>5. CASE ReadOldBase
  <2>1. /\ cpc = "idle" /\ cpc' = "stop" /\ oldBase' = baseBoundary
        /\ UNCHANGED <<baseBoundary, manifest, stop, watermark, target, scan>>
    BY <1>5, Zenon DEF ReadOldBase
  <2>2. GateInv'
    BY <1>1, <1>3, <2>1, Zenon DEF GateInv
  <2>3. AppendInv'
    BY <1>1, <1>2, <1>3, <2>1, Zenon DEF AppendInv, TargetHeld, CaptureQuiescent
  <2>4. OwnInv'
    BY <1>1, <1>2, <1>3, <2>1, Zenon DEF OwnInv, NoInPlaceBelowTarget
  <2>5. BoundaryInv'
    BY <1>1, <1>3, <2>1, Zenon DEF BoundaryInv
  <2> QED
    BY <2>2, <2>3, <2>4, <2>5, Zenon DEF CaptureInv
<1>6. CASE StopWriters
  <2>1. /\ cpc = "stop" /\ cpc' = "scanStart" /\ stop' = TRUE
        /\ UNCHANGED <<baseBoundary, manifest, watermark, oldBase, target, scan>>
    BY <1>6, Zenon DEF StopWriters
  <2>2. GateInv'
    BY <1>1, <1>3, <2>1, Zenon DEF GateInv
  <2>3. AppendInv'
    BY <1>1, <1>2, <1>3, <2>1, Zenon DEF AppendInv, TargetHeld, CaptureQuiescent
  <2>4. OwnInv'
    BY <1>1, <1>2, <1>3, <2>1, Zenon DEF OwnInv, NoInPlaceBelowTarget
  <2>5. BoundaryInv'
    BY <1>1, <1>3, <2>1, Zenon DEF BoundaryInv
  <2> QED
    BY <2>2, <2>3, <2>4, <2>5, Zenon DEF CaptureInv
<1>7. CASE StartWriterScan
  <2>1. /\ cpc = "scanStart" /\ cpc' = "scan" /\ registered \subseteq scan'
        /\ UNCHANGED <<baseBoundary, manifest, stop, watermark, oldBase, target>>
    BY <1>7, Zenon DEF StartWriterScan, StartScan
  <2>2. GateInv'
    BY <1>1, <1>3, <2>1, Zenon DEF GateInv
  <2>3. AppendInv'
    BY <1>1, <1>2, <1>3, <2>1, Zenon DEF AppendInv, TargetHeld, CaptureQuiescent
  <2>4. OwnInv'
    BY <1>1, <1>2, <1>3, <2>1, Zenon DEF OwnInv, NoInPlaceBelowTarget
  <2>5. BoundaryInv'
    BY <1>1, <1>3, <2>1, Zenon DEF BoundaryInv
  <2> QED
    BY <2>2, <2>3, <2>4, <2>5, Zenon DEF CaptureInv
<1>8. CASE StartInPlaceScan
  <2>1. /\ cpc = "drainStart" /\ cpc' = "drain"
        /\ \A t \in Writers : inPlace[t] # 0 => t \in scan'
        /\ UNCHANGED <<baseBoundary, manifest, stop, watermark, oldBase, target>>
    BY <1>8, Zenon DEF StartInPlaceScan, StartScan
  <2>2. GateInv'
    BY <1>1, <1>3, <2>1, Zenon DEF GateInv
  <2>3. AppendInv'
    BY <1>1, <1>2, <1>3, <2>1, Zenon DEF AppendInv, TargetHeld, CaptureQuiescent
  <2>4. OwnInv'
    BY <1>1, <1>2, <1>3, <2>1 DEF OwnInv, NoInPlaceBelowTarget
  <2>5. BoundaryInv'
    BY <1>1, <1>3, <2>1, Zenon DEF BoundaryInv
  <2> QED
    BY <2>2, <2>3, <2>4, <2>5, Zenon DEF CaptureInv
<1>9. CASE CaptureTarget
  <2>1. /\ cpc = "scan" /\ scan = {} /\ cpc' = "resume" /\ target' = bytesUsed
        /\ UNCHANGED <<baseBoundary, manifest, stop, watermark, oldBase, scan>>
    BY <1>9, Zenon DEF CaptureTarget
  <2>2. GateInv'
    BY <1>1, <1>3, <2>1, Zenon DEF GateInv
  <2>3. AppendInv'
    <3>1. \A t \in Writers : pc[t] \notin {"write", "publish"}
      BY <1>3, <2>1, Zenon DEF GateInv, HoldsHandle
    <3> QED
      BY <1>1, <1>2, <1>3, <2>1, <3>1 DEF AppendInv, CaptureQuiescent
  <2>4. OwnInv'
    BY <1>1, <1>2, <1>3, <2>1, Zenon DEF OwnInv, NoInPlaceBelowTarget
  <2>5. BoundaryInv'
    BY <1>1, <1>3, <2>1, Zenon DEF BoundaryInv
  <2> QED
    BY <2>2, <2>3, <2>4, <2>5, Zenon DEF CaptureInv
<1>10. CASE ResumeWriters
  <2>1. /\ cpc = "resume" /\ cpc' = "claim" /\ stop' = FALSE
        /\ UNCHANGED <<baseBoundary, manifest, watermark, oldBase, target, scan>>
    BY <1>10, Zenon DEF ResumeWriters
  <2>2. GateInv'
    BY <1>1, <1>3, <2>1, Zenon DEF GateInv
  <2>3. AppendInv'
    BY <1>1, <1>2, <1>3, <2>1, Zenon DEF AppendInv, TargetHeld, CaptureQuiescent
  <2>4. OwnInv'
    BY <1>1, <1>2, <1>3, <2>1, Zenon DEF OwnInv, NoInPlaceBelowTarget
  <2>5. BoundaryInv'
    BY <1>1, <1>3, <2>1, Zenon DEF BoundaryInv
  <2> QED
    BY <2>2, <2>3, <2>4, <2>5, Zenon DEF CaptureInv
<1>11. CASE ClaimWatermark
  <2>1. /\ cpc = "claim" /\ cpc' = "drainStart" /\ watermark' = target
        /\ UNCHANGED <<baseBoundary, manifest, stop, oldBase, target, scan>>
    BY <1>11, Zenon DEF ClaimWatermark
  <2>2. GateInv'
    BY <1>1, <1>3, <2>1, Zenon DEF GateInv
  <2>3. AppendInv'
    BY <1>1, <1>2, <1>3, <2>1, Zenon DEF AppendInv, TargetHeld, CaptureQuiescent
  <2>4. OwnInv'
    <3>1. watermark' >= baseBoundary
      BY <1>2, <1>3, <2>1, Zenon DEF AppendInv, TargetHeld
    <3> QED
      BY <1>1, <1>3, <2>1, <3>1, Zenon DEF OwnInv, NoInPlaceBelowTarget
  <2>5. BoundaryInv'
    BY <1>1, <1>3, <2>1, Zenon DEF BoundaryInv
  <2> QED
    BY <2>2, <2>3, <2>4, <2>5, Zenon DEF CaptureInv
<1>12. CASE StartMsync
  <2>1. /\ cpc = "drain" /\ scan = {} /\ cpc' = "msync"
        /\ UNCHANGED <<baseBoundary, manifest, stop, watermark, oldBase, target, scan>>
    BY <1>12, Zenon DEF StartMsync
  <2>2. GateInv'
    BY <1>1, <1>3, <2>1, Zenon DEF GateInv
  <2>3. AppendInv'
    BY <1>1, <1>2, <1>3, <2>1, Zenon DEF AppendInv, TargetHeld, CaptureQuiescent
  <2>4. OwnInv'
    BY <1>1, <1>2, <1>3, <2>1 DEF OwnInv, NoInPlaceBelowTarget
  <2>5. BoundaryInv'
    BY <1>1, <1>3, <2>1, Zenon DEF BoundaryInv
  <2> QED
    BY <2>2, <2>3, <2>4, <2>5, Zenon DEF CaptureInv
<1>13. CASE FinishMsync
  <2>1. /\ cpc = "msync" /\ cpc' = "publish"
        /\ UNCHANGED <<baseBoundary, manifest, stop, watermark, oldBase, target, scan>>
    BY <1>13, Zenon DEF FinishMsync
  <2>2. GateInv'
    BY <1>1, <1>3, <2>1, Zenon DEF GateInv
  <2>3. AppendInv'
    BY <1>1, <1>2, <1>3, <2>1, Zenon DEF AppendInv, TargetHeld, CaptureQuiescent
  <2>4. OwnInv'
    BY <1>1, <1>2, <1>3, <2>1, Zenon DEF OwnInv, NoInPlaceBelowTarget
  <2>5. BoundaryInv'
    BY <1>1, <1>3, <2>1, Zenon DEF BoundaryInv
  <2> QED
    BY <2>2, <2>3, <2>4, <2>5, Zenon DEF CaptureInv
<1>14. CASE PublishManifest
  <2>1. /\ cpc = "publish" /\ cpc' = "advance" /\ manifest' = target
        /\ UNCHANGED <<baseBoundary, stop, watermark, oldBase, target, scan>>
    BY <1>14, Zenon DEF PublishManifest
  <2>2. GateInv'
    BY <1>1, <1>3, <2>1, Zenon DEF GateInv
  <2>3. AppendInv'
    BY <1>1, <1>2, <1>3, <2>1, Zenon DEF AppendInv, TargetHeld, CaptureQuiescent
  <2>4. OwnInv'
    BY <1>1, <1>2, <1>3, <2>1, Zenon DEF OwnInv, NoInPlaceBelowTarget
  <2>5. BoundaryInv'
    BY <1>1, <1>3, <2>1, Zenon DEF BoundaryInv
  <2> QED
    BY <2>2, <2>3, <2>4, <2>5, Zenon DEF CaptureInv
<1>15. CASE AbortCycle
  <2>1. /\ cpc \in {"publish", "msync"} /\ cpc' = "idle" /\ watermark' = oldBase
        /\ UNCHANGED <<baseBoundary, manifest, stop, scan>>
    BY <1>15, Zenon DEF AbortCycle, EndCycle
  <2>2. GateInv'
    BY <1>1, <1>3, <2>1, Zenon DEF GateInv
  <2>3. AppendInv'
    BY <1>1, <1>2, <1>3, <2>1, Zenon DEF AppendInv, TargetHeld, CaptureQuiescent
  <2>4. OwnInv'
    <3>1. watermark' = baseBoundary
      BY <1>3, <2>1, Zenon DEF BoundaryInv
    <3> QED
      BY <1>1, <1>2, <1>3, <2>1, <3>1 DEF OwnInv, NoInPlaceBelowTarget
  <2>5. BoundaryInv'
    BY <1>1, <1>3, <2>1, Zenon DEF BoundaryInv
  <2> QED
    BY <2>2, <2>3, <2>4, <2>5, Zenon DEF CaptureInv
<1>16. CASE AdvanceBase
  <2>1. /\ cpc = "advance" /\ cpc' = "idle" /\ baseBoundary' = target
        /\ UNCHANGED <<manifest, stop, watermark, scan>>
    BY <1>16, Zenon DEF AdvanceBase, EndCycle
  <2>2. GateInv'
    BY <1>1, <1>3, <2>1, Zenon DEF GateInv
  <2>3. AppendInv'
    BY <1>1, <1>2, <1>3, <2>1, Zenon DEF AppendInv, TargetHeld, CaptureQuiescent
  <2>4. OwnInv'
    BY <1>1, <1>2, <1>3, <2>1 DEF OwnInv, NoInPlaceBelowTarget
  <2>5. BoundaryInv'
    BY <1>1, <1>3, <2>1, Zenon DEF BoundaryInv
  <2> QED
    BY <2>2, <2>3, <2>4, <2>5, Zenon DEF CaptureInv
<1>17. ASSUME NEW t \in Writers, ScanSlot(t) PROVE CaptureInv'
  <2>1. /\ scan' = scan \ {t}
        /\ \/ cpc = "scan" /\ t \notin registered
           \/ cpc = "drain" /\ (inPlace[t] = 0 \/ inPlace[t] >= target + 1)
        /\ UNCHANGED <<baseBoundary, manifest, stop, watermark, cpc, oldBase, target>>
    BY <1>17, Zenon DEF ScanSlot
  <2>2. GateInv'
    BY <1>1, <1>3, <2>1, Zenon DEF GateInv
  <2>3. AppendInv'
    BY <1>1, <1>2, <1>3, <2>1, Zenon DEF AppendInv, TargetHeld, CaptureQuiescent
  <2>4. OwnInv'
    BY <1>1, <1>2, <1>3, <2>1 DEF OwnInv, NoInPlaceBelowTarget
  <2>5. BoundaryInv'
    BY <1>1, <1>3, <2>1, Zenon DEF BoundaryInv
  <2> QED
    BY <2>2, <2>3, <2>4, <2>5, Zenon DEF CaptureInv
<1>18. ASSUME NEW o \in Offsets, MsyncRecord(o) PROVE CaptureInv'
  <2>1. UNCHANGED <<baseBoundary, manifest, stop, watermark, cpc, oldBase, target, scan>>
    BY <1>18, Zenon DEF MsyncRecord
  <2>2. GateInv'
    BY <1>1, <1>3, <2>1, Zenon DEF GateInv
  <2>3. AppendInv'
    BY <1>1, <1>2, <1>3, <2>1, Zenon DEF AppendInv, TargetHeld, CaptureQuiescent
  <2>4. OwnInv'
    BY <1>1, <1>2, <1>3, <2>1, Zenon DEF OwnInv, NoInPlaceBelowTarget
  <2>5. BoundaryInv'
    BY <1>1, <1>3, <2>1, Zenon DEF BoundaryInv
  <2> QED
    BY <2>2, <2>3, <2>4, <2>5, Zenon DEF CaptureInv
<1> QED
  BY <1>5, <1>6, <1>7, <1>8, <1>9, <1>10, <1>11, <1>12, <1>13, <1>14, <1>15, <1>16,
     <1>17, <1>18, Zenon DEF CheckpointStep

LEMMA CaptureStep == TypeInv /\ CaptureInv /\ [Next]_vars => CaptureInv'
<1> SUFFICES ASSUME TypeInv, CaptureInv, [Next]_vars PROVE CaptureInv'
  OBVIOUS
<1>1. CASE UNCHANGED <<bytesUsed, baseBoundary, manifest, stop, registered, watermark, inPlace,
                       pc, off, cpc, oldBase, target, scan>>
  <2>1. GateInv' /\ BoundaryInv'
    BY <1>1, Zenon DEF CaptureInv, GateInv, BoundaryInv
  <2>2. AppendInv'
    BY <1>1, Zenon DEF CaptureInv, AppendInv, TargetHeld, CaptureQuiescent
  <2>3. OwnInv'
    BY <1>1, Zenon DEF CaptureInv, OwnInv, NoInPlaceBelowTarget
  <2> QED
    BY <2>1, <2>2, <2>3, Zenon DEF CaptureInv
<1>2. ASSUME NEW o \in Offsets, Writeback(o) PROVE CaptureInv'
  BY <1>1, <1>2, Zenon DEF Writeback
<1>3. CASE UNCHANGED vars
  BY <1>1, <1>3, Zenon DEF vars
<1> QED
  BY <1>2, <1>3, WriterCapture, CheckpointCapture, Zenon DEF Next

\* stop_writers_and_wait() makes the captured target a fully written frontier.
THEOREM CaptureCorrect == Spec => []CaptureQuiescent
<1>1. CaptureInv => CaptureQuiescent
  BY Zenon DEF CaptureInv, AppendInv
<1> QED
  BY TypeInit, TypeStep, CaptureInit, CaptureStep, <1>1, PTL DEF Spec

\* The claimed watermark and the drained barrier keep every in-place write out
\* of the range msync() reads and base_boundary is about to cover.
THEOREM DrainCorrect == Spec => []NoInPlaceBelowTarget
<1>1. CaptureInv => NoInPlaceBelowTarget
  BY Zenon DEF CaptureInv, OwnInv
<1> QED
  BY TypeInit, TypeStep, CaptureInit, CaptureStep, <1>1, PTL DEF Spec

LEMMA BoundaryStep ==
  ASSUME TypeInv, TypeInv', CaptureInv, CaptureInv', [Next]_vars
  PROVE  /\ baseBoundary' >= baseBoundary
         /\ manifest' >= manifest
         /\ manifest' >= baseBoundary'
<1>1. /\ baseBoundary \in Nat /\ manifest \in Nat /\ target \in Nat
      /\ baseBoundary' \in Nat /\ manifest' \in Nat /\ target' \in Nat
  BY Zenon DEF TypeInv, TypeOK
<1>2. cpc = "advance" \/ cpc = "publish" => baseBoundary <= target
  BY Zenon DEF CaptureInv, AppendInv, TargetHeld
<1>3. manifest = IF cpc = "advance" THEN target ELSE baseBoundary
  BY Zenon DEF CaptureInv, BoundaryInv
<1>4. manifest' >= baseBoundary'
  <2>1. /\ cpc' = "advance" => baseBoundary' <= target'
        /\ manifest' = IF cpc' = "advance" THEN target' ELSE baseBoundary'
    BY Zenon DEF CaptureInv, AppendInv, BoundaryInv, TargetHeld
  <2> QED
    BY <1>1, <2>1
<1>5. CASE AdvanceBase
  BY <1>1, <1>2, <1>3, <1>4, <1>5, Zenon DEF AdvanceBase
<1>6. CASE PublishManifest
  BY <1>1, <1>2, <1>3, <1>4, <1>6 DEF PublishManifest
<1>7. CASE ~AdvanceBase /\ ~PublishManifest
  <2>1. baseBoundary' = baseBoundary /\ manifest' = manifest
    <3>1. ASSUME NEW t \in Writers, WriterStep(t)
          PROVE  baseBoundary' = baseBoundary /\ manifest' = manifest
      BY <3>1, Zenon DEF WriterStep, Insert, Update, Remove, AwaitResume, Acquire, CheckStop,
         Reserve, WriteRecord, PublishT1, ReleaseHandle, ReserveWal, EnterInPlace, CheckBase,
         CheckWatermark, UpdateValueAt
    <3>2. CASE CheckpointStep
      BY <1>7, <3>2, Zenon DEF CheckpointStep, ReadOldBase, StopWriters, StartWriterScan,
         StartInPlaceScan, StartScan, CaptureTarget, ResumeWriters, ClaimWatermark, StartMsync,
         FinishMsync, AbortCycle, ScanSlot, MsyncRecord
    <3>3. ASSUME NEW o \in Offsets, Writeback(o)
          PROVE  baseBoundary' = baseBoundary /\ manifest' = manifest
      BY <3>3, Zenon DEF Writeback
    <3>4. CASE UNCHANGED vars
      BY <3>4, Zenon DEF vars
    <3> QED
      BY <3>1, <3>2, <3>3, <3>4, Zenon DEF Next
  <2> QED
    BY <1>1, <1>4, <2>1
<1> QED
  BY <1>5, <1>6, <1>7, Zenon

\* base_boundary and the manifest only ever grow, across aborted cycles too.
THEOREM BoundaryCorrect == Spec => BoundaryMonotone
<1>1. TypeInv /\ TypeInv' /\ CaptureInv /\ CaptureInv' /\ [Next]_vars =>
        [/\ baseBoundary' >= baseBoundary
         /\ manifest' >= manifest
         /\ manifest' >= baseBoundary']_vars
  BY BoundaryStep, Zenon
<1> QED
  BY TypeInit, TypeStep, CaptureInit, CaptureStep, <1>1, PTL DEF Spec, BoundaryMonotone

-----------------------------------------------------------------------------
(* Durability and immutability of the base region.                         *)

\* From the end of the drain on, whatever of the range is no longer dirty is on
\* disk as it is in memory.
SyncInv ==
  /\ \A o \in Offsets : o < manifest => disk[o] = mem[o]
  /\ cpc = "msync" =>
       \A o \in Offsets : o < target => o \in dirty \/ disk[o] = mem[o]
  /\ cpc \in {"publish", "advance"} =>
       \A o \in Offsets : o < target => disk[o] = mem[o]

LEMMA SyncInit == Init => SyncInv
<1> SUFFICES ASSUME Init PROVE SyncInv
  OBVIOUS
<1>1. disk = mem
  BY DEF Init, Fresh
<1> QED
  BY <1>1, Zenon DEF Init, SyncInv

\* An append or an in-place update writes at or above everything the manifest,
\* and from the end of the drain on the target, vouches for.
LEMMA WritesAbove ==
  ASSUME TypeInv, CaptureInv, NEW t \in Writers,
         pc[t] = "write" \/ pc[t] \in InPlaceWriting
  PROVE  /\ off[t] \in Nat /\ manifest \in Nat /\ target \in Nat /\ off[t] >= manifest
         /\ cpc \in {"msync", "publish", "advance"} => off[t] >= target
<1>1. /\ off[t] \in Nat /\ manifest \in Nat /\ target \in Nat /\ baseBoundary \in Nat
  BY Zenon DEF TypeInv, TypeOK
<1>2. off[t] >= baseBoundary
  BY Zenon DEF CaptureInv, AppendInv, OwnInv
<1>3. cpc \in {"msync", "publish", "advance"} => off[t] >= target
  BY Zenon DEF CaptureInv, AppendInv, CaptureQuiescent, TargetHeld, OwnInv, NoInPlaceBelowTarget
<1>4. manifest = IF cpc = "advance" THEN target ELSE baseBoundary
  BY Zenon DEF CaptureInv, BoundaryInv
<1> QED
  BY <1>1, <1>2, <1>3, <1>4, Zenon

\* The steps that leave the mapping, the file and the range being copied alone.
LEMMA SyncFrame ==
  ASSUME SyncInv, UNCHANGED <<mem, disk, manifest, cpc, target, dirty>> PROVE SyncInv'
BY Zenon DEF SyncInv

LEMMA WriterFrame ==
  ASSUME NEW t \in Writers, WriterStep(t)
  PROVE  /\ UNCHANGED <<disk, manifest, cpc, target, dirty>>
         /\ UNCHANGED mem \/ WriteRecord(t) \/ UpdateValueAt(t)
<1>1. UNCHANGED <<disk, manifest, cpc, target, dirty>>
  BY Zenon DEF WriterStep, Insert, Update, Remove, AwaitResume, Acquire, CheckStop, Reserve,
     WriteRecord, PublishT1, ReleaseHandle, ReserveWal, EnterInPlace, CheckBase,
     CheckWatermark, UpdateValueAt
<1>2. UNCHANGED mem \/ WriteRecord(t) \/ UpdateValueAt(t)
  BY Zenon DEF WriterStep, Insert, Update, Remove, AwaitResume, Acquire, CheckStop, Reserve,
     PublishT1, ReleaseHandle, ReserveWal, EnterInPlace, CheckBase, CheckWatermark
<1> QED
  BY <1>1, <1>2, Zenon

\* The two steps that write the mapping write one record, above the base.
LEMMA MemWrite ==
  ASSUME TypeInv, CaptureInv, NEW t \in Writers, WriteRecord(t) \/ UpdateValueAt(t)
  PROVE  /\ pc[t] = "write" \/ pc[t] \in InPlaceWriting
         /\ \A o \in Offsets : o # off[t] => mem'[o] = mem[o]
<1>1. mem \in [Offsets -> Records]
  BY Zenon DEF TypeInv, TypeOK
<1>2. pc[t] = "write" \/ pc[t] \in InPlaceWriting
  BY Zenon DEF WriteRecord, UpdateValueAt, InPlaceWriting
<1>3. \E r : mem' = [mem EXCEPT ![off[t]] = r]
  BY Zenon DEF WriteRecord, UpdateValueAt
<1> QED
  BY <1>1, <1>2, <1>3, Zenon

LEMMA SyncStep ==
  ASSUME TypeInv, CaptureInv, SyncInv, [Next]_vars PROVE SyncInv'
<1>1. /\ manifest \in Nat /\ target \in Nat /\ oldBase \in Nat /\ Offsets \subseteq Int
      /\ mem \in [Offsets -> Records] /\ disk \in [Offsets -> Records]
  BY CapacityAssumption DEF TypeInv, TypeOK, Offsets
<1>2. ASSUME NEW t \in Writers, WriterStep(t) PROVE SyncInv'
  <2>1. CASE UNCHANGED mem
    BY <1>2, <2>1, WriterFrame, SyncFrame, Zenon
  <2>2. CASE WriteRecord(t) \/ UpdateValueAt(t)
    <3>1. /\ off[t] \in Nat /\ off[t] >= manifest
          /\ cpc \in {"msync", "publish", "advance"} => off[t] >= target
          /\ \A o \in Offsets : o # off[t] => mem'[o] = mem[o]
      BY <2>2, MemWrite, WritesAbove, Zenon
    <3>2. UNCHANGED <<disk, manifest, cpc, target, dirty>>
      BY <1>2, WriterFrame, Zenon
    <3> QED
      BY <1>1, <3>1, <3>2 DEF SyncInv
  <2> QED
    BY <1>2, <2>1, <2>2, WriterFrame, Zenon
<1>3. ASSUME CheckpointStep PROVE SyncInv'
  <2>1. UNCHANGED mem
    BY <1>3, Zenon DEF CheckpointStep, ReadOldBase, StopWriters, StartWriterScan,
       StartInPlaceScan, StartScan, CaptureTarget, ResumeWriters, ClaimWatermark, StartMsync,
       FinishMsync, PublishManifest, AbortCycle, AdvanceBase, EndCycle, ScanSlot, MsyncRecord,
       CkptUnchanged
  <2>2. CASE StartMsync
    <3>1. /\ cpc' = "msync" /\ dirty' = {o \in Offsets : oldBase <= o /\ o < target}
          /\ UNCHANGED <<disk, manifest, target>>
      BY <2>2, Zenon DEF StartMsync
    <3>2. oldBase = manifest
      BY <2>2, Zenon DEF StartMsync, CaptureInv, BoundaryInv
    <3> QED
      BY <1>1, <2>1, <3>1, <3>2 DEF SyncInv
  <2>3. CASE FinishMsync
    <3>1. /\ cpc = "msync" /\ dirty = {} /\ cpc' = "publish"
          /\ UNCHANGED <<disk, manifest, target>>
      BY <2>3, Zenon DEF FinishMsync
    <3> QED
      BY <2>1, <3>1, Zenon DEF SyncInv
  <2>4. CASE PublishManifest
    <3>1. /\ cpc = "publish" /\ cpc' = "advance" /\ manifest' = target
          /\ UNCHANGED <<disk, target>>
      BY <2>4, Zenon DEF PublishManifest
    <3> QED
      BY <2>1, <3>1, Zenon DEF SyncInv
  <2>5. ASSUME NEW o \in Offsets, MsyncRecord(o) PROVE SyncInv'
    <3>1. /\ cpc = "msync" /\ disk' = [disk EXCEPT ![o] = mem[o]] /\ dirty' = dirty \ {o}
          /\ UNCHANGED <<cpc, manifest, target>>
      BY <2>5, Zenon DEF MsyncRecord
    <3> QED
      BY <1>1, <2>1, <3>1, Zenon DEF SyncInv
  <2>6. CASE /\ UNCHANGED <<disk, manifest>>
             /\ \/ UNCHANGED <<cpc, target, dirty>>
                \/ cpc' \notin {"msync", "publish", "advance"}
    BY <2>1, <2>6, Zenon DEF SyncInv
  <2>7. \/ StartMsync \/ FinishMsync \/ PublishManifest \/ \E o \in Offsets : MsyncRecord(o)
        \/ /\ UNCHANGED <<disk, manifest>>
           /\ \/ UNCHANGED <<cpc, target, dirty>>
              \/ cpc' \notin {"msync", "publish", "advance"}
    BY <1>3, Zenon DEF CheckpointStep, ReadOldBase, StopWriters, StartWriterScan,
       StartInPlaceScan, StartScan, CaptureTarget, ResumeWriters, ClaimWatermark,
       AbortCycle, AdvanceBase, EndCycle, ScanSlot
  <2> QED
    BY <2>2, <2>3, <2>4, <2>5, <2>6, <2>7, Zenon
<1>4. ASSUME NEW o \in Offsets, Writeback(o) PROVE SyncInv'
  <2>1. /\ disk' = [disk EXCEPT ![o] = mem[o]]
        /\ UNCHANGED <<mem, manifest, cpc, target, dirty>>
    BY <1>4, Zenon DEF Writeback
  <2> QED
    BY <1>1, <2>1, Zenon DEF SyncInv
<1>5. CASE UNCHANGED vars
  BY <1>5, SyncFrame, Zenon DEF vars
<1> QED
  BY <1>2, <1>3, <1>4, <1>5, Zenon DEF Next

LEMMA BaseStep ==
  ASSUME TypeInv, CaptureInv, SyncInv, [Next]_vars, NEW o \in Offsets,
         o < manifest \/ o < baseBoundary
  PROVE  mem'[o] = mem[o] /\ disk'[o] = disk[o]
<1>1. /\ o \in Int /\ manifest \in Nat /\ baseBoundary \in Nat /\ target \in Nat
      /\ disk \in [Offsets -> Records]
  BY CapacityAssumption DEF TypeInv, TypeOK, Offsets
<1>2. manifest >= baseBoundary
  <2>1. /\ cpc = "advance" => baseBoundary <= target
        /\ manifest = IF cpc = "advance" THEN target ELSE baseBoundary
    BY Zenon DEF CaptureInv, AppendInv, TargetHeld, BoundaryInv
  <2> QED
    BY <1>1, <2>1
<1>3. o < manifest
  BY <1>1, <1>2
<1>4. disk[o] = mem[o]
  BY <1>3, Zenon DEF SyncInv
<1>5. ASSUME NEW t \in Writers, WriterStep(t) PROVE mem'[o] = mem[o] /\ disk'[o] = disk[o]
  <2>1. ASSUME WriteRecord(t) \/ UpdateValueAt(t) PROVE mem'[o] = mem[o]
    BY <1>1, <1>3, <2>1, MemWrite, WritesAbove
  <2> QED
    BY <1>5, <2>1, WriterFrame, Zenon
<1>6. ASSUME NEW p \in Offsets, MsyncRecord(p) \/ Writeback(p)
      PROVE  mem'[o] = mem[o] /\ disk'[o] = disk[o]
  <2>1. mem' = mem /\ disk' = [disk EXCEPT ![p] = mem[p]]
    BY <1>6, Zenon DEF MsyncRecord, Writeback, CkptUnchanged
  <2> QED
    BY <1>1, <1>4, <2>1, Zenon
<1>7. CASE CheckpointStep /\ \A p \in Offsets : ~MsyncRecord(p)
  <2>1. UNCHANGED <<mem, disk>>
    BY <1>7, Zenon DEF CheckpointStep, ReadOldBase, StopWriters, StartWriterScan,
       StartInPlaceScan, StartScan, CaptureTarget, ResumeWriters, ClaimWatermark, StartMsync,
       FinishMsync, PublishManifest, AbortCycle, AdvanceBase, EndCycle, ScanSlot,
       CkptUnchanged
  <2> QED
    BY <2>1, Zenon
<1>8. CASE UNCHANGED vars
  BY <1>8, Zenon DEF vars
<1> QED
  BY <1>5, <1>6, <1>7, <1>8, Zenon DEF Next

\* No byte the manifest or base_boundary vouches for is written again.
THEOREM BaseImmutableCorrect == Spec => BaseImmutable
<1>1. TypeInv /\ CaptureInv /\ SyncInv /\ [Next]_vars =>
        [\A o \in Offsets : o < manifest \/ o < baseBoundary =>
            mem'[o] = mem[o] /\ disk'[o] = disk[o]]_vars
  BY BaseStep, Zenon
<1> QED
  BY TypeInit, TypeStep, CaptureInit, CaptureStep, SyncInit, SyncStep, <1>1, PTL
     DEF Spec, BaseImmutable
=============================================================================
