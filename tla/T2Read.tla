------------------------------- MODULE T2Read -------------------------------
(***************************************************************************)
(* get_impl() against the T2 of T2Capture: a T1 lookup names an offset and *)
(* the record is read either without any protection, because it lies below *)
(* base_boundary, or under the record's seqlock.  The boundary is read     *)
(* once, after the lookup, so a checkpoint may move it at any point of the *)
(* read.  Scans read each record of a batch the same way.                  *)
(***************************************************************************)
EXTENDS T2Capture

CONSTANT Readers

VARIABLES rpc, rkey, roff,   \* per reader: step, key asked for, offset found
          rver, rlo, rhi,    \* version and words read so far
          valid              \* history: values the key has had since the lookup

readVars == <<rpc, rkey, roff, rver, rlo, rhi, valid>>

InitRead ==
  /\ Init
  /\ rpc = [r \in Readers |-> "idle"] /\ rkey = [r \in Readers |-> Nil]
  /\ roff = [r \in Readers |-> 0] /\ rver = [r \in Readers |-> 0]
  /\ rlo = [r \in Readers |-> Nil] /\ rhi = [r \in Readers |-> Nil]
  /\ valid = [r \in Readers |-> {}]

RGoto(r, step) == rpc' = [rpc EXCEPT ![r] = step]

\* T1 lookup; a key that is not there answers at once and is no step here.
\* While the record is being rewritten in place the value is the old one,
\* which is the one the newest WAL record holds.
Lookup(r, k) ==
  /\ rpc[r] = "idle"
  /\ t1[k] # NotFound
  /\ rkey' = [rkey EXCEPT ![r] = k]
  /\ roff' = [roff EXCEPT ![r] = t1[k]]
  /\ valid' = [valid EXCEPT ![r] =
                 IF mem[t1[k]].ver % 2 = 0 THEN {mem[t1[k]].lo} ELSE {logged[k]}]
  /\ RGoto(r, "boundary")
  /\ UNCHANGED <<vars, rver, rlo, rhi>>

\* The record's bytes straight from one of the mappings, which one depends on its
\* size and on what is resident, or by pread(); they all show the same file.
ReadBase(r) == roff[r] < baseBoundary /\ RGoto(r, "baseLo")

\* try_read_base_record(): below the boundary without protection; when no mapping
\* or pread() serves (best effort at open, short read) the seqlock path does, as
\* for any offset.
ReadBoundary(r) ==
  /\ rpc[r] = "boundary"
  /\ ReadBase(r) \/ RGoto(r, "ver1")
  /\ UNCHANGED <<vars, rkey, roff, rver, rlo, rhi, valid>>

\* read_t2_record_seqlock(): an odd version waits, a changed one retries.
FirstVersion(r) ==
  /\ rpc[r] = "ver1"
  /\ mem[roff[r]].ver % 2 = 0
  /\ rver' = [rver EXCEPT ![r] = mem[roff[r]].ver]
  /\ RGoto(r, "lo")
  /\ UNCHANGED <<vars, rkey, roff, rlo, rhi, valid>>

CopyLo(r) ==
  /\ rpc[r] \in {"lo", "baseLo"}
  /\ rlo' = [rlo EXCEPT ![r] = mem[roff[r]].lo]
  /\ RGoto(r, IF rpc[r] = "lo" THEN "hi" ELSE "baseHi")
  /\ UNCHANGED <<vars, rkey, roff, rver, rhi, valid>>

CopyHi(r) ==
  /\ rpc[r] \in {"hi", "baseHi"}
  /\ rhi' = [rhi EXCEPT ![r] = mem[roff[r]].hi]
  /\ RGoto(r, IF rpc[r] = "hi" THEN "ver2" ELSE "done")
  /\ UNCHANGED <<vars, rkey, roff, rver, rlo, valid>>

\* Mutant: the version is not read a second time.
SecondVersionSkipped(r) ==
  /\ rpc[r] = "ver2"
  /\ RGoto(r, "done")
  /\ UNCHANGED <<vars, rkey, roff, rver, rlo, rhi, valid>>

SecondVersion(r) ==
  /\ rpc[r] = "ver2"
  /\ RGoto(r, IF mem[roff[r]].ver = rver[r] THEN "done" ELSE "ver1")
  /\ UNCHANGED <<vars, rkey, roff, rver, rlo, rhi, valid>>

\* The callback has the value; the get is over.
Answer(r) ==
  /\ rpc[r] = "done"
  /\ RGoto(r, "idle")
  /\ rkey' = [rkey EXCEPT ![r] = Nil] /\ roff' = [roff EXCEPT ![r] = 0]
  /\ rver' = [rver EXCEPT ![r] = 0]
  /\ rlo' = [rlo EXCEPT ![r] = Nil] /\ rhi' = [rhi EXCEPT ![r] = Nil]
  /\ valid' = [valid EXCEPT ![r] = {}]
  /\ UNCHANGED vars

ReaderStep(r) ==
  \/ \E k \in Keys : Lookup(r, k)
  \/ ReadBoundary(r) \/ FirstVersion(r) \/ CopyLo(r) \/ CopyHi(r)
  \/ SecondVersion(r) \/ Answer(r)

\* A step of the store adds the value it leaves visible to the history of every
\* get in flight for that key.
StoreStep ==
  /\ Next
  /\ valid' = [r \in Readers |->
       LET k == rkey[r]
       IN IF k = Nil THEN {}
          ELSE IF t1'[k] = NotFound THEN valid[r] \cup {Nil}
          ELSE IF mem'[t1'[k]].ver % 2 = 0 THEN valid[r] \cup {mem'[t1'[k]].lo}
          ELSE valid[r]]
  /\ UNCHANGED <<rpc, rkey, roff, rver, rlo, rhi>>

NextRead == StoreStep \/ \E r \in Readers : ReaderStep(r)
SpecRead == InitRead /\ [][NextRead]_<<vars, readVars>>
FairSpecRead == SpecRead /\ Fairness

-----------------------------------------------------------------------------
\* A get never returns a torn value, and the value it returns was the key's
\* value at some moment of the call, though it may read the boundary before a
\* checkpoint moves it and the bytes after (get_impl's concurrency note).
GetAtomic ==
  \A r \in Readers :
    rpc[r] = "done" => rlo[r] = rhi[r] /\ rlo[r] \in valid[r]
=============================================================================
