---------------------------- MODULE StorageProofs -----------------------------
(***************************************************************************)
(* Proofs about Storage, for any keys, any number of stores, retrieves and *)
(* other calls, any limits on parallel operations and any faults: the      *)
(* types, the inductive invariant, the steps of the writes, the steps of   *)
(* the reads, and the theorems.                                            *)
(***************************************************************************)
EXTENDS Storage, SequenceFacts, FiniteSetTheorems

(***************************************************************************)
(* Types. The functions in the queues are told apart by op.                *)
(***************************************************************************)

Files == {None, Partial} \cup Nat
Filters == {None} \cup SUBSET Keys

WriteFunctions == [op : {"write", "create"}, n : Nat]
SynchronizeFunctions == [op : {"synchronize"}]
BackgroundFunctions == WriteFunctions \cup SynchronizeFunctions \cup [op : {"shrink"}]

BodyStoredFunctions == [op : {"bodyStored"}, n : Nat]
SynchronizedFunctions == [op : {"synchronized"}, records : SUBSET Keys, bodies : SUBSET Keys]
AnswerFunctions == [op : {"answer"}, r : Nat, n : Nat]
FinishReadFunctions == [op : {"finishRead"}, r : Nat]
MainWriteFunctions == BodyStoredFunctions \cup SynchronizedFunctions
MainReadFunctions == AnswerFunctions \cup FinishReadFunctions
MainFunctions == MainWriteFunctions \cup MainReadFunctions \cup [op : {"shrunk"}]

IOReadFunctions ==
    [op : {"read", "getBody"}, r : Nat, getBody : BOOLEAN] \cup [op : {"readRecord"}, r : Nat, record : Files]
IOFunctions == IOReadFunctions \cup [op : {"clear"}]
SerialFunctions == [op : {"deleteFile", "unlink"}, k : Keys]

Members ==
    [capacity : BOOLEAN, recordFilter : Filters, bodyFilter : Filters,
     added : SUBSET Keys, addedBodies : SUBSET Keys,
     synchronizing : BOOLEAN, shrinking : BOOLEAN,
     pendingWrites : Seq(Nat), activeWrites : SUBSET Nat,
     pendingReads : [0 .. maximumRetrievePriority -> Seq(Nat)], activeReads : FiniteSubsetsOf(Nat),
     writeTimer : BOOLEAN, readTimer : BOOLEAN,
     io : Seq(IOFunctions), background : Seq(BackgroundFunctions),
     serial : Seq(SerialFunctions), main : Seq(MainFunctions),
     wiped : BOOLEAN, removed : [Keys -> Files], calls : Nat, shrinks : Nat]

Writes ==
    [key : Keys, activeCount : Int, at : {"memory", "created", "written"},
     inline : BOOLEAN, written : BOOLEAN]

Reads ==
    [key : Keys, activeCount : Int, file : Files, reading : BOOLEAN, record : Files, body : Files,
     canceled : BOOLEAN, answers : Seq({None} \cup [header : Files, body : Files])]

TypeOK ==
    /\ s \in Members
    /\ writes \in Seq(Writes)
    /\ reads \in Seq(Reads)
    /\ records \in [Keys -> Files]
    /\ bodies \in [Keys -> Files]


(***************************************************************************)
(* Invariants of the members m, the writes w, the reads rs, the records    *)
(* files and the body links, which what the handlers do step by step keeps *)
(* as well.                                                                *)
(***************************************************************************)

(* The pending writes are in the order of the stores, the latest first,    *)
(* and the one that is active, if there is one, is older than all of them. *)
PendingInv(m, w) ==
    /\ Descending(m.pendingWrites)
    /\ Range(m.pendingWrites) \subseteq DOMAIN w
    /\ m.activeWrites \subseteq DOMAIN w
    /\ \A p \in Range(m.pendingWrites), n \in m.activeWrites : p > n
    /\ \A n, o \in m.activeWrites : n = o

(* What has to happen before a write is over.                              *)
RecordToCome(m, w, n) == w[n].at # "memory" \/ [op |-> "create", n |-> n] \in Range(m.background)
BodyToCome(m, n) == [op |-> "bodyStored", n |-> n] \in Range(m.main)

(* activeCount counts it, and whoever is still to do something for a write *)
(* finds the write active.                                                 *)
ActiveInv(m, w) ==
    /\ Once(m.background, WriteFunctions)
    /\ \A f \in Range(m.background) \cap WriteFunctions :
           /\ f.n \in m.activeWrites /\ w[f.n].at = "memory"
           /\ f.op = "write" => w[f.n].activeCount = 0
    /\ Once(m.main, BodyStoredFunctions)
    /\ \A f \in Range(m.main) \cap BodyStoredFunctions : f.n \in m.activeWrites
    /\ \A n \in DOMAIN w :
           /\ w[n].at # "memory" => n \in m.activeWrites
           /\ w[n].activeCount = (IF RecordToCome(m, w, n) THEN 1 ELSE 0) + (IF BodyToCome(m, n) THEN 1 ELSE 0)

(* The record of a key comes from a store of this key, and what is still   *)
(* to be written is not older.                                             *)
RecordsInv(m, w, files) == \A k \in Keys :
    /\ files[k] \in Nat \ {0} => files[k] \in DOMAIN w
    /\ files[k] \in DOMAIN w =>
           /\ w[files[k]].key = k
           /\ \A n \in Range(m.pendingWrites) \cup m.activeWrites : n >= files[k]

(* A filter of these keys misses neither what is on the disk nor what is   *)
(* about to be written there.                                              *)
HasRecord(w, files, k) == files[k] = 0 \/ files[k] \in DOMAIN w
Covers(m, w, files, keys) ==
    /\ \A k \in Keys : HasRecord(w, files, k) => k \in keys
    /\ \A f \in Range(m.background) \cap WriteFunctions : w[f.n].key \in keys
CoversBodies(m, w, links, keys) == \A k \in Keys : links[k] # None =>
    k \in keys \/ \E f \in Range(m.main) \cap BodyStoredFunctions : w[f.n].key = k

(* The writes whose keys the end of a synchronization will not add.        *)
NotAdded(m, w) == {f \in WriteFunctions : w[f.n].key \notin m.added}

(* So do the filters, those that a synchronization has made and not yet    *)
(* installed included. Writes queued after a synchronization are among the *)
(* keys added since it began.                                              *)
FilterInv(m, w, files, links) ==
    /\ ~m.wiped /\ m.recordFilter # None => Covers(m, w, files, m.recordFilter)
    /\ ~m.wiped /\ m.bodyFilter # None => CoversBodies(m, w, links, m.bodyFilter)
    /\ \A f \in Range(m.main) \cap SynchronizedFunctions :
           /\ m.synchronizing
           /\ Covers(m, w, files, f.records \cup m.added)
           /\ CoversBodies(m, w, links, f.bodies \cup m.addedBodies)
    /\ Range(m.background) \cap SynchronizeFunctions # {} =>
           m.synchronizing /\ Range(m.main) \cap SynchronizedFunctions = {}
    /\ NoneBehind(m.background, SynchronizeFunctions, NotAdded(m, w))
    /\ Once(m.main, SynchronizedFunctions)
    /\ Once(m.background, SynchronizeFunctions)

(* A read is pending, or active, or is to be answered from memory, and     *)
(* only one of these, once.                                                *)
PendingReadsInv(m, rs) ==
    /\ \A p \in DOMAIN m.pendingReads :
           /\ IsInjective(m.pendingReads[p])
           /\ \A r \in Range(m.pendingReads[p]) :
                  /\ r \in DOMAIN rs /\ r \notin m.activeReads
                  /\ ~rs[r].canceled /\ rs[r].answers = <<>>
    /\ \A p, q \in DOMAIN m.pendingReads : p # q => Range(m.pendingReads[p]) \cap Range(m.pendingReads[q]) = {}

IOOf(op, r) == {f \in IOReadFunctions : f.op = op /\ f.r = r}
HasIO(m, op, r) == Range(m.io) \cap IOOf(op, r) # {}

(* For an active read what its activeCount counts is still to come.        *)
ActiveReadsInv(m, rs) ==
    /\ m.activeReads \subseteq DOMAIN rs
    /\ \A r \in m.activeReads : rs[r].answers # <<>> => rs[r].canceled
    /\ \A f \in Range(m.io) \cap IOReadFunctions :
           /\ f.r \in m.activeReads
           /\ f.op = "read" => rs[f.r].activeCount = 0
    /\ \A op \in {"read", "getBody", "readRecord"}, r \in DOMAIN rs : Once(m.io, IOOf(op, r))
    /\ \A r \in DOMAIN rs :
           /\ rs[r].reading => r \in m.activeReads /\ ~HasIO(m, "readRecord", r)
           /\ rs[r].activeCount = (IF rs[r].reading \/ HasIO(m, "readRecord", r) THEN 1 ELSE 0)
                                  + (IF HasIO(m, "getBody", r) THEN 1 ELSE 0)

FinishReadOf(r) == {f \in FinishReadFunctions : f.r = r}
AnswerOf(r) == {f \in AnswerFunctions : f.r = r}

MainReadsInv(m, rs, w) ==
    /\ \A f \in Range(m.main) \cap FinishReadFunctions :
           /\ f.r \in m.activeReads /\ rs[f.r].activeCount = 0
           /\ ~HasIO(m, "read", f.r)
    /\ \A f \in Range(m.main) \cap AnswerFunctions :
           /\ f.r \in DOMAIN rs /\ f.r \notin m.activeReads
           /\ rs[f.r].answers = <<>>
           /\ f.n \in DOMAIN w /\ w[f.n].key = rs[f.r].key
           /\ \A p \in DOMAIN m.pendingReads : f.r \notin Range(m.pendingReads[p])
    /\ \A r \in DOMAIN rs : Once(m.main, FinishReadOf(r)) /\ Once(m.main, AnswerOf(r))

(* What a read of key k may find, and what it has found once the checksums *)
(* have passed.                                                            *)
IsFileOf(w, file, k) == file \in {None, Partial, 0} \/ (file \in DOMAIN w /\ w[file].key = k)
IsRecordOf(w, record, k) == record \in {None} \cup Nat /\ IsFileOf(w, record, k)

(* What has been read so far is of the key asked for.                      *)
FoundInv(m, rs, w) ==
    /\ \A r \in DOMAIN rs :
           /\ IsFileOf(w, rs[r].file, rs[r].key) /\ IsRecordOf(w, rs[r].record, rs[r].key)
           /\ Len(rs[r].answers) <= 1
           /\ \A answer \in Range(rs[r].answers) \ {None} :
                  answer.header \in Nat /\ answer.header = answer.body /\ IsFileOf(w, answer.header, rs[r].key)
    /\ \A f \in Range(m.io) \cap IOReadFunctions :
           f.op = "readRecord" => IsRecordOf(w, f.record, rs[f.r].key)

WriteInv == PendingInv(s, writes) /\ ActiveInv(s, writes) /\ RecordsInv(s, writes, records)
DiskInv == FilterInv(s, writes, records, bodies)
ReadInv ==
    PendingReadsInv(s, reads) /\ ActiveReadsInv(s, reads) /\ MainReadsInv(s, reads, writes) /\ FoundInv(s, reads, writes)
Inv == TypeOK /\ WriteInv /\ DiskInv /\ ReadInv

(* What TypeOK says, field by field, and back.                             *)
LEMMA FieldTypes ==
    ASSUME NEW m \in Members
    PROVE  /\ m.capacity \in BOOLEAN /\ m.recordFilter \in Filters /\ m.bodyFilter \in Filters
           /\ m.added \in SUBSET Keys /\ m.addedBodies \in SUBSET Keys
           /\ m.synchronizing \in BOOLEAN /\ m.shrinking \in BOOLEAN
           /\ m.pendingWrites \in Seq(Nat) /\ m.activeWrites \in SUBSET Nat
           /\ m.pendingReads \in [0 .. maximumRetrievePriority -> Seq(Nat)]
           /\ m.activeReads \in FiniteSubsetsOf(Nat)
           /\ m.writeTimer \in BOOLEAN /\ m.readTimer \in BOOLEAN
           /\ m.io \in Seq(IOFunctions) /\ m.background \in Seq(BackgroundFunctions)
           /\ m.serial \in Seq(SerialFunctions) /\ m.main \in Seq(MainFunctions)
           /\ m.wiped \in BOOLEAN /\ m.removed \in [Keys -> Files]
           /\ m.calls \in Nat /\ m.shrinks \in Nat
  BY DEF Members

LEMMA PostIO ==
    ASSUME NEW m \in Members, NEW f \in IOFunctions
    PROVE  /\ Post(m, "io", f) \in Members
           /\ Post(m, "io", f) = [m EXCEPT !.io = Append(m.io, f)]
<1>1. Append(m.io, f) \in Seq(IOFunctions)
  BY FieldTypes, AppendProperties
<1> QED
  BY <1>1 DEF Members, Post

LEMMA PostBackground ==
    ASSUME NEW m \in Members, NEW f \in BackgroundFunctions
    PROVE  /\ Post(m, "background", f) \in Members
           /\ Post(m, "background", f) = [m EXCEPT !.background = Append(m.background, f)]
<1>1. Append(m.background, f) \in Seq(BackgroundFunctions)
  BY FieldTypes, AppendProperties
<1> QED
  BY <1>1 DEF Members, Post

LEMMA PostSerial ==
    ASSUME NEW m \in Members, NEW f \in SerialFunctions
    PROVE  /\ Post(m, "serial", f) \in Members
           /\ Post(m, "serial", f) = [m EXCEPT !.serial = Append(m.serial, f)]
<1>1. Append(m.serial, f) \in Seq(SerialFunctions)
  BY FieldTypes, AppendProperties
<1> QED
  BY <1>1 DEF Members, Post

LEMMA PostMain ==
    ASSUME NEW m \in Members, NEW f \in MainFunctions
    PROVE  /\ Post(m, "main", f) \in Members
           /\ Post(m, "main", f) = [m EXCEPT !.main = Append(m.main, f)]
<1>1. Append(m.main, f) \in Seq(MainFunctions)
  BY FieldTypes, AppendProperties
<1> QED
  BY <1>1 DEF Members, Post

LEMMA PoppedType ==
    ASSUME TypeOK
    PROVE  /\ s.io # <<>> => /\ Popped("io") \in Members /\ Popped("io") = [s EXCEPT !.io = Tail(s.io)]
                             /\ Tail(s.io) \in Seq(IOFunctions) /\ Head(s.io) \in IOFunctions
           /\ s.background # <<>> =>
                  /\ Popped("background") \in Members
                  /\ Popped("background") = [s EXCEPT !.background = Tail(s.background)]
                  /\ Tail(s.background) \in Seq(BackgroundFunctions) /\ Head(s.background) \in BackgroundFunctions
           /\ s.serial # <<>> =>
                  /\ Popped("serial") \in Members /\ Popped("serial") = [s EXCEPT !.serial = Tail(s.serial)]
                  /\ Tail(s.serial) \in Seq(SerialFunctions) /\ Head(s.serial) \in SerialFunctions
           /\ s.main # <<>> =>
                  /\ Popped("main") \in Members /\ Popped("main") = [s EXCEPT !.main = Tail(s.main)]
                  /\ Tail(s.main) \in Seq(MainFunctions) /\ Head(s.main) \in MainFunctions
<1> USE DEF TypeOK
<1>1. ASSUME s.io # <<>>
      PROVE  /\ Popped("io") \in Members /\ Popped("io") = [s EXCEPT !.io = Tail(s.io)]
             /\ Tail(s.io) \in Seq(IOFunctions) /\ Head(s.io) \in IOFunctions
  <2>1. Tail(s.io) \in Seq(IOFunctions) /\ Head(s.io) \in IOFunctions
    BY <1>1, FieldTypes, HeadTailProperties
  <2> QED
    BY <2>1 DEF Members, Popped
<1>2. ASSUME s.background # <<>>
      PROVE  /\ Popped("background") \in Members
             /\ Popped("background") = [s EXCEPT !.background = Tail(s.background)]
             /\ Tail(s.background) \in Seq(BackgroundFunctions) /\ Head(s.background) \in BackgroundFunctions
  <2>1. Tail(s.background) \in Seq(BackgroundFunctions) /\ Head(s.background) \in BackgroundFunctions
    BY <1>2, FieldTypes, HeadTailProperties
  <2> QED
    BY <2>1 DEF Members, Popped
<1>3. ASSUME s.serial # <<>>
      PROVE  /\ Popped("serial") \in Members /\ Popped("serial") = [s EXCEPT !.serial = Tail(s.serial)]
             /\ Tail(s.serial) \in Seq(SerialFunctions) /\ Head(s.serial) \in SerialFunctions
  <2>1. Tail(s.serial) \in Seq(SerialFunctions) /\ Head(s.serial) \in SerialFunctions
    BY <1>3, FieldTypes, HeadTailProperties
  <2> QED
    BY <2>1 DEF Members, Popped
<1>4. ASSUME s.main # <<>>
      PROVE  /\ Popped("main") \in Members /\ Popped("main") = [s EXCEPT !.main = Tail(s.main)]
             /\ Tail(s.main) \in Seq(MainFunctions) /\ Head(s.main) \in MainFunctions
  <2>1. Tail(s.main) \in Seq(MainFunctions) /\ Head(s.main) \in MainFunctions
    BY <1>4, FieldTypes, HeadTailProperties
  <2> QED
    BY <2>1 DEF Members, Popped
<1> QED
  BY <1>1, <1>2, <1>3, <1>4

LEMMA ElementTypes ==
    ASSUME TypeOK
    PROVE  /\ \A n \in DOMAIN writes : n \in Nat \ {0} /\ writes[n] \in Writes
           /\ \A r \in DOMAIN reads : r \in Nat \ {0} /\ reads[r] \in Reads
           /\ DOMAIN writes = 1 .. Len(writes) /\ Len(writes) \in Nat
           /\ DOMAIN reads = 1 .. Len(reads) /\ Len(reads) \in Nat
<1>1. DOMAIN writes = 1 .. Len(writes) /\ Len(writes) \in Nat
  BY LenProperties DEF TypeOK
<1>2. DOMAIN reads = 1 .. Len(reads) /\ Len(reads) \in Nat
  BY LenProperties DEF TypeOK
<1>3. \A n \in DOMAIN writes : writes[n] \in Writes
  BY <1>1, ElementOfSeq DEF TypeOK
<1>4. \A r \in DOMAIN reads : reads[r] \in Reads
  BY <1>2, ElementOfSeq DEF TypeOK
<1> QED
  BY <1>1, <1>2, <1>3, <1>4

LEMMA AddToRecordFilterEffect ==
    ASSUME NEW m \in Members, NEW k \in Keys, NEW a, a = AddToRecordFilter(m, k)
    PROVE  /\ a \in Members
           /\ a.recordFilter = Add(m.recordFilter, k)
           /\ a.added = IF m.synchronizing THEN m.added \cup {k} ELSE m.added
           /\ a.bodyFilter = m.bodyFilter /\ a.addedBodies = m.addedBodies
           /\ a.synchronizing = m.synchronizing /\ a.wiped = m.wiped /\ a.shrinking = m.shrinking
           /\ a.pendingWrites = m.pendingWrites /\ a.activeWrites = m.activeWrites
           /\ a.pendingReads = m.pendingReads /\ a.activeReads = m.activeReads
           /\ a.io = m.io /\ a.background = m.background /\ a.main = m.main
<1> DEFINE added == IF m.synchronizing THEN m.added \cup {k} ELSE m.added
<1>1. Add(m.recordFilter, k) \in Filters /\ added \in SUBSET Keys
  BY FieldTypes DEF Add, Filters
<1>2. a = [m EXCEPT !.recordFilter = Add(m.recordFilter, k), !.added = added]
  BY DEF AddToRecordFilter
<1> HIDE DEF added
<1>3. /\ a \in Members
      /\ a.recordFilter = Add(m.recordFilter, k) /\ a.added = added
      /\ a.bodyFilter = m.bodyFilter /\ a.addedBodies = m.addedBodies
      /\ a.synchronizing = m.synchronizing /\ a.wiped = m.wiped /\ a.shrinking = m.shrinking
      /\ a.pendingWrites = m.pendingWrites /\ a.activeWrites = m.activeWrites
      /\ a.pendingReads = m.pendingReads /\ a.activeReads = m.activeReads
      /\ a.io = m.io /\ a.background = m.background /\ a.main = m.main
  BY <1>1, <1>2, ZenonT(40) DEF Members
<1> QED
  BY <1>3 DEF added

(* dispatchPendingWriteOperations() with a write to dispatch.              *)
MayDispatch(m) == m.pendingWrites # <<>> /\ m.activeWrites = {}

WriteOf(n) == [op |-> "write", n |-> n]

Dispatched(m, d, n) ==
    /\ n \in DOMAIN writes /\ n \in Nat /\ writes[n].key \in Keys
    /\ d.pendingWrites = Front(m.pendingWrites) /\ d.activeWrites = {n}
    /\ d.background = Append(m.background, WriteOf(n))
    /\ d.recordFilter = Add(m.recordFilter, writes[n].key)
    /\ d.added = IF m.synchronizing THEN m.added \cup {writes[n].key} ELSE m.added

LEMMA DispatchWritesEffect ==
    ASSUME TypeOK, NEW m \in Members, Range(m.pendingWrites) \subseteq DOMAIN writes,
           NEW d, d = DispatchPendingWrites(m), NEW n, n = Last(m.pendingWrites)
    PROVE  /\ ~MayDispatch(m) => d = m
           /\ MayDispatch(m) => Dispatched(m, d, n)
           /\ d \in Members
           /\ d.bodyFilter = m.bodyFilter /\ d.addedBodies = m.addedBodies
           /\ d.synchronizing = m.synchronizing /\ d.wiped = m.wiped /\ d.shrinking = m.shrinking
           /\ d.pendingReads = m.pendingReads /\ d.activeReads = m.activeReads
           /\ d.io = m.io /\ d.main = m.main
<1> DEFINE active == [m EXCEPT !.pendingWrites = Front(m.pendingWrites),
                               !.activeWrites = m.activeWrites \cup {n}]
           a == AddToRecordFilter(active, writes[n].key)
           f == WriteOf(n)
<1>1. CASE ~MayDispatch(m)
  BY <1>1 DEF MayDispatch, DispatchPendingWrites, WriteOf
<1>2. CASE MayDispatch(m)
  <2>1. n \in DOMAIN writes /\ n \in Nat /\ Front(m.pendingWrites) \in Seq(Nat)
    <3>1. m.pendingWrites \in Seq(Nat) /\ m.pendingWrites # <<>>
      BY <1>2, FieldTypes DEF MayDispatch
    <3>2. n \in Nat /\ Front(m.pendingWrites) \in Seq(Nat) /\ n \in Range(m.pendingWrites)
      BY <3>1, FrontFacts
    <3> QED
      BY <3>2
  <2>2. writes[n].key \in Keys
    BY <2>1, ElementTypes DEF Writes
  <2>3. f \in BackgroundFunctions
    BY <2>1 DEF BackgroundFunctions, WriteFunctions, WriteOf
  <2>4. d = Post(a, "background", f)
    BY <1>2 DEF MayDispatch, DispatchPendingWrites, WriteOf
  <2> HIDE DEF f
  <2>5. /\ active \in Members
        /\ active.pendingWrites = Front(m.pendingWrites) /\ active.activeWrites = {n}
        /\ active.bodyFilter = m.bodyFilter /\ active.addedBodies = m.addedBodies
        /\ active.recordFilter = m.recordFilter /\ active.added = m.added
        /\ active.synchronizing = m.synchronizing /\ active.wiped = m.wiped /\ active.shrinking = m.shrinking
        /\ active.pendingReads = m.pendingReads /\ active.activeReads = m.activeReads
        /\ active.io = m.io /\ active.main = m.main /\ active.background = m.background
    BY <1>2, <2>1 DEF Members, MayDispatch
  <2> HIDE DEF active
  <2>6. /\ a \in Members
        /\ a.recordFilter = Add(m.recordFilter, writes[n].key)
        /\ a.added = IF m.synchronizing THEN m.added \cup {writes[n].key} ELSE m.added
        /\ a.bodyFilter = m.bodyFilter /\ a.addedBodies = m.addedBodies
        /\ a.synchronizing = m.synchronizing /\ a.wiped = m.wiped /\ a.shrinking = m.shrinking
        /\ a.pendingWrites = Front(m.pendingWrites) /\ a.activeWrites = {n}
        /\ a.pendingReads = m.pendingReads /\ a.activeReads = m.activeReads
        /\ a.io = m.io /\ a.background = m.background /\ a.main = m.main
    <3> DEFINE k == writes[n].key
    <3>1. a = AddToRecordFilter(active, k) /\ k \in Keys
      BY <2>2
    <3> HIDE DEF a, k
    <3>2. /\ a \in Members
          /\ a.recordFilter = Add(active.recordFilter, k)
          /\ a.added = IF active.synchronizing THEN active.added \cup {k} ELSE active.added
          /\ a.bodyFilter = active.bodyFilter /\ a.addedBodies = active.addedBodies
          /\ a.synchronizing = active.synchronizing /\ a.wiped = active.wiped
          /\ a.shrinking = active.shrinking
          /\ a.pendingWrites = active.pendingWrites /\ a.activeWrites = active.activeWrites
          /\ a.pendingReads = active.pendingReads /\ a.activeReads = active.activeReads
          /\ a.io = active.io /\ a.background = active.background /\ a.main = active.main
      BY <2>5, <3>1, AddToRecordFilterEffect
    <3> QED
      BY <2>5, <3>2 DEF k
  <2> HIDE DEF a
  <2>7. d \in Members /\ d = [a EXCEPT !.background = Append(a.background, f)]
    BY <2>3, <2>4, <2>6, PostBackground
  <2>8. /\ d.background = Append(m.background, f)
        /\ d.recordFilter = Add(m.recordFilter, writes[n].key)
        /\ d.added = IF m.synchronizing THEN m.added \cup {writes[n].key} ELSE m.added
        /\ d.bodyFilter = m.bodyFilter /\ d.addedBodies = m.addedBodies
        /\ d.synchronizing = m.synchronizing /\ d.wiped = m.wiped /\ d.shrinking = m.shrinking
        /\ d.pendingWrites = Front(m.pendingWrites) /\ d.activeWrites = {n}
        /\ d.pendingReads = m.pendingReads /\ d.activeReads = m.activeReads
        /\ d.io = m.io /\ d.main = m.main
    BY <2>6, <2>7, SMTT(40) DEF Members
  <2> QED
    BY <1>2, <2>1, <2>2, <2>7, <2>8 DEF f, Dispatched
<1> QED
  BY <1>1, <1>2

LEMMA ShrinkEffect ==
    ASSUME NEW m \in Members, NEW t, t = Shrink(m)
    PROVE  /\ t \in Members
           /\ t.background \in {m.background, Append(m.background, [op |-> "shrink"])}
           /\ [op |-> "shrink"] \in BackgroundFunctions
           /\ t.recordFilter = m.recordFilter /\ t.added = m.added
           /\ t.bodyFilter = m.bodyFilter /\ t.addedBodies = m.addedBodies
           /\ t.synchronizing = m.synchronizing /\ t.wiped = m.wiped
           /\ t.pendingWrites = m.pendingWrites /\ t.activeWrites = m.activeWrites
           /\ t.pendingReads = m.pendingReads /\ t.activeReads = m.activeReads
           /\ t.io = m.io /\ t.main = m.main
<1> DEFINE a == [m EXCEPT !.shrinking = TRUE, !.shrinks = m.shrinks + 1]
           f == [op |-> "shrink"]
<1>1. f \in BackgroundFunctions
  BY DEF BackgroundFunctions, SynchronizeFunctions
<1>2. CASE m.shrinking \/ m.synchronizing
  BY <1>1, <1>2 DEF Shrink
<1>3. CASE ~(m.shrinking \/ m.synchronizing)
  <2>1. m.shrinks + 1 \in Nat
    BY FieldTypes
  <2>2. a \in Members
    BY <2>1 DEF Members
  <2>3. t = Post(a, "background", f)
    BY <1>3 DEF Shrink
  <2> HIDE DEF f
  <2>4. /\ a.background = m.background
        /\ a.recordFilter = m.recordFilter /\ a.added = m.added
        /\ a.bodyFilter = m.bodyFilter /\ a.addedBodies = m.addedBodies
        /\ a.wiped = m.wiped /\ a.synchronizing = m.synchronizing
        /\ a.pendingWrites = m.pendingWrites /\ a.activeWrites = m.activeWrites
        /\ a.pendingReads = m.pendingReads /\ a.activeReads = m.activeReads
        /\ a.io = m.io /\ a.main = m.main
    BY DEF Members
  <2> HIDE DEF a
  <2>5. t \in Members /\ t = [a EXCEPT !.background = Append(a.background, f)]
    BY <1>1, <2>2, <2>3, PostBackground
  <2>6. /\ t.background = Append(m.background, f)
        /\ t.recordFilter = m.recordFilter /\ t.added = m.added
        /\ t.bodyFilter = m.bodyFilter /\ t.addedBodies = m.addedBodies
        /\ t.wiped = m.wiped /\ t.synchronizing = m.synchronizing
        /\ t.pendingWrites = m.pendingWrites /\ t.activeWrites = m.activeWrites
        /\ t.pendingReads = m.pendingReads /\ t.activeReads = m.activeReads
        /\ t.io = m.io /\ t.main = m.main
    BY <2>2, <2>4, <2>5 DEF Members
  <2> QED
    BY <1>1, <1>3, <2>5, <2>6 DEF f
<1> QED
  BY <1>2, <1>3

LEMMA SynchronizeEffect ==
    ASSUME NEW m \in Members, NEW t, t = Synchronize(m)
    PROVE  /\ t \in Members
           /\ [op |-> "synchronize"] \in BackgroundFunctions
           /\ \/ t = m
              \/ /\ ~m.synchronizing
                 /\ t.background = Append(m.background, [op |-> "synchronize"]) /\ t.synchronizing
           /\ t.recordFilter = m.recordFilter /\ t.added = m.added
           /\ t.bodyFilter = m.bodyFilter /\ t.addedBodies = m.addedBodies
           /\ t.wiped = m.wiped
           /\ t.pendingWrites = m.pendingWrites /\ t.activeWrites = m.activeWrites
           /\ t.pendingReads = m.pendingReads /\ t.activeReads = m.activeReads
           /\ t.io = m.io /\ t.main = m.main
<1> DEFINE a == [m EXCEPT !.synchronizing = TRUE]
           f == [op |-> "synchronize"]
<1>1. f \in BackgroundFunctions
  BY DEF BackgroundFunctions, SynchronizeFunctions
<1>2. CASE m.shrinking \/ m.synchronizing
  BY <1>1, <1>2 DEF Synchronize
<1>3. CASE ~(m.shrinking \/ m.synchronizing)
  <2>2. a \in Members
    BY DEF Members
  <2>3. t = Post(a, "background", f)
    BY <1>3 DEF Synchronize
  <2> HIDE DEF f
  <2>4. /\ a.background = m.background
        /\ a.recordFilter = m.recordFilter /\ a.added = m.added
        /\ a.bodyFilter = m.bodyFilter /\ a.addedBodies = m.addedBodies
        /\ a.wiped = m.wiped /\ a.synchronizing
        /\ a.pendingWrites = m.pendingWrites /\ a.activeWrites = m.activeWrites
        /\ a.pendingReads = m.pendingReads /\ a.activeReads = m.activeReads
        /\ a.io = m.io /\ a.main = m.main
    BY DEF Members
  <2> HIDE DEF a
  <2>5. t \in Members /\ t = [a EXCEPT !.background = Append(a.background, f)]
    BY <1>1, <2>2, <2>3, PostBackground
  <2>6. /\ t.background = Append(m.background, f)
        /\ t.recordFilter = m.recordFilter /\ t.added = m.added
        /\ t.bodyFilter = m.bodyFilter /\ t.addedBodies = m.addedBodies
        /\ t.wiped = m.wiped /\ t.synchronizing
        /\ t.pendingWrites = m.pendingWrites /\ t.activeWrites = m.activeWrites
        /\ t.pendingReads = m.pendingReads /\ t.activeReads = m.activeReads
        /\ t.io = m.io /\ t.main = m.main
    BY <2>2, <2>4, <2>5 DEF Members
  <2> QED
    BY <1>1, <1>3, <2>5, <2>6 DEF f
<1> QED
  BY <1>2, <1>3

(* The place of the latest write of the key, 0 if there is none.           *)
Place(q, k) ==
    LET IsOfKey(n) == writes[n].key = k
    IN  SelectInSeq(q, IsOfKey)

LEMMA PlaceFacts ==
    ASSUME NEW q \in Seq(Nat), NEW k
    PROVE  Place(q, k) # 0 => Place(q, k) \in 1 .. Len(q) /\ writes[q[Place(q, k)]].key = k
<1> DEFINE T == {i \in 1 .. Len(q) : writes[q[i]].key = k}
<1>1. Place(q, k) = IF T # {} THEN Min(T) ELSE 0
  BY DEF Place, SelectInSeq
<1>2. T \subseteq Nat
  OBVIOUS
<1>3. T # {} => Min(T) \in T
  <2> HIDE DEF T
  <2> QED
    BY <1>2, LeastNatural
<1> QED
  BY <1>1, <1>3

LEMMA RemoveRecordEffect ==
    ASSUME NEW m \in Members, NEW k \in Keys, NEW mayContain \in BOOLEAN,
           NEW t, t = RemoveRecord(m, k, mayContain)
    PROVE  /\ t \in Members
           /\ \/ t.pendingWrites = m.pendingWrites
              \/ \E i \in 1 .. Len(m.pendingWrites) : t.pendingWrites = RemoveAt(m.pendingWrites, i)
           /\ t.activeWrites = m.activeWrites
           /\ t.recordFilter = m.recordFilter /\ t.added = m.added
           /\ t.bodyFilter = m.bodyFilter /\ t.addedBodies = m.addedBodies
           /\ t.synchronizing = m.synchronizing /\ t.wiped = m.wiped
           /\ t.pendingReads = m.pendingReads /\ t.activeReads = m.activeReads
           /\ t.readTimer = m.readTimer
           /\ t.io = m.io /\ t.background = m.background /\ t.main = m.main
<1> DEFINE i == Place(m.pendingWrites, k)
           rest == IF i = 0 THEN m ELSE [m EXCEPT !.pendingWrites = RemoveAt(m.pendingWrites, i)]
           f == [op |-> "deleteFile", k |-> k]
           g == [op |-> "unlink", k |-> k]
           u == Post(rest, "serial", f)
<1>1. t = IF ~mayContain THEN m ELSE Post(u, "serial", g)
  BY DEF RemoveRecord, Place
<1>2. f \in SerialFunctions /\ g \in SerialFunctions
  BY DEF SerialFunctions
<1> HIDE DEF f, g
<1>3. /\ rest \in Members
      /\ \/ rest.pendingWrites = m.pendingWrites
         \/ \E j \in 1 .. Len(m.pendingWrites) : rest.pendingWrites = RemoveAt(m.pendingWrites, j)
      /\ rest.activeWrites = m.activeWrites
      /\ rest.recordFilter = m.recordFilter /\ rest.added = m.added
      /\ rest.bodyFilter = m.bodyFilter /\ rest.addedBodies = m.addedBodies
      /\ rest.synchronizing = m.synchronizing /\ rest.wiped = m.wiped
      /\ rest.pendingReads = m.pendingReads /\ rest.activeReads = m.activeReads
      /\ rest.readTimer = m.readTimer
      /\ rest.io = m.io /\ rest.background = m.background /\ rest.main = m.main
  <2>1. CASE i = 0
    BY <2>1
  <2>2. CASE i # 0
    <3>1. i \in 1 .. Len(m.pendingWrites)
      BY <2>2, FieldTypes, PlaceFacts
    <3>2. RemoveAt(m.pendingWrites, i) \in Seq(Nat)
      BY <3>1, FieldTypes, RemoveAtFacts
    <3> HIDE DEF i
    <3> QED
      BY <2>2, <3>1, <3>2 DEF Members
  <2> QED
    BY <2>1, <2>2
<1> HIDE DEF rest
<1>4. u \in Members /\ u = [rest EXCEPT !.serial = Append(rest.serial, f)]
  BY <1>2, <1>3, PostSerial
<1> HIDE DEF u
<1>5. CASE ~mayContain
  BY <1>1, <1>5
<1>6. CASE mayContain
  <2>0. t = Post(u, "serial", g) /\ u \in Members
    BY <1>1, <1>4, <1>6
  <2>1. t \in Members /\ t = [u EXCEPT !.serial = Append(u.serial, g)]
    BY <1>2, <2>0, PostSerial
  <2>2. /\ t.pendingWrites = rest.pendingWrites /\ t.activeWrites = rest.activeWrites
        /\ t.recordFilter = rest.recordFilter /\ t.added = rest.added
        /\ t.bodyFilter = rest.bodyFilter /\ t.addedBodies = rest.addedBodies
        /\ t.synchronizing = rest.synchronizing /\ t.wiped = rest.wiped
        /\ t.pendingReads = rest.pendingReads /\ t.activeReads = rest.activeReads
        /\ t.readTimer = rest.readTimer
        /\ t.io = rest.io /\ t.background = rest.background /\ t.main = rest.main
    BY <1>3, <1>4, <2>1 DEF Members
  <2> QED
    BY <1>3, <2>1, <2>2
<1> QED
  BY <1>5, <1>6

(* The priorities from which reads are dispatched can be numbered from the *)
(* highest down.                                                           *)
NotLower(W, p) == {q \in W : q >= p}

LEMMA Ranks ==
    ASSUME NEW W \in SUBSET Nat, IsFiniteSet(W), NEW c \in Nat, NEW l \in Nat,
           NEW Rk, \A p \in W : Rk[p] = Cardinality(NotLower(W, p)),
           NEW C \in SUBSET W, \A p \in W : p \in C <=> c + Rk[p] <= l + 1
    PROVE  /\ IsFiniteSet(C) /\ Cardinality(C) \in Nat
           /\ \A i \in 1 .. Cardinality(C) : \E p \in C : Rk[p] = i
           /\ \A p \in C : Rk[p] \in 1 .. Cardinality(C)
           /\ \A p, q \in C : Rk[p] = Rk[q] => p = q
<1> DEFINE Up(p) == NotLower(W, p)
<1>0. \A p : Up(p) = {q \in W : q >= p}
  BY DEF NotLower
<1> HIDE DEF Up
<1>1. IsFiniteSet(C) /\ Cardinality(C) \in Nat
  <2>1. C \in SUBSET W
    OBVIOUS
  <2> QED
    BY <2>1, FS_Subset, FS_CardinalityType
<1>2. ASSUME NEW p \in W
      PROVE  IsFiniteSet(Up(p)) /\ Rk[p] = Cardinality(Up(p)) /\ Rk[p] \in Nat /\ Rk[p] >= 1
  <2>1. Up(p) \in SUBSET W /\ p \in Up(p) /\ Rk[p] = Cardinality(Up(p))
    BY <1>0 DEF Up
  <2> HIDE DEF Up
  <2>2. IsFiniteSet(Up(p)) /\ Cardinality(Up(p)) \in Nat /\ Cardinality(Up(p)) # 0
    BY <2>1, FS_Subset, FS_CardinalityType, FS_EmptySet
  <2> QED
    BY <2>1, <2>2
<1>3. ASSUME NEW p \in W, NEW q \in W, p < q PROVE Rk[q] < Rk[p]
  <2>0. p >= p /\ ~(p >= q) /\ \A x \in W : x >= q => x >= p
    <3>1. p \in Nat /\ q \in Nat /\ \A x \in W : x \in Nat
      OBVIOUS
    <3> QED
      BY <1>3, <3>1
  <2>1. Up(q) \in SUBSET Up(p) /\ p \in Up(p) /\ p \notin Up(q)
    BY <1>0, <2>0, Zenon
  <2> HIDE DEF Up
  <2>2. Cardinality(Up(q)) <= Cardinality(Up(p)) /\ Cardinality(Up(q)) # Cardinality(Up(p))
    BY <1>2, <2>1, FS_Subset
  <2> QED
    BY <1>2, <2>2
<1>4. ASSUME NEW p \in C PROVE Rk[p] \in 1 .. Cardinality(C)
  <2>1. Up(p) \in SUBSET C
    <3> SUFFICES ASSUME NEW q \in Up(p) PROVE q \in C
      OBVIOUS
    <3>0. p \in W /\ q \in W /\ q >= p
      BY <1>0, Zenon
    <3>1. p \in W /\ q \in W /\ c + Rk[p] <= l + 1 /\ (p < q \/ p = q)
      BY <3>0
    <3>2. Rk[q] <= Rk[p] /\ Rk[q] \in Nat /\ Rk[p] \in Nat
      BY <1>2, <1>3, <3>1
    <3>3. c + Rk[q] <= l + 1
      <4> DEFINE x == Rk[p]
                 y == Rk[q]
      <4>1. x \in Nat /\ y \in Nat /\ y <= x /\ c + x <= l + 1
        BY <3>1, <3>2
      <4> HIDE DEF x, y
      <4>2. c + y <= l + 1
        BY <4>1
      <4> QED
        BY <4>2 DEF y
    <3> QED
      BY <3>1, <3>3
  <2> HIDE DEF Up
  <2>2. Cardinality(Up(p)) <= Cardinality(C)
    BY <1>1, <2>1, FS_Subset
  <2> QED
    BY <1>1, <1>2, <2>2
<1>5. ASSUME NEW p \in C, NEW q \in C, Rk[p] = Rk[q] PROVE p = q
  <2>1. p \in W /\ q \in W
    OBVIOUS
  <2>2. ~(p < q) /\ ~(q < p)
    BY <1>2, <1>3, <1>5, <2>1
  <2> QED
    BY <2>1, <2>2
<1> DEFINE f == [p \in C |-> Rk[p]]
           n == Cardinality(C)
<1>6. f \in Injection(C, 1 .. n)
  BY <1>4, <1>5 DEF Injection, IsInjective
<1>7. IsFiniteSet(1 .. n) /\ Cardinality(1 .. n) = n
  <2> HIDE DEF n
  <2>1. n \in Nat
    BY <1>1 DEF n
  <2>2. 1 \in Int /\ n \in Int /\ (IF 1 > n THEN 0 ELSE n - 1 + 1) = n
    BY <2>1
  <2> QED
    BY <2>2, FS_Interval
<1>8. f \in Surjection(C, 1 .. n)
  <2> HIDE DEF f
  <2> QED
    BY <1>6, <1>7, FS_Injection
<1>9. \A i \in 1 .. n : \E p \in C : Rk[p] = i
  BY <1>8 DEF Surjection
<1> QED
  BY <1>1, <1>4, <1>5, <1>9

ReadFunctions == [op : {"read"}, r : Nat, getBody : BOOLEAN]

(* The reads that are dispatched when those of the priorities C are.       *)
Oldest(m, C) == {Last(m.pendingReads[p]) : p \in C}

(* d has dispatched the oldest reads of the priorities C, and nothing else *)
(* has become of its queues.                                               *)
ReadsDispatched(m, d) ==
    \E C \in SUBSET (0 .. maximumRetrievePriority), q \in Seq(ReadFunctions) :
        /\ \A p \in C : m.pendingReads[p] # <<>>
        /\ d.pendingReads = [p \in 0 .. maximumRetrievePriority |->
                                IF p \in C THEN Front(m.pendingReads[p]) ELSE m.pendingReads[p]]
        /\ d.activeReads = m.activeReads \cup Oldest(m, C)
        /\ d.io = m.io \o q
        /\ \A f \in Range(q) : f.r \in Oldest(m, C)
        /\ (\A o, p \in C : Last(m.pendingReads[o]) = Last(m.pendingReads[p]) => o = p)
               => \A r : Once(q, {f \in ReadFunctions : f.r = r})

LEMMA DispatchReadsEffect ==
    ASSUME NEW m \in Members, NEW rs, NEW d, d = DispatchPendingReads(m, rs)
    PROVE  /\ d \in Members
           /\ d.pendingWrites = m.pendingWrites /\ d.activeWrites = m.activeWrites
           /\ d.recordFilter = m.recordFilter /\ d.added = m.added
           /\ d.bodyFilter = m.bodyFilter /\ d.addedBodies = m.addedBodies
           /\ d.synchronizing = m.synchronizing /\ d.wiped = m.wiped
           /\ d.background = m.background /\ d.main = m.main
           /\ ReadsDispatched(m, d)
<1> DEFINE P == 0 .. maximumRetrievePriority
           W == {p \in P : m.pendingReads[p] # <<>>}
           Rk == [p \in W |-> Cardinality({q \in W : q >= p})]
           C == {p \in W : Cardinality(m.activeReads) + Rk[p] <= maximumActiveReadOperationCount + 1}
           At0(i) == CHOOSE p \in C : Rk[p] = i
           Old(p) == Last(m.pendingReads[p])
           n == Cardinality(C)
           q == [i \in 1 .. n |-> DispatchRead(m, rs, Old(At0(i)))]
           pr == [p \in P |-> IF p \in C THEN Front(m.pendingReads[p]) ELSE m.pendingReads[p]]
           ar == m.activeReads \cup Oldest(m, C)
           rt == m.readTimer \/ C # {}
<1>1. maximumRetrievePriority \in Nat /\ maximumActiveReadOperationCount \in Nat
  BY BoundsAssumption
<1>2. DOMAIN m.pendingReads = P /\ \A p \in P : m.pendingReads[p] \in Seq(Nat)
  BY FieldTypes
<1>3. d = [m EXCEPT !.pendingReads = pr, !.activeReads = ar, !.readTimer = rt, !.io = m.io \o q]
  <2> DEFINE Rank(p) == Cardinality({x \in W : x >= p})
             chosen == {p \in W : Cardinality(m.activeReads) + Rank(p) <= maximumActiveReadOperationCount + 1}
             Chosen(i) == CHOOSE p \in chosen : Rank(p) = i
  <2>1. d = [m EXCEPT !.pendingReads = [p \in P |-> IF p \in chosen THEN Front(m.pendingReads[p])
                                                                    ELSE m.pendingReads[p]],
                      !.activeReads = m.activeReads \cup {Old(p) : p \in chosen},
                      !.readTimer = m.readTimer \/ chosen # {},
                      !.io = m.io \o [i \in 1 .. Cardinality(chosen) |-> DispatchRead(m, rs, Old(Chosen(i)))]]
    BY <1>2 DEF DispatchPendingReads
  <2>2. \A p \in W : Rk[p] = Rank(p)
    OBVIOUS
  <2>3. chosen = C
    BY <2>2
  <2>4. \A i : Chosen(i) = At0(i)
    BY <2>2, <2>3
  <2> HIDE DEF Rank, chosen, Chosen, W, Rk, C, At0
  <2> QED
    BY <2>1, <2>3, <2>4, ZenonT(40) DEF Oldest
<1>4. /\ IsFiniteSet(C) /\ n \in Nat
      /\ \A i \in 1 .. n : \E p \in C : Rk[p] = i
  <2> DEFINE c == Cardinality(m.activeReads)
             l == maximumActiveReadOperationCount
  <2>1. W \in SUBSET Nat /\ IsFiniteSet(W)
    <3>1. IsFiniteSet(P)
      BY <1>1, FS_Interval
    <3>2. W \in SUBSET P
      OBVIOUS
    <3>3. IsFiniteSet(W)
      <4> HIDE DEF P, W
      <4> QED
        BY <3>1, <3>2, FS_Subset
    <3> QED
      BY <1>1, <3>3
  <2>2. c \in Nat
    BY FieldTypes, FS_CardinalityType DEF FiniteSubsetsOf
  <2>3. /\ \A p \in W : Rk[p] = Cardinality(NotLower(W, p))
        /\ C \in SUBSET W /\ \A p \in W : p \in C <=> c + Rk[p] <= l + 1
        /\ l \in Nat
    BY <1>1 DEF NotLower
  <2> HIDE DEF W, Rk, C, c, l
  <2>4. /\ IsFiniteSet(C) /\ Cardinality(C) \in Nat
        /\ \A i \in 1 .. Cardinality(C) : \E p \in C : Rk[p] = i
    BY <2>1, <2>2, <2>3, Ranks
  <2> QED
    BY <2>4
<1>5. \A i \in 1 .. n : At0(i) \in C /\ Rk[At0(i)] = i
  <2> HIDE DEF n, C, Rk
  <2> QED
    BY <1>4
<1>6. C \in SUBSET P /\ \A p \in C : m.pendingReads[p] # <<>>
  OBVIOUS
<1> HIDE DEF W, Rk, C, At0, n
<1>7. \A p \in C : Old(p) \in Nat /\ Front(m.pendingReads[p]) \in Seq(Nat)
  <2> SUFFICES ASSUME NEW p \in C PROVE Old(p) \in Nat /\ Front(m.pendingReads[p]) \in Seq(Nat)
    OBVIOUS
  <2>1. m.pendingReads[p] \in Seq(Nat) /\ m.pendingReads[p] # <<>>
    BY <1>2, <1>6
  <2> QED
    BY <2>1, FrontFacts
<1>8. pr \in [P -> Seq(Nat)]
  BY <1>2, <1>7
<1>9. ar \in FiniteSubsetsOf(Nat)
  <2> DEFINE f == [p \in C |-> Old(p)]
             O == Oldest(m, C)
  <2>1. f \in Surjection(C, O)
    BY DEF Surjection, Oldest
  <2>2. IsFiniteSet(O)
    <3> HIDE DEF f, O
    <3> QED
      BY <1>4, <2>1, FS_Surjection
  <2>3. O \subseteq Nat
    BY <1>7 DEF Oldest
  <2>4. m.activeReads \subseteq Nat /\ IsFiniteSet(m.activeReads)
    BY FieldTypes DEF FiniteSubsetsOf
  <2> HIDE DEF O
  <2>5. IsFiniteSet(m.activeReads \cup O)
    BY <2>2, <2>4, FS_Union
  <2> QED
    BY <2>3, <2>4, <2>5 DEF FiniteSubsetsOf, O
<1>10. ASSUME NEW i \in 1 .. n
       PROVE  q[i] \in ReadFunctions /\ q[i].r = Old(At0(i))
  BY <1>5, <1>7 DEF DispatchRead, ReadFunctions
<1>11. q \in Seq(ReadFunctions) /\ DOMAIN q = 1 .. n
  BY <1>4, <1>10, IsASeq
<1> HIDE DEF q
<1>12. \A f \in Range(q) : f.r \in Oldest(m, C)
  BY <1>5, <1>10, <1>11 DEF Range, Oldest
<1>13. ASSUME \A o, p \in C : Old(o) = Old(p) => o = p, NEW r
       PROVE  Once(q, {f \in ReadFunctions : f.r = r})
  <2> SUFFICES ASSUME NEW i \in 1 .. n, NEW j \in 1 .. n, q[i].r = r, q[j].r = r PROVE i = j
    BY <1>11 DEF Once
  <2>1. At0(i) = At0(j)
    BY <1>5, <1>10, <1>13
  <2> QED
    BY <1>5, <2>1
<1>14. m.io \o q \in Seq(IOFunctions)
  <2>1. ReadFunctions \subseteq IOFunctions
    BY DEF ReadFunctions, IOFunctions, IOReadFunctions
  <2>2. q \in Seq(IOFunctions)
    <3>1. \A i \in 1 .. n : q[i] \in IOFunctions
      BY <1>10, <2>1
    <3> QED
      BY <1>4, <1>11, <3>1, SeqDef
  <2> QED
    BY <2>2, FieldTypes, ConcatFacts
<1>15. rt \in BOOLEAN
  BY FieldTypes
<1> HIDE DEF pr, ar, rt
<1>16. /\ d \in Members
       /\ d.pendingWrites = m.pendingWrites /\ d.activeWrites = m.activeWrites
       /\ d.recordFilter = m.recordFilter /\ d.added = m.added
       /\ d.bodyFilter = m.bodyFilter /\ d.addedBodies = m.addedBodies
       /\ d.synchronizing = m.synchronizing /\ d.wiped = m.wiped
       /\ d.background = m.background /\ d.main = m.main
       /\ d.pendingReads = pr /\ d.activeReads = ar /\ d.io = m.io \o q
  <2> DEFINE io == m.io \o q
  <2>1. io \in Seq(IOFunctions) /\ d = [m EXCEPT !.pendingReads = pr, !.activeReads = ar, !.readTimer = rt, !.io = io]
    BY <1>3, <1>14
  <2> HIDE DEF io
  <2>2. /\ d \in Members
        /\ d.pendingWrites = m.pendingWrites /\ d.activeWrites = m.activeWrites
        /\ d.recordFilter = m.recordFilter /\ d.added = m.added
        /\ d.bodyFilter = m.bodyFilter /\ d.addedBodies = m.addedBodies
        /\ d.synchronizing = m.synchronizing /\ d.wiped = m.wiped
        /\ d.background = m.background /\ d.main = m.main
        /\ d.pendingReads = pr /\ d.activeReads = ar /\ d.io = io
    BY <1>8, <1>9, <1>15, <2>1, ZenonT(40) DEF Members
  <2> QED
    BY <2>2 DEF io
<1>17. /\ C \in SUBSET P /\ q \in Seq(ReadFunctions)
       /\ \A p \in C : m.pendingReads[p] # <<>>
       /\ d.pendingReads = [p \in P |-> IF p \in C THEN Front(m.pendingReads[p]) ELSE m.pendingReads[p]]
       /\ d.activeReads = m.activeReads \cup Oldest(m, C)
       /\ d.io = m.io \o q
       /\ \A f \in Range(q) : f.r \in Oldest(m, C)
       /\ (\A o, p \in C : Last(m.pendingReads[o]) = Last(m.pendingReads[p]) => o = p)
              => \A r : Once(q, {f \in ReadFunctions : f.r = r})
  BY <1>6, <1>11, <1>12, <1>13, <1>16, Zenon DEF pr, ar
<1>18. ReadsDispatched(m, d)
  BY <1>17, ZenonT(40) DEF ReadsDispatched
<1> QED
  BY <1>16, <1>18

-----------------------------------------------------------------------------
(* A function in a queue is told apart by its op.                          *)
LEMMA Kinds ==
    /\ \A f \in BackgroundFunctions :
           /\ f \in WriteFunctions <=> f.op \in {"write", "create"}
           /\ f \in SynchronizeFunctions <=> f.op = "synchronize"
    /\ \A f \in MainFunctions :
           /\ f \in BodyStoredFunctions <=> f.op = "bodyStored"
           /\ f \in SynchronizedFunctions <=> f.op = "synchronized"
           /\ f \in AnswerFunctions <=> f.op = "answer"
           /\ f \in FinishReadFunctions <=> f.op = "finishRead"
    /\ \A f \in IOFunctions : f \in IOReadFunctions <=> f.op # "clear"
<1>1. ASSUME NEW f \in BackgroundFunctions
      PROVE  /\ f \in WriteFunctions <=> f.op \in {"write", "create"}
             /\ f \in SynchronizeFunctions <=> f.op = "synchronize"
  BY DEF BackgroundFunctions, WriteFunctions, SynchronizeFunctions
<1>2. ASSUME NEW f \in MainFunctions
      PROVE  /\ f \in BodyStoredFunctions <=> f.op = "bodyStored"
             /\ f \in SynchronizedFunctions <=> f.op = "synchronized"
             /\ f \in AnswerFunctions <=> f.op = "answer"
             /\ f \in FinishReadFunctions <=> f.op = "finishRead"
  BY DEF MainFunctions, MainWriteFunctions, MainReadFunctions, BodyStoredFunctions,
         SynchronizedFunctions, AnswerFunctions, FinishReadFunctions
<1>3. ASSUME NEW f \in IOFunctions PROVE f \in IOReadFunctions <=> f.op # "clear"
  BY DEF IOFunctions, IOReadFunctions
<1> QED
  BY <1>1, <1>2, <1>3

(* The queues q and p hold the same elements of C.                         *)
Agree(q, p, C) ==
    /\ Range(p) \cap C = Range(q) \cap C
    /\ \A D \in SUBSET C : Once(q, D) => Once(p, D)
    /\ \A D, E \in SUBSET C : NoneBehind(q, D, E) => NoneBehind(p, D, E)

LEMMA AgreeAppend ==
    ASSUME NEW S, NEW q \in Seq(S), NEW e \in S, NEW C, e \notin C
    PROVE  Agree(q, Append(q, e), C)
<1>1. Range(Append(q, e)) = Range(q) \cup {e}
  BY AppendKeeps
<1>2. ASSUME NEW D \in SUBSET C, Once(q, D) PROVE Once(Append(q, e), D)
  BY <1>2, AppendKeeps
<1>3. ASSUME NEW D \in SUBSET C, NEW E \in SUBSET C, NoneBehind(q, D, E) PROVE NoneBehind(Append(q, e), D, E)
  BY <1>3, AppendKeeps
<1> QED
  BY <1>1, <1>2, <1>3 DEF Agree

LEMMA AgreeTail ==
    ASSUME NEW S, NEW q \in Seq(S), q # <<>>, NEW C, Head(q) \notin C
    PROVE  Agree(q, Tail(q), C)
<1>1. Range(q) = Range(Tail(q)) \cup {Head(q)}
  BY TailKeeps
<1>2. ASSUME NEW D \in SUBSET C, Once(q, D) PROVE Once(Tail(q), D)
  BY <1>2, TailKeeps
<1>3. ASSUME NEW D \in SUBSET C, NEW E \in SUBSET C, NoneBehind(q, D, E) PROVE NoneBehind(Tail(q), D, E)
  BY <1>3, TailKeeps
<1> QED
  BY <1>1, <1>2, <1>3 DEF Agree

LEMMA AgreeSame == \A q, C : Agree(q, q, C)
  BY DEF Agree

LEMMA AgreeSubset ==
    ASSUME NEW q, NEW p, NEW C, NEW D \in SUBSET C, Agree(q, p, C)
    PROVE  Agree(q, p, D)
  BY DEF Agree

LEMMA AgreeTransitive ==
    ASSUME NEW o, NEW q, NEW p, NEW C, Agree(o, q, C), Agree(q, p, C)
    PROVE  Agree(o, p, C)
  BY DEF Agree

(* What becomes of the pending writes when remove() is called.             *)
PendingLess(m, t) ==
    \/ t.pendingWrites = m.pendingWrites
    \/ \E i \in 1 .. Len(m.pendingWrites) : t.pendingWrites = RemoveAt(m.pendingWrites, i)

LEMMA PendingLessFacts ==
    ASSUME NEW m \in Members, NEW t \in Members, PendingLess(m, t)
    PROVE  /\ Range(t.pendingWrites) \subseteq Range(m.pendingWrites)
           /\ Descending(m.pendingWrites) => Descending(t.pendingWrites)
<1>1. m.pendingWrites \in Seq(Nat)
  BY FieldTypes
<1>2. ASSUME NEW i \in 1 .. Len(m.pendingWrites), t.pendingWrites = RemoveAt(m.pendingWrites, i)
      PROVE  /\ Range(t.pendingWrites) \subseteq Range(m.pendingWrites)
             /\ Descending(m.pendingWrites) => Descending(t.pendingWrites)
  BY <1>1, <1>2, RemoveAtFacts, RemoveAtDescending
<1> QED
  BY <1>2 DEF PendingLess

(* Steps that leave the writes under way alone.                            *)
WritesAlone(m, t) ==
    /\ PendingLess(m, t) /\ t.activeWrites = m.activeWrites
    /\ Agree(m.background, t.background, WriteFunctions)
    /\ Agree(m.main, t.main, BodyStoredFunctions)

LEMMA AloneKeepsWrites ==
    ASSUME NEW m \in Members, NEW t \in Members, NEW w \in Seq(Writes), WritesAlone(m, t),
           PendingInv(m, w), ActiveInv(m, w)
    PROVE  PendingInv(t, w) /\ ActiveInv(t, w)
<1>1. /\ Range(t.pendingWrites) \subseteq Range(m.pendingWrites)
      /\ Descending(m.pendingWrites) => Descending(t.pendingWrites)
      /\ t.activeWrites = m.activeWrites
  BY PendingLessFacts DEF WritesAlone
<1>2. PendingInv(t, w)
  BY <1>1 DEF PendingInv
<1>3. /\ Range(t.background) \cap WriteFunctions = Range(m.background) \cap WriteFunctions
      /\ Once(t.background, WriteFunctions)
      /\ Range(t.main) \cap BodyStoredFunctions = Range(m.main) \cap BodyStoredFunctions
      /\ Once(t.main, BodyStoredFunctions)
  BY DEF WritesAlone, Agree, ActiveInv
<1>4. ASSUME NEW n \in Nat
      PROVE  RecordToCome(t, w, n) = RecordToCome(m, w, n) /\ BodyToCome(t, n) = BodyToCome(m, n)
  <2>1. [op |-> "create", n |-> n] \in WriteFunctions /\ [op |-> "bodyStored", n |-> n] \in BodyStoredFunctions
    BY DEF WriteFunctions, BodyStoredFunctions
  <2> QED
    BY <1>3, <2>1 DEF RecordToCome, BodyToCome
<1>5. DOMAIN w \subseteq Nat
  BY LenProperties
<1>6. ActiveInv(t, w)
  BY <1>1, <1>3, <1>4, <1>5 DEF ActiveInv
<1> QED
  BY <1>2, <1>6

LEMMA AloneKeepsRecords ==
    ASSUME NEW m \in Members, NEW t \in Members, NEW w \in Seq(Writes),
           PendingLess(m, t), t.activeWrites = m.activeWrites,
           NEW files, NEW left, \A k \in Keys : left[k] \in {files[k], None},
           RecordsInv(m, w, files)
    PROVE  RecordsInv(t, w, left)
<1>1. Range(t.pendingWrites) \subseteq Range(m.pendingWrites)
  BY PendingLessFacts
<1>2. DOMAIN w \subseteq Nat /\ None \notin Nat
  BY LenProperties, BoundsAssumption
<1> QED
  BY <1>1, <1>2 DEF RecordsInv

(* Steps that leave the filters, and the functions that they depend on,    *)
(* alone.                                                                  *)
FiltersAlone(m, t) ==
    /\ t.recordFilter = m.recordFilter /\ t.added = m.added
    /\ t.bodyFilter = m.bodyFilter /\ t.addedBodies = m.addedBodies
    /\ t.synchronizing = m.synchronizing /\ t.wiped = m.wiped
    /\ Agree(m.background, t.background, WriteFunctions \cup SynchronizeFunctions)
    /\ Agree(m.main, t.main, MainWriteFunctions)

LEMMA NoneBehindFewer ==
    ASSUME NEW q, NEW C, NEW D, NEW E, NoneBehind(q, C, D), Range(q) \cap E \subseteq D
    PROVE  NoneBehind(q, C, E)
  BY DEF NoneBehind, Range

(* Keys never change, and the functions in the queues are about writes     *)
(* that there are.                                                         *)
SameKeys(w, v) == \A n \in DOMAIN w : n \in DOMAIN v /\ v[n].key = w[n].key

LEMMA AloneKeepsFilters ==
    ASSUME NEW m \in Members, NEW t \in Members, NEW w \in Seq(Writes), NEW v \in Seq(Writes),
           FiltersAlone(m, t), SameKeys(w, v), PendingInv(m, w), ActiveInv(m, w),
           NEW files, NEW left, \A k \in Keys : left[k] = None \/ (left[k] = files[k] /\ (files[k] \in DOMAIN v => files[k] \in DOMAIN w)),
           NEW links, NEW linked, \A k \in Keys : linked[k] \in {links[k], None},
           FilterInv(m, w, files, links)
    PROVE  FilterInv(t, v, left, linked)
<1> DEFINE B == Range(m.background)
           M == Range(m.main)
<1>1. DOMAIN w \subseteq Nat /\ DOMAIN v \subseteq Nat /\ None \notin Nat
  BY LenProperties, BoundsAssumption
<1>2. /\ Range(t.background) \cap WriteFunctions = B \cap WriteFunctions
      /\ Range(t.background) \cap SynchronizeFunctions = B \cap SynchronizeFunctions
      /\ Range(t.main) \cap BodyStoredFunctions = M \cap BodyStoredFunctions
      /\ Range(t.main) \cap SynchronizedFunctions = M \cap SynchronizedFunctions
  BY DEF FiltersAlone, Agree, MainWriteFunctions
<1>3. /\ \A f \in B \cap WriteFunctions : v[f.n].key = w[f.n].key
      /\ \A f \in M \cap BodyStoredFunctions : v[f.n].key = w[f.n].key
  BY DEF ActiveInv, PendingInv, SameKeys
<1>4. \A k \in Keys : HasRecord(v, left, k) => HasRecord(w, files, k)
  BY <1>1 DEF HasRecord
<1>5. ASSUME NEW keys, Covers(m, w, files, keys) PROVE Covers(t, v, left, keys)
  BY <1>2, <1>3, <1>4, <1>5 DEF Covers
<1>6. ASSUME NEW keys, CoversBodies(m, w, links, keys) PROVE CoversBodies(t, v, linked, keys)
  BY <1>2, <1>3, <1>6 DEF CoversBodies
<1>7. NoneBehind(t.background, SynchronizeFunctions, NotAdded(t, v))
  <2>1. NotAdded(m, w) \subseteq WriteFunctions
    BY DEF NotAdded
  <2>2. NoneBehind(t.background, SynchronizeFunctions, NotAdded(m, w))
    BY <2>1 DEF FiltersAlone, Agree, FilterInv
  <2>3. Range(t.background) \cap NotAdded(t, v) \subseteq NotAdded(m, w)
    BY <1>2, <1>3 DEF NotAdded, FiltersAlone
  <2> QED
    BY <2>2, <2>3, NoneBehindFewer
<1>8. Once(t.main, SynchronizedFunctions) /\ Once(t.background, SynchronizeFunctions)
  BY DEF FiltersAlone, Agree, FilterInv, MainWriteFunctions
<1> HIDE DEF B, M
<1>9. /\ ~t.wiped /\ t.recordFilter # None => Covers(t, v, left, t.recordFilter)
      /\ ~t.wiped /\ t.bodyFilter # None => CoversBodies(t, v, linked, t.bodyFilter)
  BY <1>5, <1>6 DEF FilterInv, FiltersAlone
<1>10. \A f \in Range(t.main) \cap SynchronizedFunctions :
           /\ t.synchronizing
           /\ Covers(t, v, left, f.records \cup t.added)
           /\ CoversBodies(t, v, linked, f.bodies \cup t.addedBodies)
  BY <1>2, <1>5, <1>6 DEF FilterInv, FiltersAlone, M
<1>11. Range(t.background) \cap SynchronizeFunctions # {} =>
           t.synchronizing /\ Range(t.main) \cap SynchronizedFunctions = {}
  BY <1>2 DEF FilterInv, FiltersAlone, M, B
<1> QED
  BY <1>7, <1>8, <1>9, <1>10, <1>11 DEF FilterInv

(* Steps after which the writes under way and the filters are as before,   *)
(* and nothing but deletions has happened on the disk.                     *)
LEMMA AloneKeeps ==
    ASSUME TypeOK, WriteInv, DiskInv, TypeOK', WritesAlone(s, s'), FiltersAlone(s, s'), writes' = writes,
           \A k \in Keys : records'[k] \in {records[k], None} /\ bodies'[k] \in {bodies[k], None}
    PROVE  WriteInv' /\ DiskInv'
<1>1. s \in Members /\ s' \in Members /\ writes \in Seq(Writes)
  BY DEF TypeOK
<1>2. PendingInv(s, writes) /\ ActiveInv(s, writes) /\ RecordsInv(s, writes, records)
      /\ FilterInv(s, writes, records, bodies)
  BY DEF WriteInv, DiskInv
<1>3. PendingInv(s', writes) /\ ActiveInv(s', writes)
  BY <1>1, <1>2, AloneKeepsWrites
<1>4. RecordsInv(s', writes, records')
  <2>1. PendingLess(s, s') /\ s'.activeWrites = s.activeWrites
    BY DEF WritesAlone
  <2> QED
    BY <1>1, <1>2, <2>1, AloneKeepsRecords
<1>5. FilterInv(s', writes, records', bodies')
  <2>1. SameKeys(writes, writes)
    BY DEF SameKeys
  <2> QED
    BY <1>1, <1>2, <2>1, AloneKeepsFilters
<1> QED
  BY <1>3, <1>4, <1>5 DEF WriteInv, DiskInv

LEMMA ReadChanged ==
    ASSUME NEW rs \in Seq(Reads), NEW r, NEW e, r \in DOMAIN rs => e \in Reads
    PROVE  /\ [rs EXCEPT ![r] = e] \in Seq(Reads)
           /\ DOMAIN [rs EXCEPT ![r] = e] = DOMAIN rs
           /\ \A x \in DOMAIN rs : [rs EXCEPT ![r] = e][x] = IF x = r THEN e ELSE rs[x]
<1>1. DOMAIN rs = 1 .. Len(rs)
  BY LenProperties
<1>2. CASE r \in DOMAIN rs
  BY <1>1, <1>2, ExceptSeq
<1>3. CASE r \notin DOMAIN rs
  <2>1. [rs EXCEPT ![r] = e] = rs
    BY <1>1, <1>3
  <2> QED
    BY <1>3, <2>1
<1> QED
  BY <1>2, <1>3

Answers == {None} \cup [header : Files, body : Files]

LEMMA AnsweredType ==
    ASSUME NEW r \in Reads, NEW a \in Answers
    PROVE  /\ Answered(r, a) \in Reads
           /\ Answered(r, a).answers = Append(r.answers, a)
           /\ Answered(r, a).key = r.key /\ Answered(r, a).activeCount = r.activeCount
           /\ Answered(r, a).file = r.file /\ Answered(r, a).reading = r.reading
           /\ Answered(r, a).record = r.record /\ Answered(r, a).body = r.body
           /\ Answered(r, a).canceled = r.canceled
<1>1. r.answers \in Seq(Answers)
  BY DEF Reads, Answers
<1>2. Append(r.answers, a) \in Seq(Answers)
  BY <1>1, AppendProperties
<1> QED
  BY <1>2 DEF Answered, Reads, Answers

(* Steps of reads, as far as writes and filters are concerned.             *)
ReadStep(t) ==
    /\ PendingLess(s, t) /\ t.activeWrites = s.activeWrites
    /\ t.recordFilter = s.recordFilter /\ t.added = s.added
    /\ t.bodyFilter = s.bodyFilter /\ t.addedBodies = s.addedBodies
    /\ t.synchronizing = s.synchronizing /\ t.wiped = s.wiped
    /\ t.background = s.background
    /\ Agree(s.main, t.main, MainWriteFunctions)

LEMMA ReadStepKeeps ==
    ASSUME TypeOK, WriteInv, DiskInv, TypeOK', ReadStep(s'), UNCHANGED <<writes, records, bodies>>
    PROVE  WriteInv' /\ DiskInv'
<1>1. BodyStoredFunctions \in SUBSET MainWriteFunctions
  BY DEF MainWriteFunctions
<1>2. Agree(s.main, s'.main, BodyStoredFunctions)
  BY <1>1, AgreeSubset DEF ReadStep
<1>3. WritesAlone(s, s') /\ FiltersAlone(s, s')
  BY <1>2, AgreeSame DEF ReadStep, WritesAlone, FiltersAlone
<1> QED
  BY <1>3, AloneKeeps

LEMMA InMemoryFacts ==
    ASSUME TypeOK, WriteInv, NEW k, NEW n \in InMemory(k)
    PROVE  n \in DOMAIN writes /\ n \in Nat /\ writes[n].key = k
<1> DEFINE q == s.pendingWrites
           i == Place(q, k)
<1>1. InMemory(k) = IF i # 0 THEN {q[i]} ELSE {o \in s.activeWrites : writes[o].key = k}
  BY DEF InMemory, Place
<1>2. q \in Seq(Nat) /\ Range(q) \subseteq DOMAIN writes /\ s.activeWrites \subseteq DOMAIN writes
  BY FieldTypes DEF TypeOK, WriteInv, PendingInv
<1>3. i # 0 => i \in DOMAIN q /\ writes[q[i]].key = k
  BY <1>2, PlaceFacts, LenProperties
<1>4. \A o \in DOMAIN writes : o \in Nat
  BY ElementTypes
<1> HIDE DEF q, i
<1> QED
  BY <1>1, <1>2, <1>3, <1>4 DEF Range

NewRead(k) == [key |-> k, activeCount |-> 0, file |-> None, reading |-> FALSE,
               record |-> None, body |-> None, canceled |-> FALSE, answers |-> <<>>]

LEMMA NewReadType ==
    ASSUME NEW k \in Keys
    PROVE  NewRead(k) \in Reads /\ Answered(NewRead(k), None) \in Reads
<1>1. NewRead(k) \in Reads
  <2>1. <<>> \in Seq({None} \cup [header : Files, body : Files])
    OBVIOUS
  <2> QED
    BY <2>1 DEF NewRead, Reads, Files
<1>2. None \in Answers
  BY DEF Answers
<1> QED
  BY <1>1, <1>2, AnsweredType

(* retrieve(), with the read pending.                                      *)
Queued(priority) == [s EXCEPT !.pendingReads[priority] = Cons(Len(reads) + 1, @)]

LEMMA QueuedEffect ==
    ASSUME TypeOK, NEW p \in 0 .. maximumRetrievePriority, NEW m, m = Queued(p)
    PROVE  /\ m \in Members
           /\ m.pendingReads[p] = Cons(Len(reads) + 1, s.pendingReads[p])
           /\ \A o \in 0 .. maximumRetrievePriority : o # p => m.pendingReads[o] = s.pendingReads[o]
           /\ m.activeReads = s.activeReads /\ m.io = s.io
           /\ m.pendingWrites = s.pendingWrites /\ m.activeWrites = s.activeWrites
           /\ m.recordFilter = s.recordFilter /\ m.added = s.added
           /\ m.bodyFilter = s.bodyFilter /\ m.addedBodies = s.addedBodies
           /\ m.synchronizing = s.synchronizing /\ m.wiped = s.wiped
           /\ m.background = s.background /\ m.main = s.main
<1> DEFINE c == Cons(Len(reads) + 1, s.pendingReads[p])
           pr == [s.pendingReads EXCEPT ![p] = c]
<1>1. s \in Members /\ s.pendingReads \in [0 .. maximumRetrievePriority -> Seq(Nat)]
  BY FieldTypes DEF TypeOK
<1>a. Len(reads) + 1 \in Nat
  BY ElementTypes
<1>2. Len(reads) + 1 \in Nat /\ s.pendingReads[p] \in Seq(Nat)
  BY <1>1, <1>a
<1>3. c \in Seq(Nat)
  BY <1>2, ConsFacts
<1>4. m = [s EXCEPT !.pendingReads = pr]
  BY DEF Queued
<1> HIDE DEF c
<1>5. pr \in [0 .. maximumRetrievePriority -> Seq(Nat)]
  BY <1>1, <1>3
<1>b. pr[p] = c /\ \A o \in 0 .. maximumRetrievePriority : o # p => pr[o] = s.pendingReads[o]
  BY <1>1
<1> HIDE DEF pr
<1>6. /\ m \in Members
      /\ m.pendingReads = pr
      /\ m.activeReads = s.activeReads /\ m.io = s.io
      /\ m.pendingWrites = s.pendingWrites /\ m.activeWrites = s.activeWrites
      /\ m.recordFilter = s.recordFilter /\ m.added = s.added
      /\ m.bodyFilter = s.bodyFilter /\ m.addedBodies = s.addedBodies
      /\ m.synchronizing = s.synchronizing /\ m.wiped = s.wiped
      /\ m.background = s.background /\ m.main = s.main
  BY <1>1, <1>4, <1>5, ZenonT(40) DEF Members
<1> QED
  BY <1>6, <1>b DEF c

(* The three ways a retrieve() may go.                                     *)
LEMMA RetrieveCases ==
    ASSUME NEW k, NEW p, Retrieve(k, p)
    PROVE  /\ UNCHANGED <<writes, records, bodies>>
           /\ \/ reads' = Append(reads, Answered(NewRead(k), None)) /\ s' = s
              \/ /\ reads' = Append(reads, NewRead(k))
                 /\ \/ \E n \in InMemory(k) :
                          s' = Post(s, "main", [op |-> "answer", r |-> Len(reads) + 1, n |-> n])
                    \/ s' = DispatchPendingReads(Queued(p), reads')
  BY DEF Retrieve, NewRead, Queued

LEMMA RetrieveType ==
    ASSUME TypeOK, WriteInv, NEW k \in Keys, NEW p \in 0 .. maximumRetrievePriority, Retrieve(k, p)
    PROVE  TypeOK' /\ ReadStep(s') /\ UNCHANGED <<writes, records, bodies>>
<1>1. reads \in Seq(Reads) /\ s \in Members /\ Len(reads) + 1 \in Nat
  BY ElementTypes DEF TypeOK
<1>2. reads' \in Seq(Reads)
  BY <1>1, RetrieveCases, NewReadType, AppendProperties
<1>3. CASE s' = s
  <2>1. s' \in Members /\ ReadStep(s')
    BY <1>1, <1>3, AgreeSame DEF ReadStep, PendingLess
  <2> QED
    BY <1>2, <2>1, RetrieveCases DEF TypeOK
<1>4. ASSUME NEW n \in InMemory(k), s' = Post(s, "main", [op |-> "answer", r |-> Len(reads) + 1, n |-> n])
      PROVE  TypeOK' /\ ReadStep(s')
  <2> DEFINE f == [op |-> "answer", r |-> Len(reads) + 1, n |-> n]
  <2>1. f \in MainFunctions /\ f \notin MainWriteFunctions
    BY <1>1, InMemoryFacts DEF MainFunctions, MainReadFunctions, AnswerFunctions,
         MainWriteFunctions, BodyStoredFunctions, SynchronizedFunctions
  <2> HIDE DEF f
  <2>2. s' \in Members /\ s' = [s EXCEPT !.main = Append(s.main, f)]
    BY <1>1, <1>4, <2>1, PostMain DEF f
  <2>3. Agree(s.main, Append(s.main, f), MainWriteFunctions)
    BY <1>1, <2>1, FieldTypes, AgreeAppend
  <2>4. ReadStep(s')
    BY <1>1, <2>2, <2>3 DEF ReadStep, PendingLess, Members
  <2> QED
    BY <1>2, <2>2, <2>4, RetrieveCases DEF TypeOK
<1>5. ASSUME s' = DispatchPendingReads(Queued(p), reads') PROVE TypeOK' /\ ReadStep(s')
  <2> DEFINE m == Queued(p)
  <2>0. m = Queued(p)
    OBVIOUS
  <2> HIDE DEF m
  <2>1. /\ m \in Members
        /\ m.pendingWrites = s.pendingWrites /\ m.activeWrites = s.activeWrites
        /\ m.recordFilter = s.recordFilter /\ m.added = s.added
        /\ m.bodyFilter = s.bodyFilter /\ m.addedBodies = s.addedBodies
        /\ m.synchronizing = s.synchronizing /\ m.wiped = s.wiped
        /\ m.background = s.background /\ m.main = s.main
    BY <2>0, QueuedEffect
  <2>2. s' = DispatchPendingReads(m, reads')
    BY <1>5, <2>0
  <2>3. /\ s' \in Members
        /\ s'.pendingWrites = m.pendingWrites /\ s'.activeWrites = m.activeWrites
        /\ s'.recordFilter = m.recordFilter /\ s'.added = m.added
        /\ s'.bodyFilter = m.bodyFilter /\ s'.addedBodies = m.addedBodies
        /\ s'.synchronizing = m.synchronizing /\ s'.wiped = m.wiped
        /\ s'.background = m.background /\ s'.main = m.main
    BY <2>1, <2>2, DispatchReadsEffect
  <2>4. ReadStep(s')
    BY <2>1, <2>3, AgreeSame DEF ReadStep, PendingLess
  <2> QED
    BY <1>2, <2>3, <2>4, RetrieveCases DEF TypeOK
<1> QED
  BY <1>3, <1>4, <1>5, RetrieveCases

Cancelable(r) ==
    /\ ~reads[r].canceled
    /\ r \in s.activeReads \/ \E p \in DOMAIN s.pendingReads : r \in Range(s.pendingReads[p])
Canceled(r) == [Answered(reads[r], None) EXCEPT !.canceled = TRUE]

LEMMA ReadTimerEffect ==
    ASSUME TypeOK, ReadTimerFires
    PROVE  /\ reads' = [r \in DOMAIN reads |-> IF Cancelable(r) THEN Canceled(r) ELSE reads[r]]
           /\ s' = [s EXCEPT !.readTimer = FALSE, !.pendingReads = [p \in DOMAIN s.pendingReads |-> <<>>]]
           /\ UNCHANGED <<writes, records, bodies>>
           /\ \A r \in DOMAIN reads : Canceled(r) \in Reads
<1>1. \A r : Cancelable(r) <=> ~(reads[r].canceled \/ r \notin s.activeReads \cup UNION {ToSet(s.pendingReads[p]) : p \in DOMAIN s.pendingReads})
  BY DEF Cancelable, ToSet, Range
<1>2. reads' = [r \in DOMAIN reads |->
                   IF reads[r].canceled \/ r \notin s.activeReads \cup UNION {ToSet(s.pendingReads[p]) : p \in DOMAIN s.pendingReads}
                   THEN reads[r] ELSE Canceled(r)]
  BY DEF ReadTimerFires, Canceled
<1>3. ASSUME NEW r \in DOMAIN reads PROVE Canceled(r) \in Reads
  <2>1. reads[r] \in Reads /\ None \in Answers
    BY ElementTypes DEF Answers
  <2>2. Answered(reads[r], None) \in Reads
    BY <2>1, AnsweredType
  <2> QED
    BY <2>2 DEF Reads, Canceled
<1> QED
  BY <1>1, <1>2, <1>3 DEF ReadTimerFires

LEMMA ReadTimerType ==
    ASSUME TypeOK, ReadTimerFires
    PROVE  TypeOK' /\ ReadStep(s') /\ UNCHANGED <<writes, records, bodies>>
<1>1. reads' \in Seq(Reads)
  <2>1. DOMAIN reads = 1 .. Len(reads) /\ Len(reads) \in Nat
    BY ElementTypes
  <2>2. \A r \in DOMAIN reads : reads'[r] \in Reads
    BY ReadTimerEffect, ElementTypes
  <2>3. reads' \in [1 .. Len(reads) -> Reads]
    BY <2>1, <2>2, ReadTimerEffect
  <2> QED
    BY <2>1, <2>3, SeqDef
<1>2. s \in Members /\ s.pendingReads \in [0 .. maximumRetrievePriority -> Seq(Nat)]
  BY FieldTypes DEF TypeOK
<1> DEFINE pr == [p \in DOMAIN s.pendingReads |-> <<>>]
<1>3. pr \in [0 .. maximumRetrievePriority -> Seq(Nat)] /\ s' = [s EXCEPT !.readTimer = FALSE, !.pendingReads = pr]
  BY <1>2, ReadTimerEffect
<1> HIDE DEF pr
<1>4. s' \in Members
  BY <1>2, <1>3 DEF Members
<1>5. ReadStep(s')
  BY <1>2, <1>3, AgreeSame DEF ReadStep, PendingLess, Members
<1> QED
  BY <1>1, <1>4, <1>5, ReadTimerEffect DEF TypeOK

LEMMA PopMain ==
    ASSUME TypeOK, s.main # <<>>, NEW m, m = Popped("main"), Head(s.main) \notin MainWriteFunctions
    PROVE  /\ m \in Members /\ ReadStep(m) /\ m.main = Tail(s.main)
           /\ m.pendingReads = s.pendingReads /\ m.activeReads = s.activeReads /\ m.io = s.io
           /\ m.readTimer = s.readTimer
<1>1. s \in Members /\ s.main \in Seq(MainFunctions)
  BY FieldTypes DEF TypeOK
<1>2. m \in Members /\ m = [s EXCEPT !.main = Tail(s.main)]
  BY PoppedType
<1>3. Agree(s.main, Tail(s.main), MainWriteFunctions)
  BY <1>1, AgreeTail
<1> QED
  BY <1>1, <1>2, <1>3 DEF ReadStep, PendingLess, Members

LEMMA RetrievedEffect ==
    ASSUME TypeOK, RetrievedFromMemory
    PROVE  /\ s.main # <<>> /\ Head(s.main) \in AnswerFunctions /\ Head(s.main) \notin MainWriteFunctions
           /\ Answer(Head(s.main).n, Head(s.main).n) \in Answers
           /\ reads' = [reads EXCEPT ![Head(s.main).r] =
                           Answered(reads[Head(s.main).r], Answer(Head(s.main).n, Head(s.main).n))]
           /\ s' = Popped("main") /\ UNCHANGED <<writes, records, bodies>>
<1>1. s.main # <<>> /\ Head(s.main).op = "answer"
  BY DEF RetrievedFromMemory, At
<1>2. Head(s.main) \in MainFunctions
  BY <1>1, PoppedType
<1>3. Head(s.main) \in AnswerFunctions /\ Head(s.main) \notin MainWriteFunctions
  BY <1>1, <1>2, Kinds DEF MainWriteFunctions
<1>4. Answer(Head(s.main).n, Head(s.main).n) \in Answers
  BY <1>3 DEF AnswerFunctions, Answers, Answer, Files
<1> QED
  BY <1>1, <1>3, <1>4 DEF RetrievedFromMemory

LEMMA RetrievedType ==
    ASSUME TypeOK, RetrievedFromMemory
    PROVE  TypeOK' /\ ReadStep(s') /\ UNCHANGED <<writes, records, bodies>>
<1> DEFINE r == Head(s.main).r
           a == Answer(Head(s.main).n, Head(s.main).n)
<1>1. r \in DOMAIN reads => Answered(reads[r], a) \in Reads
  BY RetrievedEffect, ElementTypes, AnsweredType
<1>2. reads' \in Seq(Reads)
  <2>1. reads \in Seq(Reads) /\ reads' = [reads EXCEPT ![r] = Answered(reads[r], a)]
    BY RetrievedEffect DEF TypeOK
  <2> HIDE DEF r, a
  <2> QED
    BY <1>1, <2>1, ReadChanged
<1>3. s' \in Members /\ ReadStep(s')
  BY RetrievedEffect, PopMain
<1> QED
  BY <1>2, <1>3, RetrievedEffect DEF TypeOK

(* finish() of a read that is not canceled.                                *)
LEMMA ResultType ==
    ASSUME TypeOK, NEW read \in Reads
    PROVE  Result(read) \in Answers
  BY DEF Result, Answer, Answers, Reads

FinishedReads(r) ==
    IF reads[r].canceled THEN reads ELSE [reads EXCEPT ![r] = Answered(reads[r], Result(reads[r]))]

LEMMA FinishReadEffect ==
    ASSUME TypeOK, ReadInv, FinishRead, NEW r, r = Head(s.main).r
    PROVE  /\ s.main # <<>> /\ Head(s.main) \in FinishReadFunctions /\ r \in s.activeReads /\ r \in DOMAIN reads
           /\ reads' = FinishedReads(r) /\ UNCHANGED <<writes, records, bodies>>
           /\ \E m \in Members :
                  /\ s' = DispatchPendingReads(m, reads)
                  /\ ReadStep(m) /\ m.main = Tail(s.main)
                  /\ m.pendingReads = s.pendingReads /\ m.activeReads = s.activeReads \ {r} /\ m.io = s.io
<1>1. s.main # <<>> /\ Head(s.main).op = "finishRead" /\ s.main \in Seq(MainFunctions)
  BY FieldTypes DEF FinishRead, At, TypeOK
<1>2. Head(s.main) \in MainFunctions /\ Head(s.main) \in Range(s.main)
  BY <1>1, TailFacts
<1>3. Head(s.main) \in FinishReadFunctions /\ Head(s.main) \notin MainWriteFunctions
  BY <1>1, <1>2, Kinds DEF MainWriteFunctions
<1>4. r \in s.activeReads /\ r \in DOMAIN reads
  BY <1>2, <1>3 DEF ReadInv, MainReadsInv, ActiveReadsInv
<1>5. reads[r] \in Reads /\ reads[r].key \in Keys
  BY <1>4, ElementTypes DEF Reads
<1>6. reads' = FinishedReads(r) /\ UNCHANGED <<writes, records, bodies>>
  BY DEF FinishRead, FinishedReads
<1>7. PICK mayContain \in BOOLEAN :
          s' = ReadFinished(RemoveRecord(Popped("main"), reads[r].key, mayContain), reads, r)
  BY DEF FinishRead, MayContain
<1> DEFINE o == Popped("main")
           t == RemoveRecord(o, reads[r].key, mayContain)
           ar == t.activeReads \ {r}
           rt == t.readTimer /\ t.activeReads # {r}
           m == [t EXCEPT !.activeReads = ar, !.readTimer = rt]
<1>8. /\ o \in Members /\ ReadStep(o) /\ o.main = Tail(s.main)
      /\ o.pendingReads = s.pendingReads /\ o.activeReads = s.activeReads /\ o.io = s.io
  BY <1>1, <1>3, PopMain
<1>9. s' = DispatchPendingReads(m, reads)
  BY <1>7 DEF ReadFinished
<1>a. t = RemoveRecord(o, reads[r].key, mayContain)
  OBVIOUS
<1> HIDE DEF o, t
<1>10. /\ t \in Members
       /\ \/ t.pendingWrites = o.pendingWrites
          \/ \E i \in 1 .. Len(o.pendingWrites) : t.pendingWrites = RemoveAt(o.pendingWrites, i)
       /\ t.activeWrites = o.activeWrites
       /\ t.recordFilter = o.recordFilter /\ t.added = o.added
       /\ t.bodyFilter = o.bodyFilter /\ t.addedBodies = o.addedBodies
       /\ t.synchronizing = o.synchronizing /\ t.wiped = o.wiped
       /\ t.pendingReads = o.pendingReads /\ t.activeReads = o.activeReads
       /\ t.io = o.io /\ t.background = o.background /\ t.main = o.main
  BY <1>5, <1>8, <1>a, RemoveRecordEffect, SMTT(40)
<1>b. o.pendingWrites = s.pendingWrites
  BY <1>1, PoppedType DEF o, Members, TypeOK
<1>11. ReadStep(t)
  BY <1>8, <1>10, <1>b DEF ReadStep, PendingLess
<1>12. ar \in FiniteSubsetsOf(Nat) /\ rt \in BOOLEAN
  <2>1. t.activeReads \in SUBSET Nat /\ IsFiniteSet(t.activeReads)
    BY <1>10, FieldTypes DEF FiniteSubsetsOf
  <2>2. ar \in SUBSET t.activeReads
    OBVIOUS
  <2> HIDE DEF ar
  <2>3. IsFiniteSet(ar)
    BY <2>1, <2>2, FS_Subset
  <2> QED
    BY <2>1, <2>2, <2>3 DEF FiniteSubsetsOf
<1>13. ar = s.activeReads \ {r}
  BY <1>8, <1>10
<1> HIDE DEF ar, rt
<1>14. /\ m \in Members /\ m.main = t.main /\ m.pendingReads = t.pendingReads /\ m.activeReads = ar /\ m.io = t.io
       /\ ReadStep(m)
  BY <1>10, <1>11, <1>12 DEF Members, ReadStep, PendingLess
<1>15. /\ m \in Members /\ s' = DispatchPendingReads(m, reads)
       /\ ReadStep(m) /\ m.main = Tail(s.main)
       /\ m.pendingReads = s.pendingReads /\ m.activeReads = s.activeReads \ {r} /\ m.io = s.io
  BY <1>8, <1>9, <1>10, <1>13, <1>14
<1> HIDE DEF m
<1> QED
  BY <1>1, <1>3, <1>4, <1>6, <1>15

LEMMA FinishReadType ==
    ASSUME TypeOK, ReadInv, FinishRead
    PROVE  TypeOK' /\ ReadStep(s') /\ UNCHANGED <<writes, records, bodies>>
<1> DEFINE r == Head(s.main).r
<1>0. r = Head(s.main).r
  OBVIOUS
<1> HIDE DEF r
<1>1. r \in DOMAIN reads /\ reads' = FinishedReads(r) /\ UNCHANGED <<writes, records, bodies>>
  BY <1>0, FinishReadEffect
<1>2. reads' \in Seq(Reads)
  <2>1. reads \in Seq(Reads) /\ reads[r] \in Reads
    BY <1>1, ElementTypes DEF TypeOK
  <2>2. Answered(reads[r], Result(reads[r])) \in Reads
    BY <2>1, ResultType, AnsweredType
  <2>3. [reads EXCEPT ![r] = Answered(reads[r], Result(reads[r]))] \in Seq(Reads)
    BY <2>1, <2>2, ReadChanged
  <2> QED
    BY <1>1, <2>1, <2>3 DEF FinishedReads
<1>3. PICK m \in Members : s' = DispatchPendingReads(m, reads) /\ ReadStep(m)
  BY <1>0, FinishReadEffect
<1>4. /\ s' \in Members
      /\ s'.pendingWrites = m.pendingWrites /\ s'.activeWrites = m.activeWrites
      /\ s'.recordFilter = m.recordFilter /\ s'.added = m.added
      /\ s'.bodyFilter = m.bodyFilter /\ s'.addedBodies = m.addedBodies
      /\ s'.synchronizing = m.synchronizing /\ s'.wiped = m.wiped
      /\ s'.background = m.background /\ s'.main = m.main
  BY <1>3, DispatchReadsEffect
<1>5. ReadStep(s')
  BY <1>3, <1>4 DEF ReadStep, PendingLess
<1> QED
  BY <1>1, <1>2, <1>4, <1>5 DEF TypeOK

(* Steps that change the queue of the reads and perhaps post to the main   *)
(* thread.                                                                 *)
IOChanged(q, p) == [s EXCEPT !.io = q, !.main = p]

LEMMA IOStep ==
    ASSUME TypeOK, NEW q \in Seq(IOFunctions), NEW p \in Seq(MainFunctions),
           Agree(s.main, p, MainWriteFunctions), NEW t, t = IOChanged(q, p)
    PROVE  /\ t \in Members /\ ReadStep(t) /\ t.io = q /\ t.main = p
           /\ t.pendingReads = s.pendingReads /\ t.activeReads = s.activeReads
  BY DEF TypeOK, ReadStep, PendingLess, Members, IOChanged

LEMMA HeadIO ==
    ASSUME TypeOK, ReadInv, s.io # <<>>, NEW f, f = Head(s.io), f.op # "clear"
    PROVE  /\ f \in IOReadFunctions /\ f \in Range(s.io) /\ f.r \in s.activeReads /\ f.r \in DOMAIN reads
           /\ reads[f.r] \in Reads /\ reads[f.r].key \in Keys
           /\ s.io \in Seq(IOFunctions) /\ s.main \in Seq(MainFunctions)
<1>1. s.io \in Seq(IOFunctions) /\ s.main \in Seq(MainFunctions)
  BY FieldTypes DEF TypeOK
<1>2. f \in IOFunctions /\ f \in Range(s.io)
  BY <1>1, TailFacts
<1>3. f \in IOReadFunctions
  BY <1>2, Kinds
<1>4. f.r \in s.activeReads /\ f.r \in DOMAIN reads
  BY <1>2, <1>3 DEF ReadInv, ActiveReadsInv
<1> QED
  BY <1>1, <1>2, <1>3, <1>4, ElementTypes DEF Reads

Opened(read, file, getBody) ==
    [read EXCEPT !.activeCount = IF getBody THEN 2 ELSE 1, !.file = file, !.reading = file # None]

LEMMA OpenedType ==
    ASSUME NEW read \in Reads, NEW file \in Files, NEW getBody \in BOOLEAN, NEW o, o = Opened(read, file, getBody)
    PROVE  /\ o \in Reads
           /\ o.activeCount = IF getBody THEN 2 ELSE 1
           /\ o.file = file /\ o.reading = (file # None)
           /\ o.key = read.key /\ o.record = read.record /\ o.body = read.body
           /\ o.canceled = read.canceled /\ o.answers = read.answers
<1> DEFINE count == IF getBody THEN 2 ELSE 1
           reading == file # None
<1>1. count \in Int /\ reading \in BOOLEAN
  OBVIOUS
<1>2. o = [read EXCEPT !.activeCount = count, !.file = file, !.reading = reading]
  BY DEF Opened
<1> HIDE DEF count, reading
<1>3. /\ o \in Reads
      /\ o.activeCount = count
      /\ o.file = file /\ o.reading = reading
      /\ o.key = read.key /\ o.record = read.record /\ o.body = read.body
      /\ o.canceled = read.canceled /\ o.answers = read.answers
  BY <1>1, <1>2 DEF Reads
<1> QED
  BY <1>3 DEF count, reading

LEMMA OpenRecordEffect ==
    ASSUME TypeOK, ReadInv, OpenRecord, NEW f, f = Head(s.io), NEW file, file = records[reads[f.r].key]
    PROVE  /\ s.io # <<>> /\ f.op = "read" /\ file \in Files /\ f.getBody \in BOOLEAN
           /\ reads' = [reads EXCEPT ![f.r] = Opened(reads[f.r], file, f.getBody)]
           /\ UNCHANGED <<writes, records, bodies>>
           /\ s'.main = s.main /\ ReadStep(s') /\ s' \in Members
           /\ s'.pendingReads = s.pendingReads /\ s'.activeReads = s.activeReads
           /\ \E q \in Seq(IOFunctions) :
                  /\ IF f.getBody THEN q = [s.io EXCEPT ![1] = [f EXCEPT !.op = "getBody"]] ELSE q = Tail(s.io)
                  /\ s'.io = IF file = None THEN Append(q, [op |-> "readRecord", r |-> f.r, record |-> None])
                                            ELSE q
           /\ [op |-> "readRecord", r |-> f.r, record |-> None] \in IOReadFunctions
           /\ [f EXCEPT !.op = "getBody"] \in IOReadFunctions
<1>1. s.io # <<>> /\ f.op = "read"
  BY DEF OpenRecord, At
<1>2. /\ f \in IOReadFunctions /\ f.r \in DOMAIN reads /\ reads[f.r].key \in Keys
      /\ s.io \in Seq(IOFunctions) /\ s.main \in Seq(MainFunctions)
  BY <1>1, HeadIO
<1>3. file \in Files
  BY <1>2 DEF TypeOK
<1> DEFINE e == [op |-> "readRecord", r |-> f.r, record |-> None]
           g == [f EXCEPT !.op = "getBody"]
           q == IF f.getBody THEN [s.io EXCEPT ![1] = g] ELSE Tail(s.io)
           next == IF f.getBody THEN [s EXCEPT !.io[1].op = "getBody"] ELSE Popped("io")
<1>4. f.r \in Nat /\ f.getBody \in BOOLEAN /\ e \in IOReadFunctions /\ g \in IOReadFunctions
  BY <1>1, <1>2 DEF IOReadFunctions, Files
<1>5. e \in IOFunctions /\ g \in IOFunctions
  BY <1>4 DEF IOFunctions
<1>6. s.io[1] = f /\ s \in Members
  BY <1>1, <1>2, TailPlaces DEF TypeOK
<1>7. next = [s EXCEPT !.io = q]
  <2>1. CASE f.getBody
    <3>1. [s EXCEPT !.io[1].op = "getBody"] = [s EXCEPT !.io = [s.io EXCEPT ![1] = [s.io[1] EXCEPT !.op = "getBody"]]]
      OBVIOUS
    <3> QED
      BY <1>6, <2>1, <3>1
  <2>2. CASE ~f.getBody
    BY <1>1, <2>2, PoppedType
  <2> QED
    BY <2>1, <2>2
<1>8. q \in Seq(IOFunctions)
  <2>1. [s.io EXCEPT ![1] = g] \in Seq(IOFunctions)
    BY <1>1, <1>2, <1>5, HeadChanged
  <2>2. Tail(s.io) \in Seq(IOFunctions)
    BY <1>1, PoppedType
  <2> QED
    BY <2>1, <2>2
<1>9. reads' = [reads EXCEPT ![f.r] = Opened(reads[f.r], file, f.getBody)] /\ UNCHANGED <<writes, records, bodies>>
  BY DEF OpenRecord, Opened
<1>10. s' = IF file = None THEN Post(next, "io", e) ELSE next
  BY DEF OpenRecord
<1>11. IF f.getBody THEN q = [s.io EXCEPT ![1] = g] ELSE q = Tail(s.io)
  OBVIOUS
<1> DEFINE io == IF file = None THEN Append(q, e) ELSE q
<1> HIDE DEF e, g, q, next
<1>12. next \in Members /\ next.io = q
  BY <1>6, <1>7, <1>8 DEF Members
<1>13. io \in Seq(IOFunctions)
  BY <1>5, <1>8, AppendProperties
<1>14. s' = IOChanged(io, s.main)
  <2>1. CASE file = None
    <3>1. s' = [next EXCEPT !.io = Append(q, e)]
      BY <1>5, <1>10, <1>12, <2>1, PostIO
    <3> QED
      BY <1>6, <1>7, <2>1, <3>1 DEF Members, IOChanged
  <2>2. CASE file # None
    BY <1>6, <1>7, <1>10, <2>2 DEF Members, IOChanged
  <2> QED
    BY <2>1, <2>2
<1>15. Agree(s.main, s.main, MainWriteFunctions)
  BY AgreeSame
<1> HIDE DEF io
<1>16. /\ s' \in Members /\ ReadStep(s') /\ s'.io = io /\ s'.main = s.main
       /\ s'.pendingReads = s.pendingReads /\ s'.activeReads = s.activeReads
  BY <1>2, <1>13, <1>14, <1>15, IOStep
<1> QED
  BY <1>1, <1>3, <1>4, <1>8, <1>9, <1>11, <1>16 DEF io, e, g

LEMMA OpenRecordType ==
    ASSUME TypeOK, ReadInv, OpenRecord
    PROVE  TypeOK' /\ ReadStep(s') /\ UNCHANGED <<writes, records, bodies>>
<1> DEFINE f == Head(s.io)
           file == records[reads[f.r].key]
<1>0. f = Head(s.io) /\ file = records[reads[f.r].key]
  OBVIOUS
<1> HIDE DEF f, file
<1>1. /\ s.io # <<>> /\ f.op = "read" /\ file \in Files /\ s' \in Members /\ ReadStep(s')
      /\ f.getBody \in BOOLEAN
      /\ reads' = [reads EXCEPT ![f.r] = Opened(reads[f.r], file, f.getBody)]
      /\ UNCHANGED <<writes, records, bodies>>
  BY <1>0, OpenRecordEffect
<1>2. reads[f.r] \in Reads
  BY <1>0, <1>1, HeadIO
<1>3. Opened(reads[f.r], file, f.getBody) \in Reads
  BY <1>1, <1>2, OpenedType
<1>4. reads' \in Seq(Reads)
  BY <1>1, <1>3, ReadChanged DEF TypeOK
<1> QED
  BY <1>1, <1>4 DEF TypeOK

LEMMA ReadSyncEffect ==
    ASSUME TypeOK, NEW r \in DOMAIN reads, ReadSync(r),
           NEW record, record = IF Whole(reads[r].file) THEN reads[r].file ELSE None
    PROVE  /\ reads' = [reads EXCEPT ![r] = [reads[r] EXCEPT !.reading = FALSE]]
           /\ UNCHANGED <<writes, records, bodies>>
           /\ s' \in Members /\ ReadStep(s') /\ s'.main = s.main
           /\ s'.pendingReads = s.pendingReads /\ s'.activeReads = s.activeReads
           /\ s'.io = Append(s.io, [op |-> "readRecord", r |-> r, record |-> record])
           /\ [op |-> "readRecord", r |-> r, record |-> record] \in IOReadFunctions
<1> DEFINE e == [op |-> "readRecord", r |-> r, record |-> record]
<1>1. r \in Nat /\ record \in Files
  BY ElementTypes DEF Reads, Files
<1>2. e \in IOReadFunctions /\ e \in IOFunctions
  BY <1>1 DEF IOReadFunctions, IOFunctions
<1>3. reads' = [reads EXCEPT ![r] = [reads[r] EXCEPT !.reading = FALSE]] /\ UNCHANGED <<writes, records, bodies>>
      /\ s' = Post(s, "io", e)
  BY DEF ReadSync
<1> HIDE DEF e
<1>4. s \in Members /\ s.io \in Seq(IOFunctions) /\ s.main \in Seq(MainFunctions)
  BY FieldTypes DEF TypeOK
<1>5. Append(s.io, e) \in Seq(IOFunctions) /\ s' = [s EXCEPT !.io = Append(s.io, e)]
  BY <1>2, <1>3, <1>4, PostIO, AppendProperties
<1> DEFINE q == Append(s.io, e)
<1> HIDE DEF q
<1>6. s' = IOChanged(q, s.main) /\ q \in Seq(IOFunctions)
  BY <1>4, <1>5 DEF Members, q, IOChanged
<1>7. /\ s' \in Members /\ ReadStep(s') /\ s'.io = q /\ s'.main = s.main
      /\ s'.pendingReads = s.pendingReads /\ s'.activeReads = s.activeReads
  BY <1>4, <1>6, AgreeSame, IOStep
<1> QED
  BY <1>2, <1>3, <1>7 DEF e, q

LEMMA ReadSyncType ==
    ASSUME TypeOK, NEW r \in DOMAIN reads, ReadSync(r)
    PROVE  TypeOK' /\ ReadStep(s') /\ UNCHANGED <<writes, records, bodies>>
<1>1. /\ reads' = [reads EXCEPT ![r] = [reads[r] EXCEPT !.reading = FALSE]]
      /\ UNCHANGED <<writes, records, bodies>> /\ s' \in Members /\ ReadStep(s')
  BY ReadSyncEffect
<1>2. [reads[r] EXCEPT !.reading = FALSE] \in Reads
  BY ElementTypes DEF Reads
<1>3. reads' \in Seq(Reads)
  BY <1>1, <1>2, ReadChanged DEF TypeOK
<1> QED
  BY <1>1, <1>3 DEF TypeOK

(* finishReadOperation() for the read e, the function at the head done.    *)
LEMMA FinishOperationEffect ==
    ASSUME TypeOK, ReadInv, s.io # <<>>, NEW f, f = Head(s.io), f.op # "clear", NEW e \in Reads,
           FinishReadOperation([reads EXCEPT ![f.r] = e], f.r)
    PROVE  /\ reads' = [reads EXCEPT ![f.r] = [e EXCEPT !.activeCount = e.activeCount - 1]]
           /\ UNCHANGED <<writes, records, bodies>>
           /\ s' \in Members /\ ReadStep(s') /\ s'.io = Tail(s.io)
           /\ s'.pendingReads = s.pendingReads /\ s'.activeReads = s.activeReads
           /\ s'.main = IF e.activeCount = 1 THEN Append(s.main, [op |-> "finishRead", r |-> f.r]) ELSE s.main
           /\ [op |-> "finishRead", r |-> f.r] \in FinishReadFunctions
           /\ TypeOK'
<1>1. /\ f.r \in DOMAIN reads /\ s.io \in Seq(IOFunctions) /\ s.main \in Seq(MainFunctions)
      /\ reads \in Seq(Reads) /\ s \in Members
  BY HeadIO DEF TypeOK
<1>2. f.r \in Nat
  BY <1>1, ElementTypes
<1> DEFINE r == f.r
           rs == [reads EXCEPT ![r] = e]
           d == [e EXCEPT !.activeCount = e.activeCount - 1]
           g == [op |-> "finishRead", r |-> r]
           p == IF e.activeCount = 1 THEN Append(s.main, g) ELSE s.main
<1>3. g \in FinishReadFunctions /\ g \in MainFunctions /\ g \notin MainWriteFunctions
  BY <1>2 DEF FinishReadFunctions, MainFunctions, MainReadFunctions, MainWriteFunctions,
              BodyStoredFunctions, SynchronizedFunctions
<1>4. reads' = [rs EXCEPT ![r] = [rs[r] EXCEPT !.activeCount = rs[r].activeCount - 1]] /\ UNCHANGED <<writes, records, bodies>>
      /\ s' = IF rs[r].activeCount = 1 THEN Post(Popped("io"), "main", g) ELSE Popped("io")
  BY DEF FinishReadOperation
<1>5. rs[r] = e
  BY <1>1
<1>6. reads' = [reads EXCEPT ![r] = d]
  BY <1>4, <1>5
<1>7. d \in Reads
  BY DEF Reads
<1> HIDE DEF r, rs, d, g
<1>8. reads' \in Seq(Reads)
  BY <1>1, <1>6, <1>7, ReadChanged
<1> DEFINE o == Popped("io")
<1>9. o \in Members /\ o = [s EXCEPT !.io = Tail(s.io)] /\ Tail(s.io) \in Seq(IOFunctions)
  BY PoppedType
<1>a. Tail(s.io) \in Seq(IOFunctions)
  BY <1>9
<1> HIDE DEF o
<1>10. p \in Seq(MainFunctions) /\ Agree(s.main, p, MainWriteFunctions)
  BY <1>1, <1>3, AppendProperties, AgreeAppend, AgreeSame
<1>11. s' = IOChanged(Tail(s.io), p)
  <2>1. CASE e.activeCount = 1
    <3>1. s' = Post(o, "main", g)
      BY <1>4, <1>5, <2>1 DEF o
    <3>2. s' = [o EXCEPT !.main = Append(o.main, g)]
      BY <1>3, <1>9, <3>1, PostMain
    <3> QED
      BY <1>1, <1>9, <2>1, <3>2 DEF Members, IOChanged
  <2>2. CASE e.activeCount # 1
    <3>1. s' = o
      BY <1>4, <1>5, <2>2 DEF o
    <3> QED
      BY <1>1, <1>9, <2>2, <3>1 DEF Members, IOChanged
  <2> QED
    BY <2>1, <2>2
<1> HIDE DEF p
<1>12. /\ s' \in Members /\ ReadStep(s') /\ s'.io = Tail(s.io) /\ s'.main = p
       /\ s'.pendingReads = s.pendingReads /\ s'.activeReads = s.activeReads
  <2> DEFINE io == Tail(s.io)
             t == s'
  <2>1. io \in Seq(IOFunctions) /\ t = IOChanged(io, p)
    BY <1>a, <1>11
  <2> HIDE DEF io, t
  <2>2. /\ t \in Members /\ ReadStep(t) /\ t.io = io /\ t.main = p
        /\ t.pendingReads = s.pendingReads /\ t.activeReads = s.activeReads
    BY <1>10, <2>1, IOStep
  <2> QED
    BY <2>2 DEF io, t
<1>13. TypeOK'
  BY <1>4, <1>8, <1>12 DEF TypeOK
<1> QED
  BY <1>3, <1>4, <1>6, <1>12, <1>13 DEF p, d, g, r

LEMMA GetBodyEffect ==
    ASSUME TypeOK, ReadInv, GetBody, NEW f, f = Head(s.io), NEW e, e = [reads[f.r] EXCEPT !.body = bodies[reads[f.r].key]]
    PROVE  /\ s.io # <<>> /\ f.op = "getBody" /\ e \in Reads
           /\ FinishReadOperation([reads EXCEPT ![f.r] = e], f.r)
<1>1. s.io # <<>> /\ f.op = "getBody"
  BY DEF GetBody, At
<1>2. reads[f.r] \in Reads /\ reads[f.r].key \in Keys
  BY <1>1, HeadIO
<1>3. bodies[reads[f.r].key] \in Files
  BY <1>2 DEF TypeOK
<1>4. e \in Reads
  BY <1>2, <1>3 DEF Reads
<1>5. FinishReadOperation([reads EXCEPT ![f.r] = e], f.r)
  BY DEF GetBody
<1> QED
  BY <1>1, <1>4, <1>5

LEMMA ReadRecordEffect ==
    ASSUME TypeOK, ReadInv, ReadRecord, NEW f, f = Head(s.io), NEW e, e = [reads[f.r] EXCEPT !.record = f.record]
    PROVE  /\ s.io # <<>> /\ f.op = "readRecord" /\ e \in Reads
           /\ FinishReadOperation([reads EXCEPT ![f.r] = e], f.r)
<1>1. s.io # <<>> /\ f.op = "readRecord"
  BY DEF ReadRecord, At
<1>2. reads[f.r] \in Reads /\ f \in IOReadFunctions
  BY <1>1, HeadIO
<1>3. f.record \in Files
  BY <1>1, <1>2 DEF IOReadFunctions
<1>4. e \in Reads
  BY <1>2, <1>3 DEF Reads
<1>5. FinishReadOperation([reads EXCEPT ![f.r] = e], f.r)
  BY DEF ReadRecord
<1> QED
  BY <1>1, <1>4, <1>5

LEMMA GetBodyType ==
    ASSUME TypeOK, ReadInv, GetBody
    PROVE  TypeOK' /\ ReadStep(s') /\ UNCHANGED <<writes, records, bodies>>
<1> DEFINE f == Head(s.io)
           e == [reads[f.r] EXCEPT !.body = bodies[reads[f.r].key]]
<1>1. /\ s.io # <<>> /\ f.op # "clear" /\ e \in Reads
      /\ FinishReadOperation([reads EXCEPT ![f.r] = e], f.r) /\ f = Head(s.io)
  BY GetBodyEffect
<1> HIDE DEF f, e
<1> QED
  BY <1>1, FinishOperationEffect

LEMMA ReadRecordType ==
    ASSUME TypeOK, ReadInv, ReadRecord
    PROVE  TypeOK' /\ ReadStep(s') /\ UNCHANGED <<writes, records, bodies>>
<1> DEFINE f == Head(s.io)
           e == [reads[f.r] EXCEPT !.record = f.record]
<1>1. /\ s.io # <<>> /\ f.op # "clear" /\ e \in Reads
      /\ FinishReadOperation([reads EXCEPT ![f.r] = e], f.r) /\ f = Head(s.io)
  BY ReadRecordEffect
<1> HIDE DEF f, e
<1> QED
  BY <1>1, FinishOperationEffect

-----------------------------------------------------------------------------
(* Steps that leave the reads alone.                                       *)
ReadsAlone(m, t) ==
    /\ t.pendingReads = m.pendingReads /\ t.activeReads = m.activeReads
    /\ Agree(m.io, t.io, IOReadFunctions) /\ Agree(m.main, t.main, MainReadFunctions)

Alone(m, t) == WritesAlone(m, t) /\ FiltersAlone(m, t) /\ ReadsAlone(m, t)

(* What a step that is not one of the reads' keeps.                        *)
WriteStepOK == TypeOK' /\ WriteInv' /\ DiskInv' /\ reads' = reads /\ ReadsAlone(s, s') /\ SameKeys(writes, writes')

LEMMA AloneIsOK ==
    ASSUME TypeOK, WriteInv, DiskInv, TypeOK', Alone(s, s'), writes' = writes, reads' = reads,
           \A k \in Keys : records'[k] \in {records[k], None} /\ bodies'[k] \in {bodies[k], None}
    PROVE  WriteStepOK
<1>1. WriteInv' /\ DiskInv'
  BY AloneKeeps DEF Alone
<1> QED
  BY <1>1 DEF Alone, WriteStepOK, SameKeys

(* Only these fields count.                                                *)
LEMMA SameIsAlone ==
    ASSUME NEW m, NEW t,
           t.pendingWrites = m.pendingWrites, t.activeWrites = m.activeWrites,
           t.recordFilter = m.recordFilter, t.added = m.added,
           t.bodyFilter = m.bodyFilter, t.addedBodies = m.addedBodies,
           t.synchronizing = m.synchronizing, t.wiped = m.wiped,
           t.pendingReads = m.pendingReads, t.activeReads = m.activeReads,
           t.io = m.io, t.background = m.background, t.main = m.main
    PROVE  Alone(m, t)
  BY AgreeSame DEF Alone, WritesAlone, FiltersAlone, ReadsAlone, PendingLess

LEMMA ShrinkIsAlone ==
    ASSUME NEW m \in Members, NEW t \in ShrinkIfNeeded(m)
    PROVE  t \in Members /\ Alone(m, t)
<1>1. CASE t = m
  BY <1>1, SameIsAlone
<1>2. CASE t = Shrink(m)
  <2> DEFINE f == [op |-> "shrink"]
  <2>1. /\ t \in Members
        /\ t.background \in {m.background, Append(m.background, f)}
        /\ f \in BackgroundFunctions
        /\ t.recordFilter = m.recordFilter /\ t.added = m.added
        /\ t.bodyFilter = m.bodyFilter /\ t.addedBodies = m.addedBodies
        /\ t.synchronizing = m.synchronizing /\ t.wiped = m.wiped
        /\ t.pendingWrites = m.pendingWrites /\ t.activeWrites = m.activeWrites
        /\ t.pendingReads = m.pendingReads /\ t.activeReads = m.activeReads
        /\ t.io = m.io /\ t.main = m.main
    BY <1>2, ShrinkEffect
  <2>2. f \notin WriteFunctions \cup SynchronizeFunctions
    BY DEF WriteFunctions, SynchronizeFunctions
  <2> HIDE DEF f
  <2>3. m.background \in Seq(BackgroundFunctions)
    BY FieldTypes
  <2>4. /\ Agree(m.background, t.background, WriteFunctions \cup SynchronizeFunctions)
        /\ Agree(m.background, t.background, WriteFunctions)
    BY <2>1, <2>2, <2>3, AgreeAppend, AgreeSame
  <2> QED
    BY <2>1, <2>4, AgreeSame DEF Alone, WritesAlone, FiltersAlone, ReadsAlone, PendingLess
<1> QED
  BY <1>1, <1>2 DEF ShrinkIfNeeded

LEMMA RemoveIsAlone ==
    ASSUME NEW m \in Members, NEW k \in Keys, NEW mayContain \in BOOLEAN,
           NEW t, t = RemoveRecord(m, k, mayContain)
    PROVE  t \in Members /\ Alone(m, t)
  BY RemoveRecordEffect, AgreeSame DEF Alone, WritesAlone, FiltersAlone, ReadsAlone, PendingLess

LEMMA RemoveKeyStep ==
    ASSUME TypeOK, WriteInv, DiskInv, NEW k \in Keys, RemoveKey(k)
    PROVE  WriteStepOK
<1> DEFINE m == [Called EXCEPT !.removed[k] = Len(writes)]
           removed == [s.removed EXCEPT ![k] = Len(writes)]
<1>1. s \in Members /\ s.removed \in [Keys -> Files] /\ s.calls + 1 \in Nat /\ Len(writes) \in Files
  BY FieldTypes, ElementTypes DEF TypeOK, Files
<1>2. removed \in [Keys -> Files]
  BY <1>1
<1>3. m = [s EXCEPT !.calls = s.calls + 1, !.removed = removed]
  BY <1>1 DEF Called, Members
<1> HIDE DEF m, removed
<1>4. m \in Members
  BY <1>1, <1>2, <1>3 DEF Members
<1>5. Alone(s, m)
  BY <1>1, <1>3, AgreeSame DEF Alone, WritesAlone, FiltersAlone, ReadsAlone, PendingLess, Members
<1>6. PICK mayContain \in BOOLEAN : s' = RemoveRecord(m, k, mayContain)
  BY DEF RemoveKey, MayContain, m
<1>7. s' \in Members /\ Alone(m, s')
  BY <1>4, <1>6, RemoveIsAlone
<1>8. Alone(s, s')
  <2>1. m.pendingWrites = s.pendingWrites /\ m.activeWrites = s.activeWrites
    BY <1>1, <1>3 DEF Members
  <2> QED
    BY <1>5, <1>7, <2>1, AgreeTransitive DEF Alone, WritesAlone, FiltersAlone, ReadsAlone, PendingLess
<1> QED
  BY <1>7, <1>8, AloneIsOK DEF RemoveKey, TypeOK

LEMMA SetCapacityStep ==
    ASSUME TypeOK, WriteInv, DiskInv, NEW some \in BOOLEAN, SetCapacity(some)
    PROVE  WriteStepOK
<1> DEFINE m == [Called EXCEPT !.capacity = some]
<1>1. s \in Members /\ s.calls + 1 \in Nat
  BY FieldTypes DEF TypeOK
<1>2. m = [s EXCEPT !.calls = s.calls + 1, !.capacity = some]
  BY <1>1 DEF Called, Members
<1>3. s' \in ShrinkIfNeeded(m)
  BY DEF SetCapacity
<1> HIDE DEF m
<1>4. m \in Members
  BY <1>1, <1>2 DEF Members
<1>5. Alone(s, m)
  BY <1>1, <1>2, AgreeSame DEF Alone, WritesAlone, FiltersAlone, ReadsAlone, PendingLess, Members
<1>6. s' \in Members /\ Alone(m, s')
  BY <1>3, <1>4, ShrinkIsAlone
<1>7. Alone(s, s')
  <2>1. m.pendingWrites = s.pendingWrites /\ m.activeWrites = s.activeWrites
    BY <1>1, <1>2 DEF Members
  <2> QED
    BY <1>5, <1>6, <2>1, AgreeTransitive DEF Alone, WritesAlone, FiltersAlone, ReadsAlone, PendingLess
<1> QED
  BY <1>6, <1>7, AloneIsOK DEF SetCapacity, TypeOK

LEMMA DeleteFileStep ==
    ASSUME TypeOK, WriteInv, DiskInv, DeleteFile \/ UnlinkBody
    PROVE  WriteStepOK
<1>1. s' = Popped("serial") /\ s.serial # <<>>
  BY DEF DeleteFile, UnlinkBody, At
<1>2. s' \in Members /\ s' = [s EXCEPT !.serial = Tail(s.serial)] /\ s \in Members
  BY <1>1, PoppedType DEF TypeOK
<1>3. Alone(s, s')
  BY <1>2, AgreeSame DEF Alone, WritesAlone, FiltersAlone, ReadsAlone, PendingLess, Members
<1>4. /\ writes' = writes /\ reads' = reads
      /\ records' \in [Keys -> Files] /\ bodies' \in [Keys -> Files]
      /\ \A k \in Keys : records'[k] \in {records[k], None} /\ bodies'[k] \in {bodies[k], None}
  BY DEF DeleteFile, UnlinkBody, TypeOK, Files
<1> QED
  BY <1>2, <1>3, <1>4, AloneIsOK DEF TypeOK

LEMMA ClearFilesStep ==
    ASSUME TypeOK, WriteInv, DiskInv, ClearFiles
    PROVE  WriteStepOK
<1>1. s' = Popped("io") /\ s.io # <<>> /\ Head(s.io).op = "clear"
  BY DEF ClearFiles, At
<1>2. s' \in Members /\ s' = [s EXCEPT !.io = Tail(s.io)] /\ s \in Members /\ Head(s.io) \in IOFunctions
  BY <1>1, PoppedType DEF TypeOK
<1>3. Agree(s.io, Tail(s.io), IOReadFunctions)
  <2>1. Head(s.io) \notin IOReadFunctions /\ s.io \in Seq(IOFunctions)
    BY <1>1, <1>2, Kinds, FieldTypes
  <2> QED
    BY <1>1, <2>1, AgreeTail
<1>4. Alone(s, s')
  BY <1>2, <1>3, AgreeSame DEF Alone, WritesAlone, FiltersAlone, ReadsAlone, PendingLess, Members
<1>5. /\ writes' = writes /\ reads' = reads
      /\ records' \in [Keys -> Files] /\ bodies' \in [Keys -> Files]
      /\ \A k \in Keys : records'[k] \in {records[k], None} /\ bodies'[k] \in {bodies[k], None}
  BY DEF ClearFiles, TypeOK, Files
<1> QED
  BY <1>2, <1>4, <1>5, AloneIsOK DEF TypeOK

LEMMA ShrinkFilesStep ==
    ASSUME TypeOK, WriteInv, DiskInv, ShrinkFiles
    PROVE  WriteStepOK
<1> DEFINE o == Popped("background")
           f == [op |-> "shrunk"]
<1>1. s' = Post(o, "main", f) /\ s.background # <<>> /\ Head(s.background).op = "shrink"
  BY DEF ShrinkFiles, At
<1>2. /\ o \in Members /\ o = [s EXCEPT !.background = Tail(s.background)] /\ s \in Members
      /\ Head(s.background) \in BackgroundFunctions
  BY <1>1, PoppedType DEF TypeOK
<1>3. f \in MainFunctions /\ f \notin MainWriteFunctions \cup MainReadFunctions /\ f \notin BodyStoredFunctions
  BY DEF MainFunctions, MainWriteFunctions, MainReadFunctions, BodyStoredFunctions,
         SynchronizedFunctions, AnswerFunctions, FinishReadFunctions
<1> HIDE DEF o, f
<1>4. s' \in Members /\ s' = [o EXCEPT !.main = Append(o.main, f)] /\ o.main = s.main
  BY <1>1, <1>2, <1>3, PostMain DEF Members
<1>5. s.background \in Seq(BackgroundFunctions) /\ s.main \in Seq(MainFunctions)
  BY <1>2, FieldTypes
<1>6. /\ Agree(s.background, Tail(s.background), WriteFunctions \cup SynchronizeFunctions)
      /\ Agree(s.background, Tail(s.background), WriteFunctions)
  <2>1. Head(s.background) \notin WriteFunctions \cup SynchronizeFunctions
    BY <1>1, <1>2, Kinds
  <2> QED
    BY <1>1, <1>5, <2>1, AgreeTail
<1>7. /\ Agree(s.main, Append(s.main, f), MainWriteFunctions)
      /\ Agree(s.main, Append(s.main, f), MainReadFunctions)
      /\ Agree(s.main, Append(s.main, f), BodyStoredFunctions)
  BY <1>3, <1>5, AgreeAppend
<1>8. Alone(s, s')
  BY <1>2, <1>4, <1>6, <1>7, AgreeSame DEF Alone, WritesAlone, FiltersAlone, ReadsAlone, PendingLess, Members
<1>9. /\ writes' = writes /\ reads' = reads
      /\ records' \in [Keys -> Files] /\ bodies' \in [Keys -> Files]
      /\ \A k \in Keys : records'[k] \in {records[k], None} /\ bodies'[k] \in {bodies[k], None}
  BY DEF ShrinkFiles, TypeOK, Files
<1> QED
  BY <1>4, <1>8, <1>9, AloneIsOK DEF TypeOK

-----------------------------------------------------------------------------
(* What is kept of the members m while a handler is at work.               *)
WritesOK(m, w) ==
    /\ PendingInv(m, w) /\ ActiveInv(m, w)
    /\ RecordsInv(m, w, records) /\ FilterInv(m, w, records, bodies)

(* When no write is active none of them has anything to come.              *)
LEMMA NoneActive ==
    ASSUME NEW m \in Members, NEW w \in Seq(Writes), ActiveInv(m, w), m.activeWrites = {}
    PROVE  /\ Range(m.background) \cap WriteFunctions = {}
           /\ Range(m.main) \cap BodyStoredFunctions = {}
           /\ \A n \in DOMAIN w : w[n].at = "memory" /\ w[n].activeCount = 0
<1>1. Range(m.background) \cap WriteFunctions = {} /\ Range(m.main) \cap BodyStoredFunctions = {}
  BY DEF ActiveInv
<1>2. ASSUME NEW n \in DOMAIN w PROVE w[n].at = "memory" /\ w[n].activeCount = 0
  <2>1. n \in Nat
    BY LenProperties
  <2>2. w[n].at = "memory"
    BY DEF ActiveInv
  <2>3. ~RecordToCome(m, w, n) /\ ~BodyToCome(m, n)
    BY <1>1, <2>1, <2>2 DEF RecordToCome, BodyToCome, WriteFunctions, BodyStoredFunctions
  <2>4. w[n].activeCount = (IF RecordToCome(m, w, n) THEN 1 ELSE 0) + (IF BodyToCome(m, n) THEN 1 ELSE 0)
    BY DEF ActiveInv
  <2> QED
    BY <2>2, <2>3, <2>4
<1> QED
  BY <1>1, <1>2

LEMMA DispatchKeepsActive ==
    ASSUME NEW m \in Members, NEW w \in Seq(Writes), ActiveInv(m, w), m.activeWrites = {},
           NEW d \in Members, NEW n \in DOMAIN w, NEW f, f = WriteOf(n),
           d.background = Append(m.background, f), d.activeWrites = {n}, d.main = m.main
    PROVE  /\ ActiveInv(d, w)
           /\ Range(d.background) \cap WriteFunctions = {f}
<1>1. /\ Range(m.background) \cap WriteFunctions = {}
      /\ Range(m.main) \cap BodyStoredFunctions = {}
      /\ \A x \in DOMAIN w : w[x].at = "memory" /\ w[x].activeCount = 0
  BY NoneActive
<1>2. n \in Nat /\ DOMAIN w \subseteq Nat
  BY LenProperties
<1>3. f \in WriteFunctions /\ f \in BackgroundFunctions /\ f.n = n /\ f.op = "write"
  BY <1>2 DEF WriteFunctions, BackgroundFunctions, WriteOf
<1>4. m.background \in Seq(BackgroundFunctions)
  BY FieldTypes
<1>5. Range(d.background) = Range(m.background) \cup {f} /\ Once(d.background, WriteFunctions)
  <2>1. Once(m.background, WriteFunctions)
    BY DEF ActiveInv
  <2> QED
    BY <1>1, <1>3, <1>4, <2>1, AppendKeeps
<1>6. Range(d.background) \cap WriteFunctions = {f}
  BY <1>1, <1>3, <1>5
<1>7. ASSUME NEW x \in DOMAIN w PROVE ~RecordToCome(d, w, x) /\ ~BodyToCome(d, x)
  <2>1. [op |-> "create", n |-> x] \in WriteFunctions /\ [op |-> "create", n |-> x] # f
        /\ [op |-> "bodyStored", n |-> x] \in BodyStoredFunctions
    BY <1>2, <1>3 DEF WriteFunctions, BodyStoredFunctions
  <2> QED
    BY <1>1, <1>6, <2>1 DEF RecordToCome, BodyToCome
<1>8. Once(d.main, BodyStoredFunctions) /\ Range(d.main) \cap BodyStoredFunctions = {}
  BY <1>1 DEF ActiveInv
<1>9. ActiveInv(d, w)
  BY <1>1, <1>3, <1>5, <1>6, <1>7, <1>8 DEF ActiveInv
<1> QED
  BY <1>6, <1>9

LEMMA DispatchKeepsFilters ==
    ASSUME NEW m \in Members, NEW w \in Seq(Writes), FilterInv(m, w, records, bodies),
           Range(m.background) \cap WriteFunctions = {},
           NEW d \in Members, NEW f \in WriteFunctions, NEW k, k = w[f.n].key,
           d.background = Append(m.background, f), d.main = m.main,
           d.recordFilter = Add(m.recordFilter, k),
           d.added = IF m.synchronizing THEN m.added \cup {k} ELSE m.added,
           d.bodyFilter = m.bodyFilter, d.addedBodies = m.addedBodies,
           d.synchronizing = m.synchronizing, d.wiped = m.wiped
    PROVE  FilterInv(d, w, records, bodies)
<1>1. m.background \in Seq(BackgroundFunctions) /\ f \in BackgroundFunctions /\ f \notin SynchronizeFunctions
  BY FieldTypes DEF WriteFunctions, SynchronizeFunctions, BackgroundFunctions
<1>2. Range(d.background) = Range(m.background) \cup {f}
  BY <1>1, AppendKeeps
<1>3. /\ Range(d.background) \cap WriteFunctions = {f}
      /\ Range(d.background) \cap SynchronizeFunctions = Range(m.background) \cap SynchronizeFunctions
  BY <1>1, <1>2
<1>4. ASSUME NEW keys, Covers(m, w, records, keys) PROVE Covers(d, w, records, keys \cup {k})
  BY <1>3, <1>4 DEF Covers
<1>5. ASSUME NEW keys, CoversBodies(m, w, bodies, keys) PROVE CoversBodies(d, w, bodies, keys)
  BY <1>5 DEF CoversBodies
<1>6. ~d.wiped /\ d.recordFilter # None => Covers(d, w, records, d.recordFilter)
  BY <1>4 DEF FilterInv, Add
<1>7. ~d.wiped /\ d.bodyFilter # None => CoversBodies(d, w, bodies, d.bodyFilter)
  BY <1>5 DEF FilterInv
<1>8. ASSUME NEW g \in Range(d.main) \cap SynchronizedFunctions
      PROVE  /\ d.synchronizing
             /\ Covers(d, w, records, g.records \cup d.added)
             /\ CoversBodies(d, w, bodies, g.bodies \cup d.addedBodies)
  <2>1. /\ m.synchronizing
        /\ Covers(m, w, records, g.records \cup m.added)
        /\ CoversBodies(m, w, bodies, g.bodies \cup m.addedBodies)
    BY <1>8 DEF FilterInv
  <2>2. g.records \cup d.added = (g.records \cup m.added) \cup {k}
    BY <2>1
  <2> QED
    BY <1>4, <1>5, <2>1, <2>2
<1>9. Range(d.background) \cap SynchronizeFunctions # {} =>
          d.synchronizing /\ Range(d.main) \cap SynchronizedFunctions = {}
  BY <1>3 DEF FilterInv
<1>10. NoneBehind(d.background, SynchronizeFunctions, NotAdded(d, w))
  <2> DEFINE D == NotAdded(d, w)
  <2>1. D \subseteq NotAdded(m, w)
    BY DEF NotAdded
  <2>2. f \in D => Range(m.background) \cap SynchronizeFunctions = {}
    BY DEF NotAdded, FilterInv
  <2> HIDE DEF D
  <2>3. NoneBehind(m.background, SynchronizeFunctions, D)
    BY <2>1, NoneBehindFewer DEF FilterInv
  <2>4. NoneBehind(Append(m.background, f), SynchronizeFunctions, D)
    BY <1>1, <2>2, <2>3, AppendKeeps
  <2> QED
    BY <2>4 DEF D
<1>11. Once(d.main, SynchronizedFunctions) /\ Once(d.background, SynchronizeFunctions)
  BY <1>1, AppendKeeps DEF FilterInv
<1> QED
  BY <1>6, <1>7, <1>8, <1>9, <1>10, <1>11 DEF FilterInv

LEMMA DispatchKeeps ==
    ASSUME TypeOK, NEW m \in Members, NEW w \in Seq(Writes), DOMAIN w = DOMAIN writes, SameKeys(writes, w),
           WritesOK(m, w), NEW d, d = DispatchPendingWrites(m)
    PROVE  d \in Members /\ WritesOK(d, w) /\ ReadsAlone(m, d)
<1> DEFINE n == Last(m.pendingWrites)
           f == WriteOf(n)
           k == writes[n].key
<1>1. Range(m.pendingWrites) \subseteq DOMAIN writes
  BY DEF WritesOK, PendingInv
<1>a. n = Last(m.pendingWrites) /\ k = writes[n].key /\ f = WriteOf(n)
  OBVIOUS
<1>b. /\ ~MayDispatch(m) => d = m
      /\ MayDispatch(m) => Dispatched(m, d, n)
      /\ d \in Members
      /\ d.bodyFilter = m.bodyFilter /\ d.addedBodies = m.addedBodies
      /\ d.synchronizing = m.synchronizing /\ d.wiped = m.wiped /\ d.shrinking = m.shrinking
      /\ d.pendingReads = m.pendingReads /\ d.activeReads = m.activeReads
      /\ d.io = m.io /\ d.main = m.main
  BY <1>1, DispatchWritesEffect
<1> HIDE DEF n
<1>2. /\ MayDispatch(m) =>
             /\ n \in DOMAIN writes /\ n \in Nat /\ k \in Keys
             /\ d.pendingWrites = Front(m.pendingWrites) /\ d.activeWrites = {n}
             /\ d.background = Append(m.background, f)
             /\ d.recordFilter = Add(m.recordFilter, k)
             /\ d.added = IF m.synchronizing THEN m.added \cup {k} ELSE m.added
      /\ d \in Members
      /\ d.bodyFilter = m.bodyFilter /\ d.addedBodies = m.addedBodies
      /\ d.synchronizing = m.synchronizing /\ d.wiped = m.wiped
      /\ d.pendingReads = m.pendingReads /\ d.activeReads = m.activeReads
      /\ d.io = m.io /\ d.main = m.main
  BY <1>b DEF Dispatched
<1> HIDE DEF f, k
<1>3. ReadsAlone(m, d)
  BY <1>2, AgreeSame DEF ReadsAlone
<1>4. CASE ~MayDispatch(m)
  BY <1>b, <1>3, <1>4
<1>5. CASE MayDispatch(m)
  <2>1. m.pendingWrites \in Seq(Nat) /\ m.pendingWrites # <<>> /\ m.activeWrites = {}
    BY <1>5, FieldTypes DEF MayDispatch
  <2>2. /\ Range(m.pendingWrites) = Range(Front(m.pendingWrites)) \cup {n}
        /\ Descending(Front(m.pendingWrites)) /\ \A x \in Range(Front(m.pendingWrites)) : x > n
    BY <1>a, <2>1, FrontFacts DEF WritesOK, PendingInv
  <2>3. n \in DOMAIN w /\ k = w[f.n].key /\ f.n = n
    BY <1>2, <1>5, <1>a DEF SameKeys, WriteOf
  <2>4. f \in WriteFunctions
    BY <1>2, <1>5, <1>a DEF WriteFunctions, WriteOf
  <2>6. PendingInv(d, w)
    BY <1>2, <1>5, <2>1, <2>2 DEF WritesOK, PendingInv
  <2>7. ActiveInv(d, w)
    BY <1>2, <1>5, <2>1, <2>3, <1>a, DispatchKeepsActive, SMTT(40) DEF WritesOK
  <2>8. RecordsInv(d, w, records)
    <3>1. Range(d.pendingWrites) \cup d.activeWrites \subseteq Range(m.pendingWrites) \cup m.activeWrites
      BY <1>2, <1>5, <2>2
    <3> QED
      BY <3>1 DEF WritesOK, RecordsInv
  <2>9. Range(m.background) \cap WriteFunctions = {}
    BY <2>1, NoneActive DEF WritesOK
  <2>10. FilterInv(d, w, records, bodies)
    BY <1>2, <1>5, <2>3, <2>4, <2>9, DispatchKeepsFilters, ZenonT(40) DEF WritesOK
  <2> QED
    BY <1>2, <1>3, <2>6, <2>7, <2>8, <2>10 DEF WritesOK
<1> QED
  BY <1>4, <1>5

LEMMA WriteTimerStep ==
    ASSUME TypeOK, WriteInv, DiskInv, WriteTimerFires
    PROVE  WriteStepOK
<1> DEFINE m == [s EXCEPT !.writeTimer = FALSE]
<1>1. s' = DispatchPendingWrites(m) /\ UNCHANGED <<writes, reads, records, bodies>>
  BY DEF WriteTimerFires
<1>2. m \in Members /\ Alone(s, m)
  BY AgreeSame DEF TypeOK, Alone, WritesAlone, FiltersAlone, ReadsAlone, PendingLess, Members
<1> HIDE DEF m
<1>3. s \in Members /\ writes \in Seq(Writes) /\ SameKeys(writes, writes)
  BY DEF TypeOK, SameKeys
<1>4. WritesOK(m, writes)
  <2>1. PendingInv(m, writes) /\ ActiveInv(m, writes)
    BY <1>2, <1>3, AloneKeepsWrites DEF Alone, WriteInv
  <2>2. RecordsInv(m, writes, records)
    BY <1>2, <1>3, AloneKeepsRecords DEF Alone, WritesAlone, WriteInv
  <2>3. FilterInv(m, writes, records, bodies)
    BY <1>2, <1>3, AloneKeepsFilters DEF Alone, WriteInv, DiskInv
  <2> QED
    BY <2>1, <2>2, <2>3 DEF WritesOK
<1>5. s' \in Members /\ WritesOK(s', writes) /\ ReadsAlone(m, s')
  BY <1>1, <1>2, <1>3, <1>4, DispatchKeeps
<1>6. ReadsAlone(s, s')
  BY <1>2, <1>5, AgreeTransitive DEF Alone, ReadsAlone
<1> QED
  BY <1>1, <1>3, <1>5, <1>6 DEF WriteStepOK, WriteInv, DiskInv, WritesOK, TypeOK

-----------------------------------------------------------------------------
LEMMA ClearStep ==
    ASSUME TypeOK, WriteInv, DiskInv, Clear
    PROVE  WriteStepOK
<1> DEFINE f == [op |-> "clear"]
           rf == IF s.recordFilter = None THEN None ELSE {}
           bf == IF s.bodyFilter = None THEN None ELSE {}
           m == [s EXCEPT !.calls = s.calls + 1, !.recordFilter = rf, !.bodyFilter = bf, !.wiped = TRUE]
<1>1. s \in Members /\ s.calls + 1 \in Nat /\ rf \in Filters /\ bf \in Filters
  BY FieldTypes DEF TypeOK, Filters
<1>2. f \in IOFunctions /\ f \notin IOReadFunctions
  BY DEF IOFunctions, IOReadFunctions
<1>3. s' = Post(m, "io", f) /\ UNCHANGED <<writes, reads, records, bodies>>
  BY <1>1 DEF Clear, Called, Members
<1> HIDE DEF f, rf, bf
<1>4. m \in Members
  BY <1>1 DEF Members
<1> DEFINE io == Append(m.io, f)
<1>5. s' \in Members /\ s' = [m EXCEPT !.io = io]
  BY <1>2, <1>3, <1>4, PostIO
<1>6. /\ s'.pendingWrites = s.pendingWrites /\ s'.activeWrites = s.activeWrites
      /\ s'.added = s.added /\ s'.addedBodies = s.addedBodies
      /\ s'.synchronizing = s.synchronizing /\ s'.wiped
      /\ s'.pendingReads = s.pendingReads /\ s'.activeReads = s.activeReads
      /\ s'.background = s.background /\ s'.main = s.main
      /\ s'.io = Append(s.io, f)
  BY <1>1, <1>4, <1>5 DEF Members
<1>7. WritesAlone(s, s')
  BY <1>6, AgreeSame DEF WritesAlone, PendingLess
<1>8. ReadsAlone(s, s')
  BY <1>1, <1>2, <1>6, AgreeSame, AgreeAppend, FieldTypes DEF ReadsAlone
<1>9. WriteInv'
  <2>1. writes \in Seq(Writes)
    BY DEF TypeOK
  <2>2. PendingInv(s', writes) /\ ActiveInv(s', writes)
    BY <1>1, <1>5, <1>7, <2>1, AloneKeepsWrites DEF WriteInv
  <2>3. RecordsInv(s', writes, records)
    BY <1>6 DEF WriteInv, RecordsInv
  <2> QED
    BY <1>3, <2>2, <2>3 DEF WriteInv
<1>10. FilterInv(s', writes, records, bodies)
  <2>1. \A keys : Covers(s, writes, records, keys) => Covers(s', writes, records, keys)
    BY <1>6 DEF Covers
  <2>2. \A keys : CoversBodies(s, writes, bodies, keys) => CoversBodies(s', writes, bodies, keys)
    BY <1>6 DEF CoversBodies
  <2>3. NotAdded(s', writes) = NotAdded(s, writes)
    BY <1>6 DEF NotAdded
  <2> QED
    BY <1>6, <2>1, <2>2, <2>3 DEF DiskInv, FilterInv
<1> QED
  BY <1>3, <1>5, <1>8, <1>9, <1>10 DEF WriteStepOK, TypeOK, DiskInv, SameKeys

(* What addToRecordFilter() does to a filter that covers the disk.         *)
LEMMA AddKeepsFilters ==
    ASSUME NEW m \in Members, NEW w \in Seq(Writes), FilterInv(m, w, records, bodies),
           NEW d \in Members, NEW k,
           d.background = m.background, d.main = m.main,
           d.recordFilter = Add(m.recordFilter, k),
           d.added = IF m.synchronizing THEN m.added \cup {k} ELSE m.added,
           d.bodyFilter = m.bodyFilter, d.addedBodies = m.addedBodies,
           d.synchronizing = m.synchronizing, d.wiped = m.wiped
    PROVE  FilterInv(d, w, records, bodies)
<1>1. ASSUME NEW keys, NEW more, Covers(m, w, records, keys), keys \subseteq more
      PROVE  Covers(d, w, records, more)
  BY <1>1 DEF Covers
<1>2. ASSUME NEW keys, CoversBodies(m, w, bodies, keys) PROVE CoversBodies(d, w, bodies, keys)
  BY <1>2 DEF CoversBodies
<1>3. ~d.wiped /\ d.recordFilter # None => Covers(d, w, records, d.recordFilter)
  BY <1>1 DEF FilterInv, Add
<1>4. ~d.wiped /\ d.bodyFilter # None => CoversBodies(d, w, bodies, d.bodyFilter)
  BY <1>2 DEF FilterInv
<1>5. ASSUME NEW g \in Range(d.main) \cap SynchronizedFunctions
      PROVE  /\ d.synchronizing
             /\ Covers(d, w, records, g.records \cup d.added)
             /\ CoversBodies(d, w, bodies, g.bodies \cup d.addedBodies)
  <2>1. /\ m.synchronizing
        /\ Covers(m, w, records, g.records \cup m.added)
        /\ CoversBodies(m, w, bodies, g.bodies \cup m.addedBodies)
    BY <1>5 DEF FilterInv
  <2>2. g.records \cup m.added \subseteq g.records \cup d.added
    BY <2>1
  <2> QED
    BY <1>1, <1>2, <2>1, <2>2
<1>6. NoneBehind(d.background, SynchronizeFunctions, NotAdded(d, w))
  <2>1. NotAdded(d, w) \subseteq NotAdded(m, w)
    BY DEF NotAdded
  <2> QED
    BY <2>1, NoneBehindFewer DEF FilterInv
<1> QED
  BY <1>3, <1>4, <1>5, <1>6 DEF FilterInv

LEMMA ConsLatest ==
    ASSUME NEW q \in Seq(Nat), NEW e \in Nat, Descending(q), \A x \in Range(q) : e > x
    PROVE  Range(Cons(e, q)) = Range(q) \cup {e} /\ Descending(Cons(e, q))
<1>1. Nat \subseteq Nat
  OBVIOUS
<1>2. Range(Cons(e, q)) = Range(q) \cup {e}
  BY ConsFacts
<1>3. Descending(Cons(e, q))
  BY <1>1, ConsFacts
<1> QED
  BY <1>2, <1>3

NewWrite(k) == [key |-> k, activeCount |-> 0, at |-> "memory", inline |-> FALSE, written |-> FALSE]

(* A write that store() has queued has nothing to come yet.                *)
LEMMA NewWriteKeeps ==
    ASSUME NEW m \in Members, NEW w \in Seq(Writes), PendingInv(m, w), ActiveInv(m, w), RecordsInv(m, w, records),
           NEW n, n = Len(w) + 1, NEW e \in Writes, e.activeCount = 0, e.at = "memory",
           NEW v, v = Append(w, e),
           NEW t \in Members, t.pendingWrites = Cons(n, m.pendingWrites), t.activeWrites = m.activeWrites,
           t.background = m.background, t.main = m.main
    PROVE  /\ v \in Seq(Writes) /\ SameKeys(w, v)
           /\ PendingInv(t, v) /\ ActiveInv(t, v) /\ RecordsInv(t, v, records)
           /\ \A k \in Keys : records[k] \in DOMAIN v => records[k] \in DOMAIN w
<1>1. /\ DOMAIN w = 1 .. Len(w) /\ Len(w) \in Nat
      /\ v \in Seq(Writes) /\ DOMAIN v = DOMAIN w \cup {n} /\ n \notin DOMAIN w /\ n \in Nat \ {0}
      /\ v[n] = e /\ \A x \in DOMAIN w : v[x] = w[x]
  BY LenProperties, AppendProperties, AppendPlaces
<1>2. m.pendingWrites \in Seq(Nat) /\ \A x \in DOMAIN w : n > x
  BY <1>1, FieldTypes
<1>3. Range(t.pendingWrites) = Range(m.pendingWrites) \cup {n} /\ Descending(t.pendingWrites)
  <2>1. /\ \A x \in Range(m.pendingWrites) : n > x
        /\ Descending(m.pendingWrites)
    BY <1>2 DEF PendingInv
  <2>2. n \in Nat /\ m.pendingWrites \in Seq(Nat) /\ Nat \subseteq Nat
    BY <1>1, <1>2
  <2>3. Range(Cons(n, m.pendingWrites)) = Range(m.pendingWrites) \cup {n} /\ Descending(Cons(n, m.pendingWrites))
    BY <2>1, <2>2, ConsLatest
  <2> QED
    BY <2>3
<1>4. PendingInv(t, v)
  BY <1>1, <1>2, <1>3, SMTT(40) DEF PendingInv
<1>5. ASSUME NEW x \in DOMAIN v
      PROVE  /\ v[x].at # "memory" => x \in t.activeWrites
             /\ v[x].activeCount = (IF RecordToCome(t, v, x) THEN 1 ELSE 0) + (IF BodyToCome(t, x) THEN 1 ELSE 0)
  <2>1. CASE x \in DOMAIN w
    BY <1>1, <2>1 DEF ActiveInv, RecordToCome, BodyToCome
  <2>2. CASE x = n
    <3> DEFINE c == [op |-> "create", n |-> n]
               b == [op |-> "bodyStored", n |-> n]
    <3>1. c \in WriteFunctions /\ b \in BodyStoredFunctions /\ c.n = n /\ b.n = n
      BY <1>1 DEF WriteFunctions, BodyStoredFunctions
    <3>2. n \notin m.activeWrites
      BY <1>1 DEF PendingInv
    <3> HIDE DEF c, b
    <3>3. c \notin Range(t.background) /\ b \notin Range(t.main)
      BY <3>1, <3>2 DEF ActiveInv
    <3>4. ~RecordToCome(t, v, x) /\ ~BodyToCome(t, x)
      BY <1>1, <2>2, <3>3 DEF RecordToCome, BodyToCome, c, b
    <3> QED
      BY <1>1, <2>2, <3>4
  <2> QED
    BY <1>1, <2>1, <2>2
<1>6. ActiveInv(t, v)
  <2>1. \A f \in Range(m.background) \cap WriteFunctions : f.n \in DOMAIN w
    BY DEF ActiveInv, PendingInv
  <2> QED
    BY <1>1, <1>5, <2>1 DEF ActiveInv
<1>7. \A k \in Keys : records[k] \in DOMAIN v => records[k] \in DOMAIN w
  BY <1>1 DEF RecordsInv
<1>8. RecordsInv(t, v, records)
  BY <1>1, <1>2, <1>3, <1>7 DEF RecordsInv
<1> QED
  BY <1>1, <1>4, <1>6, <1>7, <1>8 DEF SameKeys

LEMMA StoreStep ==
    ASSUME TypeOK, WriteInv, DiskInv, NEW k \in Keys, Store(k)
    PROVE  WriteStepOK
<1> DEFINE n == Len(writes) + 1
           pending == Cons(n, s.pendingWrites)
           timer == s.writeTimer \/ s.pendingWrites = <<>>
           m == [s EXCEPT !.pendingWrites = pending, !.writeTimer = timer]
<1>1. /\ s \in Members /\ writes \in Seq(Writes) /\ n \in Nat
      /\ s.pendingWrites \in Seq(Nat) /\ s.writeTimer \in BOOLEAN
  BY FieldTypes, ElementTypes DEF TypeOK
<1>2. writes' = Append(writes, NewWrite(k)) /\ UNCHANGED <<reads, records, bodies>>
  BY DEF Store, NewWrite
<1>3. s' = AddToRecordFilter(m, k)
  BY DEF Store
<1>4. NewWrite(k) \in Writes /\ NewWrite(k).activeCount = 0 /\ NewWrite(k).at = "memory"
  BY DEF NewWrite, Writes
<1>5. pending \in Seq(Nat) /\ timer \in BOOLEAN
  BY <1>1, ConsFacts
<1>6. n = Len(writes) + 1 /\ pending = Cons(n, s.pendingWrites)
  OBVIOUS
<1> HIDE DEF n, pending, timer
<1>7. /\ m \in Members
      /\ m.pendingWrites = pending /\ m.activeWrites = s.activeWrites
      /\ m.background = s.background /\ m.main = s.main /\ m.io = s.io
      /\ m.recordFilter = s.recordFilter /\ m.added = s.added
      /\ m.bodyFilter = s.bodyFilter /\ m.addedBodies = s.addedBodies
      /\ m.synchronizing = s.synchronizing /\ m.wiped = s.wiped
      /\ m.pendingReads = s.pendingReads /\ m.activeReads = s.activeReads
  BY <1>1, <1>5 DEF Members
<1> HIDE DEF m
<1>8. /\ s' \in Members
      /\ s'.recordFilter = Add(m.recordFilter, k)
      /\ s'.added = IF m.synchronizing THEN m.added \cup {k} ELSE m.added
      /\ s'.bodyFilter = m.bodyFilter /\ s'.addedBodies = m.addedBodies
      /\ s'.synchronizing = m.synchronizing /\ s'.wiped = m.wiped
      /\ s'.pendingWrites = m.pendingWrites /\ s'.activeWrites = m.activeWrites
      /\ s'.pendingReads = m.pendingReads /\ s'.activeReads = m.activeReads
      /\ s'.io = m.io /\ s'.background = m.background /\ s'.main = m.main
  BY <1>3, <1>7, AddToRecordFilterEffect
<1>9. /\ writes' \in Seq(Writes) /\ SameKeys(writes, writes')
      /\ PendingInv(s', writes') /\ ActiveInv(s', writes') /\ RecordsInv(s', writes', records)
      /\ \A x \in Keys : records[x] \in DOMAIN writes' => records[x] \in DOMAIN writes
  <2>1. /\ s'.pendingWrites = Cons(n, s.pendingWrites) /\ s'.activeWrites = s.activeWrites
        /\ s'.background = s.background /\ s'.main = s.main
    BY <1>6, <1>7, <1>8
  <2>2. PendingInv(s, writes) /\ ActiveInv(s, writes) /\ RecordsInv(s, writes, records)
    BY DEF WriteInv
  <2> DEFINE e == NewWrite(k)
             v == writes'
  <2>3. e \in Writes /\ e.activeCount = 0 /\ e.at = "memory" /\ v = Append(writes, e)
    BY <1>2, <1>4
  <2> HIDE DEF e, v
  <2>4. /\ v \in Seq(Writes) /\ SameKeys(writes, v)
        /\ PendingInv(s', v) /\ ActiveInv(s', v) /\ RecordsInv(s', v, records)
        /\ \A x \in Keys : records[x] \in DOMAIN v => records[x] \in DOMAIN writes
    <3>1. s' \in Members /\ s \in Members /\ writes \in Seq(Writes) /\ n = Len(writes) + 1
      BY <1>1, <1>6, <1>8
    <3> QED
      BY <2>1, <2>2, <2>3, <3>1, NewWriteKeeps
  <2> QED
    BY <2>4 DEF v
<1>10. FilterInv(s', writes', records, bodies)
  <2>1. FiltersAlone(s, m)
    BY <1>7, AgreeSame DEF FiltersAlone
  <2>2. FilterInv(m, writes', records, bodies)
    BY <1>1, <1>7, <1>9, <2>1, AloneKeepsFilters DEF WriteInv, DiskInv
  <2> QED
    BY <1>7, <1>8, <1>9, <2>2, AddKeepsFilters
<1>11. ReadsAlone(s, s')
  BY <1>7, <1>8, AgreeSame DEF ReadsAlone
<1> QED
  BY <1>2, <1>8, <1>9, <1>10, <1>11 DEF WriteStepOK, WriteInv, DiskInv, TypeOK

-----------------------------------------------------------------------------
LEMMA SynchronizedStep ==
    ASSUME TypeOK, WriteInv, DiskInv, Synchronized
    PROVE  WriteStepOK
<1> DEFINE f == Head(s.main)
           rf == f.records \cup s.added
           bf == f.bodies \cup s.addedBodies
           main == Tail(s.main)
<1>1. /\ s.main # <<>> /\ f.op = "synchronized"
      /\ s' = [Popped("main") EXCEPT !.recordFilter = rf, !.bodyFilter = bf, !.added = {}, !.addedBodies = {},
                                     !.synchronizing = FALSE, !.wiped = FALSE]
      /\ UNCHANGED <<writes, reads, records, bodies>>
  BY DEF Synchronized, At
<1>2. s \in Members /\ Popped("main") = [s EXCEPT !.main = main] /\ f \in MainFunctions /\ main \in Seq(MainFunctions)
  BY <1>1, PoppedType DEF TypeOK
<1>3. f \in SynchronizedFunctions
  BY <1>1, <1>2, Kinds
<1>4. rf \in Filters /\ bf \in Filters /\ {} \in SUBSET Keys
  <2>1. f.records \in SUBSET Keys /\ f.bodies \in SUBSET Keys
    BY <1>3 DEF SynchronizedFunctions
  <2> HIDE DEF f
  <2> QED
    BY <1>2, <2>1, FieldTypes DEF Filters
<1>5. /\ f \in Range(s.main) /\ s.main \in Seq(MainFunctions)
      /\ Range(s.main) = Range(main) \cup {f}
      /\ Range(main) \cap SynchronizedFunctions = {}
      /\ Once(main, SynchronizedFunctions)
  <2>1. s.main \in Seq(MainFunctions)
    BY <1>2, FieldTypes
  <2> QED
    BY <1>1, <1>3, <2>1, TailKeeps DEF DiskInv, FilterInv
<1>6. f \notin BodyStoredFunctions /\ f \notin MainReadFunctions
  BY <1>1 DEF BodyStoredFunctions, MainReadFunctions, AnswerFunctions, FinishReadFunctions
<1>7. Agree(s.main, main, BodyStoredFunctions) /\ Agree(s.main, main, MainReadFunctions)
  BY <1>1, <1>5, <1>6, AgreeTail
<1>8. s' = [s EXCEPT !.main = main, !.recordFilter = rf, !.bodyFilter = bf, !.added = {}, !.addedBodies = {},
                     !.synchronizing = FALSE, !.wiped = FALSE]
  BY <1>1, <1>2 DEF Members
<1> HIDE DEF main, rf, bf
<1>9. /\ s' \in Members
      /\ s'.main = main /\ s'.recordFilter = rf /\ s'.bodyFilter = bf
      /\ s'.added = {} /\ s'.addedBodies = {} /\ ~s'.synchronizing /\ ~s'.wiped
      /\ s'.pendingWrites = s.pendingWrites /\ s'.activeWrites = s.activeWrites
      /\ s'.pendingReads = s.pendingReads /\ s'.activeReads = s.activeReads
      /\ s'.background = s.background /\ s'.io = s.io
  BY <1>2, <1>4, <1>8 DEF Members
<1>10. WritesAlone(s, s') /\ ReadsAlone(s, s')
  BY <1>7, <1>9, AgreeSame DEF WritesAlone, PendingLess, ReadsAlone
<1>11. WriteInv'
  <2>1. writes \in Seq(Writes)
    BY DEF TypeOK
  <2>2. PendingInv(s', writes) /\ ActiveInv(s', writes)
    BY <1>2, <1>9, <1>10, <2>1, AloneKeepsWrites DEF WriteInv
  <2>3. RecordsInv(s', writes, records)
    BY <1>9 DEF WriteInv, RecordsInv
  <2> QED
    BY <1>1, <2>2, <2>3 DEF WriteInv
<1>12. FilterInv(s', writes, records, bodies)
  <2> HIDE DEF f
  <2>1. Covers(s, writes, records, rf) /\ CoversBodies(s, writes, bodies, bf)
    BY <1>3, <1>5 DEF DiskInv, FilterInv, rf, bf
  <2>2. Range(s.background) \cap SynchronizeFunctions = {}
    BY <1>3, <1>5 DEF DiskInv, FilterInv
  <2>3. Covers(s', writes, records, s'.recordFilter)
    BY <1>9, <2>1 DEF Covers
  <2>4. CoversBodies(s', writes, bodies, s'.bodyFilter)
    <3>1. Range(s'.main) \cap BodyStoredFunctions = Range(s.main) \cap BodyStoredFunctions
      BY <1>7, <1>9 DEF Agree
    <3> QED
      BY <1>9, <2>1, <3>1 DEF CoversBodies
  <2>5. NoneBehind(s'.background, SynchronizeFunctions, NotAdded(s', writes))
    BY <1>9, <2>2 DEF NoneBehind, Range
  <2>6. Once(s'.main, SynchronizedFunctions) /\ Once(s'.background, SynchronizeFunctions)
    BY <1>5, <1>9 DEF DiskInv, FilterInv
  <2>7. Range(s'.main) \cap SynchronizedFunctions = {} /\ Range(s'.background) \cap SynchronizeFunctions = {}
    BY <1>5, <1>9, <2>2
  <2> QED
    BY <2>3, <2>4, <2>5, <2>6, <2>7 DEF FilterInv
<1> QED
  BY <1>1, <1>9, <1>10, <1>11, <1>12 DEF WriteStepOK, TypeOK, DiskInv, SameKeys

(* A synchronization is queued only when there is none.                    *)
LEMMA SynchronizeKeeps ==
    ASSUME NEW m \in Members, NEW w \in Seq(Writes), WritesOK(m, w), NEW t, t = Synchronize(m)
    PROVE  t \in Members /\ WritesOK(t, w) /\ ReadsAlone(m, t)
<1> DEFINE f == [op |-> "synchronize"]
<1>1. /\ t \in Members /\ f \in BackgroundFunctions
      /\ t = m \/ (~m.synchronizing /\ t.background = Append(m.background, f) /\ t.synchronizing)
      /\ t.recordFilter = m.recordFilter /\ t.added = m.added
      /\ t.bodyFilter = m.bodyFilter /\ t.addedBodies = m.addedBodies
      /\ t.wiped = m.wiped
      /\ t.pendingWrites = m.pendingWrites /\ t.activeWrites = m.activeWrites
      /\ t.pendingReads = m.pendingReads /\ t.activeReads = m.activeReads
      /\ t.io = m.io /\ t.main = m.main
  BY SynchronizeEffect
<1>2. f \in SynchronizeFunctions /\ f \notin WriteFunctions
  BY DEF SynchronizeFunctions, WriteFunctions
<1> HIDE DEF f
<1>3. ReadsAlone(m, t)
  BY <1>1, AgreeSame DEF ReadsAlone
<1>4. CASE t = m
  BY <1>1, <1>3, <1>4
<1>5. CASE t # m
  <2>1. ~m.synchronizing /\ t.background = Append(m.background, f) /\ t.synchronizing
    BY <1>1, <1>5
  <2>2. m.background \in Seq(BackgroundFunctions)
    BY FieldTypes
  <2>3. Agree(m.background, t.background, WriteFunctions)
    BY <1>1, <1>2, <2>1, <2>2, AgreeAppend
  <2>4. WritesAlone(m, t)
    BY <1>1, <2>3, AgreeSame DEF WritesAlone, PendingLess
  <2>5. PendingInv(t, w) /\ ActiveInv(t, w)
    BY <1>1, <2>4, AloneKeepsWrites DEF WritesOK
  <2>6. RecordsInv(t, w, records)
    BY <1>1 DEF WritesOK, RecordsInv
  <2>7. FilterInv(t, w, records, bodies)
    <3>1. Range(m.background) \cap SynchronizeFunctions = {} /\ Range(m.main) \cap SynchronizedFunctions = {}
      BY <2>1 DEF WritesOK, FilterInv
    <3>2. Range(t.background) \cap WriteFunctions = Range(m.background) \cap WriteFunctions
      BY <2>3 DEF Agree
    <3>3. \A keys : Covers(m, w, records, keys) => Covers(t, w, records, keys)
      BY <3>2 DEF Covers
    <3>4. \A keys : CoversBodies(m, w, bodies, keys) => CoversBodies(t, w, bodies, keys)
      BY <1>1 DEF CoversBodies
    <3>5. NotAdded(t, w) = NotAdded(m, w) /\ f \notin NotAdded(m, w)
      BY <1>1, <1>2 DEF NotAdded
    <3>6. NoneBehind(t.background, SynchronizeFunctions, NotAdded(t, w))
      <4>1. NoneBehind(m.background, SynchronizeFunctions, NotAdded(m, w))
        BY DEF WritesOK, FilterInv
      <4> QED
        BY <1>1, <2>1, <2>2, <3>5, <4>1, AppendKeeps
    <3>7. Once(t.background, SynchronizeFunctions)
      <4>1. Once(m.background, SynchronizeFunctions)
        BY DEF WritesOK, FilterInv
      <4> QED
        BY <1>1, <2>1, <2>2, <3>1, <4>1, AppendKeeps
    <3>8. /\ ~t.wiped /\ t.recordFilter # None => Covers(t, w, records, t.recordFilter)
          /\ ~t.wiped /\ t.bodyFilter # None => CoversBodies(t, w, bodies, t.bodyFilter)
      BY <1>1, <3>3, <3>4 DEF WritesOK, FilterInv
    <3>9. Range(t.main) \cap SynchronizedFunctions = {} /\ Once(t.main, SynchronizedFunctions)
      BY <1>1, <3>1 DEF WritesOK, FilterInv
    <3> QED
      BY <2>1, <3>6, <3>7, <3>8, <3>9 DEF FilterInv
  <2> QED
    BY <1>1, <1>3, <2>5, <2>6, <2>7 DEF WritesOK
<1> QED
  BY <1>4, <1>5

LEMMA AloneIsWritesOK ==
    ASSUME TypeOK, WriteInv, DiskInv, NEW m \in Members, Alone(s, m)
    PROVE  WritesOK(m, writes)
<1>1. s \in Members /\ writes \in Seq(Writes) /\ SameKeys(writes, writes)
  BY DEF TypeOK, SameKeys
<1>2. PendingInv(m, writes) /\ ActiveInv(m, writes)
  BY <1>1, AloneKeepsWrites DEF Alone, WriteInv
<1>3. RecordsInv(m, writes, records)
  BY <1>1, AloneKeepsRecords DEF Alone, WritesAlone, WriteInv
<1>4. FilterInv(m, writes, records, bodies)
  BY <1>1, AloneKeepsFilters DEF Alone, WriteInv, DiskInv
<1> QED
  BY <1>2, <1>3, <1>4 DEF WritesOK

LEMMA ShrunkStep ==
    ASSUME TypeOK, WriteInv, DiskInv, Shrunk
    PROVE  WriteStepOK
<1> DEFINE f == Head(s.main)
           main == Tail(s.main)
           m == [s EXCEPT !.main = main, !.shrinking = FALSE]
<1>1. /\ s.main # <<>> /\ f.op = "shrunk"
      /\ s' = Synchronize([Popped("main") EXCEPT !.shrinking = FALSE])
      /\ UNCHANGED <<writes, reads, records, bodies>>
  BY DEF Shrunk, At
<1>2. /\ s \in Members /\ Popped("main") = [s EXCEPT !.main = main] /\ f \in MainFunctions /\ main \in Seq(MainFunctions)
      /\ s.main \in Seq(MainFunctions)
  BY <1>1, PoppedType, FieldTypes DEF TypeOK
<1>3. s' = Synchronize(m)
  BY <1>1, <1>2 DEF Members
<1>4. f \notin MainWriteFunctions /\ f \notin MainReadFunctions /\ f \notin BodyStoredFunctions
  BY <1>1, <1>2, Kinds DEF MainWriteFunctions, MainReadFunctions
<1>5. /\ Agree(s.main, main, BodyStoredFunctions) /\ Agree(s.main, main, MainReadFunctions)
      /\ Agree(s.main, main, MainWriteFunctions)
  BY <1>1, <1>2, <1>4, AgreeTail
<1> HIDE DEF main
<1>6. m \in Members /\ Alone(s, m)
  BY <1>2, <1>5, AgreeSame DEF Alone, WritesAlone, FiltersAlone, ReadsAlone, PendingLess, Members
<1> HIDE DEF m
<1>7. WritesOK(m, writes) /\ writes \in Seq(Writes)
  BY <1>6, AloneIsWritesOK DEF TypeOK
<1>8. s' \in Members /\ WritesOK(s', writes) /\ ReadsAlone(m, s')
  BY <1>3, <1>6, <1>7, SynchronizeKeeps
<1>9. ReadsAlone(s, s')
  BY <1>6, <1>8, AgreeTransitive DEF Alone, ReadsAlone
<1> QED
  BY <1>1, <1>7, <1>8, <1>9 DEF WriteStepOK, TypeOK, WriteInv, DiskInv, WritesOK, SameKeys

-----------------------------------------------------------------------------
Edited(w, n, e) == [w EXCEPT ![n] = e]

LEMMA WriteChanged ==
    ASSUME NEW w \in Seq(Writes), NEW n \in DOMAIN w, NEW e \in Writes, NEW v, v = Edited(w, n, e)
    PROVE  /\ v \in Seq(Writes) /\ DOMAIN v = DOMAIN w /\ v[n] = e
           /\ \A x \in DOMAIN w : x # n => v[x] = w[x]
           /\ e.key = w[n].key => SameKeys(w, v)
<1>1. DOMAIN w = 1 .. Len(w)
  BY LenProperties
<1>2. v \in Seq(Writes)
  BY <1>1, ExceptSeq DEF Edited
<1> QED
  BY <1>2 DEF SameKeys, Edited

(* What depends on the keys of the writes alone.                           *)
LEMMA EditKeeps ==
    ASSUME NEW m \in Members, NEW w \in Seq(Writes), NEW v \in Seq(Writes), DOMAIN v = DOMAIN w, SameKeys(w, v),
           PendingInv(m, w), ActiveInv(m, w), NEW files, RecordsInv(m, w, files),
           NEW links, FilterInv(m, w, files, links)
    PROVE  PendingInv(m, v) /\ RecordsInv(m, v, files) /\ FilterInv(m, v, files, links)
<1>1. PendingInv(m, v)
  BY DEF PendingInv
<1>2. RecordsInv(m, v, files)
  BY DEF RecordsInv, SameKeys
<1>3. FiltersAlone(m, m)
  BY AgreeSame DEF FiltersAlone
<1>4. FilterInv(m, v, files, links)
  BY <1>3, AloneKeepsFilters
<1> QED
  BY <1>1, <1>2, <1>4

LEMMA WriteRecordStep ==
    ASSUME TypeOK, WriteInv, DiskInv, NEW n \in DOMAIN writes, WriteRecord(n)
    PROVE  WriteStepOK
<1>1. PICK written \in BOOLEAN : writes' = [writes EXCEPT ![n].at = "written", ![n].written = written]
  BY DEF WriteRecord
<1>2. writes[n].at = "created" /\ UNCHANGED <<s, reads, records, bodies>>
  BY DEF WriteRecord
<1> DEFINE e == [writes[n] EXCEPT !.at = "written", !.written = written]
<1>3. writes[n] \in Writes /\ n \in Nat /\ s \in Members /\ writes \in Seq(Writes)
  BY ElementTypes DEF TypeOK
<1>4. e \in Writes /\ e.at = "written" /\ e.key = writes[n].key /\ e.activeCount = writes[n].activeCount
  BY <1>3 DEF Writes
<1>5. writes' = Edited(writes, n, e)
  BY <1>1 DEF Edited
<1> HIDE DEF e
<1>6. /\ writes' \in Seq(Writes) /\ DOMAIN writes' = DOMAIN writes /\ writes'[n] = e
      /\ \A x \in DOMAIN writes : x # n => writes'[x] = writes[x]
      /\ SameKeys(writes, writes')
  <2>1. e \in Writes /\ writes \in Seq(Writes) /\ e.key = writes[n].key
    BY <1>3, <1>4
  <2> QED
    BY <1>5, <2>1, WriteChanged
<1>7. PendingInv(s, writes') /\ RecordsInv(s, writes', records) /\ FilterInv(s, writes', records, bodies)
  BY <1>3, <1>6, EditKeeps DEF WriteInv, DiskInv
<1>8. ActiveInv(s, writes')
  <2>1. ASSUME NEW f \in Range(s.background) \cap WriteFunctions PROVE f.n # n /\ f.n \in DOMAIN writes
    BY <1>2 DEF WriteInv, ActiveInv, PendingInv
  <2>2. ASSUME NEW x \in DOMAIN writes
        PROVE  /\ writes'[x].at # "memory" <=> writes[x].at # "memory"
               /\ writes'[x].activeCount = writes[x].activeCount
    BY <1>2, <1>4, <1>6
  <2>3. \A x \in DOMAIN writes : RecordToCome(s, writes', x) = RecordToCome(s, writes, x)
    BY <2>2 DEF RecordToCome
  <2> QED
    BY <1>6, <2>1, <2>2, <2>3 DEF WriteInv, ActiveInv
<1>9. ReadsAlone(s, s)
  BY AgreeSame DEF ReadsAlone
<1> QED
  BY <1>2, <1>6, <1>7, <1>8, <1>9 DEF WriteStepOK, TypeOK, WriteInv, DiskInv

(* The write at the head of the background queue is the only one there.    *)
LEMMA HeadWrite ==
    ASSUME TypeOK, WriteInv, s.background # <<>>, NEW h, h = Head(s.background), h.op \in {"write", "create"}
    PROVE  /\ h \in WriteFunctions /\ h \in BackgroundFunctions /\ h \notin SynchronizeFunctions
           /\ h.n \in Nat /\ h.n \in s.activeWrites /\ h.n \in DOMAIN writes
           /\ h \in Range(s.background) /\ s.background \in Seq(BackgroundFunctions)
           /\ Range(s.background) = Range(Tail(s.background)) \cup {h}
           /\ Range(Tail(s.background)) \cap WriteFunctions = {}
           /\ Range(s.background) \cap WriteFunctions = {h}
           /\ writes[h.n].at = "memory" /\ (h.op = "write" => writes[h.n].activeCount = 0)
           /\ s.activeWrites = {h.n}
           /\ writes[h.n] \in Writes /\ writes[h.n].key \in Keys
           /\ Tail(s.background) \in Seq(BackgroundFunctions)
<1>1. s.background \in Seq(BackgroundFunctions) /\ h \in BackgroundFunctions
      /\ Tail(s.background) \in Seq(BackgroundFunctions)
  BY PoppedType, FieldTypes DEF TypeOK
<1>2. h \in WriteFunctions /\ h \notin SynchronizeFunctions
  BY <1>1, Kinds
<1>3. h.n \in Nat
  BY <1>2 DEF WriteFunctions
<1>4. /\ Range(s.background) = Range(Tail(s.background)) \cup {h}
      /\ Range(Tail(s.background)) \cap WriteFunctions = {}
  BY <1>1, <1>2, TailKeeps DEF WriteInv, ActiveInv
<1>5. /\ h.n \in s.activeWrites /\ h.n \in DOMAIN writes
      /\ writes[h.n].at = "memory" /\ (h.op = "write" => writes[h.n].activeCount = 0)
  BY <1>2, <1>4 DEF WriteInv, ActiveInv, PendingInv
<1>6. s.activeWrites = {h.n}
  BY <1>5 DEF WriteInv, PendingInv
<1>7. writes[h.n] \in Writes /\ writes[h.n].key \in Keys
  BY <1>5, ElementTypes DEF Writes
<1>8. Range(s.background) \cap WriteFunctions = {h}
  BY <1>2, <1>4
<1> QED
  BY <1>1, <1>2, <1>3, <1>4, <1>5, <1>6, <1>7, <1>8

LEMMA CreateRecordStep ==
    ASSUME TypeOK, WriteInv, DiskInv, CreateRecord
    PROVE  WriteStepOK
<1> DEFINE h == Head(s.background)
           n == h.n
           rest == Tail(s.background)
           e == [writes[n] EXCEPT !.at = "created"]
<1>1. /\ s.background # <<>> /\ h.op = "create" /\ s' = Popped("background")
      /\ UNCHANGED <<reads, bodies>>
  BY DEF CreateRecord, At
<1>2. PICK file \in {n, None} : records' = [records EXCEPT ![writes[n].key] = file]
  BY DEF CreateRecord
<1>3. writes' = Edited(writes, n, e)
  BY DEF CreateRecord, Edited
<1>4. /\ h \in WriteFunctions /\ h \notin SynchronizeFunctions
      /\ n \in Nat /\ n \in DOMAIN writes
      /\ h \in Range(s.background) /\ s.background \in Seq(BackgroundFunctions)
      /\ Range(s.background) = Range(rest) \cup {h}
      /\ Range(rest) \cap WriteFunctions = {}
      /\ Range(s.background) \cap WriteFunctions = {h}
      /\ s.activeWrites = {n}
      /\ writes[n] \in Writes /\ writes[n].key \in Keys /\ writes[n].at = "memory"
  BY <1>1, HeadWrite
<1>5. s \in Members /\ s' \in Members /\ s' = [s EXCEPT !.background = rest] /\ writes \in Seq(Writes)
  BY <1>1, PoppedType DEF TypeOK
<1>6. e \in Writes /\ e.at = "created" /\ e.key = writes[n].key /\ e.activeCount = writes[n].activeCount
  BY <1>4 DEF Writes
<1>c. h = [op |-> "create", n |-> n]
  BY <1>1, <1>4 DEF WriteFunctions
<1> HIDE DEF h, n, rest, e
<1>7. /\ writes' \in Seq(Writes) /\ DOMAIN writes' = DOMAIN writes /\ writes'[n] = e
      /\ \A x \in DOMAIN writes : x # n => writes'[x] = writes[x]
      /\ SameKeys(writes, writes')
  <2>1. e \in Writes /\ writes \in Seq(Writes) /\ e.key = writes[n].key /\ n \in DOMAIN writes
    BY <1>4, <1>5, <1>6
  <2> QED
    BY <1>3, <2>1, WriteChanged
<1>8. /\ s'.pendingWrites = s.pendingWrites /\ s'.activeWrites = s.activeWrites
      /\ s'.recordFilter = s.recordFilter /\ s'.added = s.added
      /\ s'.bodyFilter = s.bodyFilter /\ s'.addedBodies = s.addedBodies
      /\ s'.synchronizing = s.synchronizing /\ s'.wiped = s.wiped
      /\ s'.pendingReads = s.pendingReads /\ s'.activeReads = s.activeReads
      /\ s'.background = rest /\ s'.main = s.main /\ s'.io = s.io
  BY <1>5 DEF Members
<1>9. PendingInv(s', writes')
  BY <1>7, <1>8 DEF WriteInv, PendingInv
<1>10. ActiveInv(s', writes')
  <2>1. Once(s'.background, WriteFunctions)
    BY <1>4, <1>8 DEF Once, Range
  <2>2. ASSUME NEW x \in DOMAIN writes
        PROVE  /\ RecordToCome(s', writes', x) = RecordToCome(s, writes, x) /\ BodyToCome(s', x) = BodyToCome(s, x)
               /\ writes'[x].activeCount = writes[x].activeCount
               /\ writes'[x].at # "memory" => x \in s.activeWrites
    <3>1. x \in Nat
      BY ElementTypes
    <3> DEFINE c == [op |-> "create", n |-> x]
    <3>2. c \in WriteFunctions /\ c.n = x
      BY <3>1 DEF WriteFunctions
    <3>3. (x = n) => c = h
      BY <1>c
    <3>4. RecordToCome(s', writes', x) = (writes'[x].at # "memory" \/ c \in Range(s'.background))
          /\ RecordToCome(s, writes, x) = (writes[x].at # "memory" \/ c \in Range(s.background))
          /\ BodyToCome(s', x) = BodyToCome(s, x)
      BY <1>8 DEF RecordToCome, BodyToCome
    <3> HIDE DEF c
    <3>5. CASE x = n
      BY <1>4, <1>6, <1>7, <3>3, <3>4, <3>5
    <3>6. CASE x # n
      <4>1. h # c
        BY <3>2, <3>6 DEF n
      <4>2. c \notin Range(s.background) /\ c \notin Range(s'.background)
        BY <1>4, <1>8, <3>2, <4>1
      <4>3. writes[x].at # "memory" => x \in s.activeWrites
        BY DEF WriteInv, ActiveInv
      <4> QED
        BY <1>7, <3>4, <3>6, <4>2, <4>3
    <3> QED
      BY <3>5, <3>6
  <2>3. \A x \in DOMAIN writes : writes[x].activeCount =
                (IF RecordToCome(s, writes, x) THEN 1 ELSE 0) + (IF BodyToCome(s, x) THEN 1 ELSE 0)
    BY DEF WriteInv, ActiveInv
  <2>4. Once(s'.main, BodyStoredFunctions) /\ \A f \in Range(s'.main) \cap BodyStoredFunctions : f.n \in s'.activeWrites
    BY <1>8 DEF WriteInv, ActiveInv
  <2>5. Range(s'.background) \cap WriteFunctions = {}
    BY <1>4, <1>8
  <2> QED
    BY <1>7, <1>8, <2>1, <2>2, <2>3, <2>4, <2>5 DEF ActiveInv
<1>11. /\ records' \in [Keys -> Files]
       /\ \A k \in Keys : records'[k] = IF k = writes[n].key THEN file ELSE records[k]
       /\ None \notin Nat /\ DOMAIN writes \subseteq Nat
  BY <1>2, <1>4, BoundsAssumption, ElementTypes DEF TypeOK, Files
<1>12. RecordsInv(s', writes', records')
  <2> SUFFICES ASSUME NEW k \in Keys
               PROVE  /\ records'[k] \in Nat \ {0} => records'[k] \in DOMAIN writes'
                      /\ records'[k] \in DOMAIN writes' =>
                             /\ writes'[records'[k]].key = k
                             /\ \A x \in Range(s'.pendingWrites) \cup s'.activeWrites : x >= records'[k]
    BY DEF RecordsInv
  <2>1. CASE k # writes[n].key
    <3>1. records'[k] = records[k]
      BY <1>11, <2>1
    <3> QED
      BY <1>7, <1>8, <3>1 DEF WriteInv, RecordsInv, SameKeys
  <2>2. CASE k = writes[n].key
    <3>1. records'[k] \in {n, None}
      BY <1>2, <1>11, <2>2
    <3>2. \A x \in Range(s.pendingWrites) \cup s.activeWrites : x >= n
      <4>1. \A x \in Range(s.pendingWrites) : x > n /\ x \in Nat
        BY <1>4, <1>11 DEF WriteInv, PendingInv
      <4> QED
        BY <1>4, <4>1
    <3> QED
      BY <1>4, <1>6, <1>7, <1>8, <1>11, <2>2, <3>1, <3>2
  <2> QED
    BY <2>1, <2>2
<1>13. FilterInv(s', writes', records', bodies)
  <2>1. ASSUME NEW keys, Covers(s, writes, records, keys) PROVE Covers(s', writes', records', keys)
    <3>1. writes[n].key \in keys
      BY <1>4, <2>1 DEF Covers, n
    <3>2. ASSUME NEW k \in Keys, HasRecord(writes', records', k) PROVE k \in keys
      <4>1. CASE k = writes[n].key
        BY <3>1, <4>1
      <4>2. CASE k # writes[n].key
        BY <1>7, <1>11, <2>1, <3>2, <4>2 DEF Covers, HasRecord
      <4> QED
        BY <4>1, <4>2
    <3> QED
      BY <1>4, <1>8, <3>2 DEF Covers
  <2>2. ASSUME NEW keys, CoversBodies(s, writes, bodies, keys) PROVE CoversBodies(s', writes', bodies, keys)
    <3>1. \A f \in Range(s.main) \cap BodyStoredFunctions : writes'[f.n].key = writes[f.n].key
      BY <1>7 DEF WriteInv, ActiveInv, PendingInv, SameKeys
    <3> QED
      BY <1>8, <2>2, <3>1 DEF CoversBodies
  <2>3. Range(s'.background) \cap SynchronizeFunctions = Range(s.background) \cap SynchronizeFunctions
    BY <1>4, <1>8
  <2>4. NoneBehind(s'.background, SynchronizeFunctions, NotAdded(s', writes'))
    BY <1>4, <1>8 DEF NoneBehind, NotAdded, Range
  <2>5. Once(s'.background, SynchronizeFunctions)
    <3>1. Once(Tail(s.background), SynchronizeFunctions)
      BY <1>1, <1>4, TailKeeps DEF DiskInv, FilterInv
    <3> QED
      BY <1>8, <3>1 DEF rest
  <2>6. /\ ~s'.wiped /\ s'.recordFilter # None => Covers(s', writes', records', s'.recordFilter)
        /\ ~s'.wiped /\ s'.bodyFilter # None => CoversBodies(s', writes', bodies, s'.bodyFilter)
    BY <1>8, <2>1, <2>2 DEF DiskInv, FilterInv
  <2>7. \A f \in Range(s'.main) \cap SynchronizedFunctions :
           /\ s'.synchronizing
           /\ Covers(s', writes', records', f.records \cup s'.added)
           /\ CoversBodies(s', writes', bodies, f.bodies \cup s'.addedBodies)
    BY <1>8, <2>1, <2>2 DEF DiskInv, FilterInv
  <2> QED
    BY <1>8, <2>3, <2>4, <2>5, <2>6, <2>7 DEF DiskInv, FilterInv
<1>14. ReadsAlone(s, s')
  BY <1>8, AgreeSame DEF ReadsAlone
<1> QED
  BY <1>1, <1>5, <1>7, <1>9, <1>10, <1>11, <1>12, <1>13, <1>14 DEF WriteStepOK, TypeOK, WriteInv, DiskInv

-----------------------------------------------------------------------------
CreateOf(n) == [op |-> "create", n |-> n]
BodyStoredOf(n) == [op |-> "bodyStored", n |-> n]

LEMMA OfTypes ==
    ASSUME NEW n \in Nat
    PROVE  /\ CreateOf(n) \in WriteFunctions /\ CreateOf(n) \in BackgroundFunctions
           /\ CreateOf(n) \notin SynchronizeFunctions /\ CreateOf(n).n = n /\ CreateOf(n).op = "create"
           /\ BodyStoredOf(n) \in BodyStoredFunctions /\ BodyStoredOf(n) \in MainFunctions
           /\ BodyStoredOf(n) \notin SynchronizedFunctions /\ BodyStoredOf(n) \notin MainReadFunctions
           /\ BodyStoredOf(n).n = n
           /\ \A f \in BodyStoredFunctions : f.n = n => f = BodyStoredOf(n)
           /\ \A f \in WriteFunctions : f.op = "create" /\ f.n = n => f = CreateOf(n)
  BY DEF CreateOf, BodyStoredOf, WriteFunctions, BackgroundFunctions, SynchronizeFunctions,
         BodyStoredFunctions, MainFunctions, MainWriteFunctions, MainReadFunctions, SynchronizedFunctions,
         AnswerFunctions, FinishReadFunctions

LEMMA ToCome ==
    ASSUME NEW m, NEW w, NEW x
    PROVE  /\ RecordToCome(m, w, x) = (w[x].at # "memory" \/ CreateOf(x) \in Range(m.background))
           /\ BodyToCome(m, x) = (BodyStoredOf(x) \in Range(m.main))
  BY DEF RecordToCome, BodyToCome, CreateOf, BodyStoredOf

(* The two ways in which a body is stored: in the record and in a blob.    *)
StoredInline(n, k) ==
    /\ \E e \in Writes : /\ e.key = k /\ e.at = "memory" /\ e.activeCount = 1
                         /\ writes' = Edited(writes, n, e)
    /\ s'.main = s.main
    /\ bodies' \in [Keys -> Files] /\ \A x \in Keys : bodies'[x] \in {bodies[x], None}

StoredAsBlob(n, k) ==
    /\ \E e \in Writes : /\ e.key = k /\ e.at = "memory" /\ e.activeCount = 2
                         /\ writes' = Edited(writes, n, e)
    /\ s'.main = Append(s.main, BodyStoredOf(n))
    /\ bodies' \in [Keys -> Files] /\ \A x \in Keys : x # k => bodies'[x] = bodies[x]

NextCreate(n) == [s.background EXCEPT ![1] = CreateOf(n)]

Inlined(o, c, b) == [o EXCEPT !.activeCount = c, !.inline = b]

LEMMA InlinedType ==
    ASSUME NEW o \in Writes, NEW c \in Int, NEW b \in BOOLEAN, NEW e, e = Inlined(o, c, b)
    PROVE  e \in Writes /\ e.key = o.key /\ e.at = o.at /\ e.activeCount = c
<1>1. e \in Writes
  BY DEF Writes, Inlined
<1> QED
  BY <1>1 DEF Writes, Inlined

LEMMA StoreBodyEffect ==
    ASSUME TypeOK, WriteInv, StoreBody, NEW h, h = Head(s.background), NEW n, n = h.n, NEW k, k = writes[n].key
    PROVE  /\ s.background # <<>> /\ h.op = "write"
           /\ s' \in Members
           /\ s'.pendingWrites = s.pendingWrites /\ s'.activeWrites = s.activeWrites
           /\ s'.recordFilter = s.recordFilter /\ s'.added = s.added
           /\ s'.bodyFilter = s.bodyFilter /\ s'.addedBodies = s.addedBodies
           /\ s'.synchronizing = s.synchronizing /\ s'.wiped = s.wiped
           /\ s'.pendingReads = s.pendingReads /\ s'.activeReads = s.activeReads
           /\ s'.background = NextCreate(n) /\ s'.io = s.io
           /\ UNCHANGED <<reads, records>>
           /\ StoredInline(n, k) \/ StoredAsBlob(n, k)
<1>1. s.background # <<>> /\ h.op = "write" /\ UNCHANGED <<reads, records>>
  BY DEF StoreBody, At
<1>2. /\ h \in WriteFunctions /\ n \in Nat /\ n \in DOMAIN writes
      /\ s.background \in Seq(BackgroundFunctions)
      /\ writes[n] \in Writes /\ k \in Keys /\ writes[n].at = "memory"
  BY <1>1, HeadWrite
<1>3. s \in Members
  BY DEF TypeOK
<1> DEFINE next == [s EXCEPT !.background[1].op = "create"]
           m == [s EXCEPT !.background = NextCreate(n)]
<1>4. next = m
  <2>1. s.background[1] = h
    BY <1>1, <1>2, HeadTailProperties
  <2>2. [h EXCEPT !.op = "create"] = CreateOf(n)
    BY <1>2 DEF WriteFunctions, CreateOf
  <2>3. next = [s EXCEPT !.background = [s.background EXCEPT ![1] = [s.background[1] EXCEPT !.op = "create"]]]
    OBVIOUS
  <2> QED
    BY <2>1, <2>2, <2>3 DEF NextCreate
<1>5. NextCreate(n) \in Seq(BackgroundFunctions)
  BY <1>1, <1>2, OfTypes, HeadChanged DEF NextCreate
<1>6. /\ m \in Members
      /\ m.pendingWrites = s.pendingWrites /\ m.activeWrites = s.activeWrites
      /\ m.recordFilter = s.recordFilter /\ m.added = s.added
      /\ m.bodyFilter = s.bodyFilter /\ m.addedBodies = s.addedBodies
      /\ m.synchronizing = s.synchronizing /\ m.wiped = s.wiped
      /\ m.pendingReads = s.pendingReads /\ m.activeReads = s.activeReads
      /\ m.background = NextCreate(n) /\ m.io = s.io /\ m.main = s.main
  BY <1>3, <1>5 DEF Members
<1> DEFINE t == Post(m, "main", BodyStoredOf(n))
           main == Append(m.main, BodyStoredOf(n))
<1> HIDE DEF m
<1>7. /\ t \in Members
      /\ t.pendingWrites = s.pendingWrites /\ t.activeWrites = s.activeWrites
      /\ t.recordFilter = s.recordFilter /\ t.added = s.added
      /\ t.bodyFilter = s.bodyFilter /\ t.addedBodies = s.addedBodies
      /\ t.synchronizing = s.synchronizing /\ t.wiped = s.wiped
      /\ t.pendingReads = s.pendingReads /\ t.activeReads = s.activeReads
      /\ t.background = NextCreate(n) /\ t.io = s.io /\ t.main = Append(s.main, BodyStoredOf(n))
  <2>1. BodyStoredOf(n) \in MainFunctions
    BY <1>2, OfTypes
  <2>2. t \in Members /\ t = [m EXCEPT !.main = main]
    BY <1>6, <2>1, PostMain
  <2> HIDE DEF t, main
  <2>3. /\ t.pendingWrites = m.pendingWrites /\ t.activeWrites = m.activeWrites
        /\ t.recordFilter = m.recordFilter /\ t.added = m.added
        /\ t.bodyFilter = m.bodyFilter /\ t.addedBodies = m.addedBodies
        /\ t.synchronizing = m.synchronizing /\ t.wiped = m.wiped
        /\ t.pendingReads = m.pendingReads /\ t.activeReads = m.activeReads
        /\ t.background = m.background /\ t.io = m.io /\ t.main = main
    BY <1>6, <2>2 DEF Members
  <2> QED
    BY <1>6, <2>2, <2>3 DEF main
<1> DEFINE e == [writes[n] EXCEPT !.activeCount = 1, !.inline = TRUE]
           g == [writes[n] EXCEPT !.activeCount = 2]
<1>8. /\ e \in Writes /\ e.key = k /\ e.at = "memory" /\ e.activeCount = 1
      /\ g \in Writes /\ g.key = k /\ g.at = "memory" /\ g.activeCount = 2
  <2>2. ASSUME NEW o \in Writes, o.at = "memory"
        PROVE  /\ [o EXCEPT !.activeCount = 2] \in Writes
               /\ [o EXCEPT !.activeCount = 2].key = o.key
               /\ [o EXCEPT !.activeCount = 2].at = "memory"
               /\ [o EXCEPT !.activeCount = 2].activeCount = 2
    BY <2>2 DEF Writes
  <2>3. writes[n] \in Writes /\ writes[n].at = "memory" /\ k = writes[n].key
    BY <1>2
  <2>4. e \in Writes /\ e.key = k /\ e.at = "memory" /\ e.activeCount = 1
    <3> DEFINE b == TRUE
    <3>1. e = Inlined(writes[n], 1, b) /\ b \in BOOLEAN /\ 1 \in Int
      BY DEF Inlined
    <3> HIDE DEF e, b
    <3> QED
      BY <2>3, <3>1, InlinedType
  <2>5. g \in Writes /\ g.key = k /\ g.at = "memory" /\ g.activeCount = 2
    BY <2>2, <2>3
  <2> QED
    BY <2>4, <2>5
<1>9. \/ /\ writes' = Edited(writes, n, e) /\ s' = next
         /\ bodies' = bodies \/ bodies' = [bodies EXCEPT ![k] = None]
      \/ /\ writes' = Edited(writes, n, g)
         /\ s' = Post(next, "main", [op |-> "bodyStored", n |-> n])
         /\ \E link \in {n, None} : bodies' = [bodies EXCEPT ![k] = link]
  BY DEF StoreBody, Edited
<1> HIDE DEF next, e, g
<1>10. bodies \in [Keys -> Files] /\ None \in Files /\ n \in Files
  BY <1>2 DEF TypeOK, Files
<1>11. CASE /\ writes' = Edited(writes, n, e) /\ s' = next
            /\ bodies' = bodies \/ bodies' = [bodies EXCEPT ![k] = None]
  <2>1. bodies' \in [Keys -> Files] /\ \A x \in Keys : bodies'[x] \in {bodies[x], None}
    BY <1>10, <1>11
  <2>2. StoredInline(n, k)
    BY <1>4, <1>6, <1>8, <1>11, <2>1 DEF StoredInline
  <2> QED
    BY <1>1, <1>4, <1>6, <1>11, <2>2
<1>12. CASE /\ writes' = Edited(writes, n, g)
            /\ s' = Post(next, "main", [op |-> "bodyStored", n |-> n])
            /\ \E link \in {n, None} : bodies' = [bodies EXCEPT ![k] = link]
  <2>1. bodies' \in [Keys -> Files] /\ \A x \in Keys : x # k => bodies'[x] = bodies[x]
    <3>1. PICK link \in {n, None} : bodies' = [bodies EXCEPT ![k] = link]
      BY <1>12
    <3>2. link \in Files
      BY <1>10, <3>1
    <3> QED
      BY <1>10, <3>1, <3>2
  <2>2. s' = t
    BY <1>4, <1>12 DEF BodyStoredOf
  <2> HIDE DEF t
  <2>3. StoredAsBlob(n, k)
    BY <1>7, <1>8, <1>12, <2>1, <2>2 DEF StoredAsBlob
  <2> QED
    BY <1>1, <1>7, <2>2, <2>3
<1> QED
  BY <1>9, <1>11, <1>12

LEMMA StoreBodyStep ==
    ASSUME TypeOK, WriteInv, DiskInv, StoreBody
    PROVE  WriteStepOK
<1> DEFINE h == Head(s.background)
           n == h.n
           k == writes[n].key
           c == CreateOf(n)
           b == BodyStoredOf(n)
<1>1. /\ s.background # <<>> /\ h.op = "write"
      /\ s' \in Members
      /\ s'.pendingWrites = s.pendingWrites /\ s'.activeWrites = s.activeWrites
      /\ s'.recordFilter = s.recordFilter /\ s'.added = s.added
      /\ s'.bodyFilter = s.bodyFilter /\ s'.addedBodies = s.addedBodies
      /\ s'.synchronizing = s.synchronizing /\ s'.wiped = s.wiped
      /\ s'.pendingReads = s.pendingReads /\ s'.activeReads = s.activeReads
      /\ s'.background = NextCreate(n) /\ s'.io = s.io
      /\ UNCHANGED <<reads, records>>
      /\ StoredInline(n, k) \/ StoredAsBlob(n, k)
  BY StoreBodyEffect
<1>2. /\ h \in WriteFunctions /\ n \in Nat /\ n \in DOMAIN writes
      /\ h \in Range(s.background) /\ s.background \in Seq(BackgroundFunctions)
      /\ Range(s.background) = Range(Tail(s.background)) \cup {h} /\ h \notin SynchronizeFunctions
      /\ Range(Tail(s.background)) \cap WriteFunctions = {}
      /\ Range(s.background) \cap WriteFunctions = {h}
      /\ writes[n].at = "memory" /\ writes[n].activeCount = 0
      /\ s.activeWrites = {n}
      /\ writes[n] \in Writes /\ k \in Keys
  BY <1>1, HeadWrite
<1>3. /\ c \in WriteFunctions /\ c \in BackgroundFunctions /\ c \notin SynchronizeFunctions /\ c.n = n /\ c.op = "create"
      /\ b \in BodyStoredFunctions /\ b \in MainFunctions /\ b \notin SynchronizedFunctions
      /\ b \notin MainReadFunctions /\ b.n = n
      /\ \A f \in BodyStoredFunctions : f.n = n => f = b
  BY <1>2, OfTypes
<1>4. s \in Members /\ writes \in Seq(Writes) /\ s.main \in Seq(MainFunctions)
  BY FieldTypes DEF TypeOK
<1>5. writes' \in Seq(Writes) /\ DOMAIN writes' = DOMAIN writes /\ SameKeys(writes, writes')
      /\ (\A x \in DOMAIN writes : x # n => writes'[x] = writes[x]) /\ writes'[n].at = "memory"
      /\ (StoredInline(n, k) => writes'[n].activeCount = 1)
      /\ (~StoredInline(n, k) => writes'[n].activeCount = 2)
  <2>1. ASSUME NEW e \in Writes, e.key = k, writes' = Edited(writes, n, e)
        PROVE  /\ writes' \in Seq(Writes) /\ DOMAIN writes' = DOMAIN writes /\ SameKeys(writes, writes')
               /\ (\A x \in DOMAIN writes : x # n => writes'[x] = writes[x]) /\ writes'[n] = e
    <3>1. writes \in Seq(Writes) /\ n \in DOMAIN writes /\ e.key = writes[n].key
      BY <1>2, <1>4, <2>1
    <3> HIDE DEF n, k
    <3> QED
      BY <2>1, <3>1, WriteChanged
  <2> HIDE DEF n, k
  <2>2. CASE StoredInline(n, k)
    <3>1. PICK e \in Writes : e.key = k /\ e.at = "memory" /\ e.activeCount = 1 /\ writes' = Edited(writes, n, e)
      BY <2>2 DEF StoredInline
    <3> QED
      BY <2>1, <2>2, <3>1
  <2>3. CASE ~StoredInline(n, k)
    <3>1. PICK e \in Writes : e.key = k /\ e.at = "memory" /\ e.activeCount = 2 /\ writes' = Edited(writes, n, e)
      BY <1>1, <2>3 DEF StoredAsBlob
    <3> QED
      BY <2>1, <2>3, <3>1
  <2> QED
    BY <2>2, <2>3
<1> HIDE DEF k, c, b
<1>6. /\ Range(s'.background) = Range(Tail(s.background)) \cup {c}
      /\ Range(s'.background) \cap WriteFunctions = {c}
      /\ Range(s'.background) \cap SynchronizeFunctions = Range(s.background) \cap SynchronizeFunctions
      /\ Once(s'.background, WriteFunctions) /\ Once(s'.background, SynchronizeFunctions)
      /\ \A D : NoneBehind(s.background, SynchronizeFunctions, D) => NoneBehind(s'.background, SynchronizeFunctions, D)
  <2> DEFINE q == s.background
             p == [q EXCEPT ![1] = c]
  <2>1. s'.background = p
    BY <1>1 DEF NextCreate, c
  <2>2. Once(q, WriteFunctions) /\ Once(q, SynchronizeFunctions)
    BY DEF WriteInv, ActiveInv, DiskInv, FilterInv
  <2>3. /\ q \in Seq(BackgroundFunctions) /\ q # <<>> /\ c \in BackgroundFunctions
        /\ h \in WriteFunctions /\ c \notin SynchronizeFunctions /\ h = Head(q)
    BY <1>1, <1>2, <1>3
  <2> HIDE DEF q
  <2>4. /\ Range(p) = Range(Tail(q)) \cup {c}
        /\ Once(p, WriteFunctions) /\ Once(p, SynchronizeFunctions)
        /\ \A D : NoneBehind(q, SynchronizeFunctions, D) => NoneBehind(p, SynchronizeFunctions, D)
    BY <2>2, <2>3, HeadChanged
  <2> HIDE DEF p
  <2>5. Range(s'.background) = Range(Tail(s.background)) \cup {c}
    BY <2>1, <2>4 DEF q
  <2>6. /\ Range(s'.background) \cap WriteFunctions = {c}
        /\ Range(s'.background) \cap SynchronizeFunctions = Range(s.background) \cap SynchronizeFunctions
    BY <1>2, <1>3, <2>5
  <2> QED
    BY <2>1, <2>4, <2>5, <2>6 DEF q
<1>7. Range(s.main) \cap BodyStoredFunctions = {}
  <2>1. ~BodyToCome(s, n)
    <3>1. writes[n].activeCount = (IF RecordToCome(s, writes, n) THEN 1 ELSE 0) + (IF BodyToCome(s, n) THEN 1 ELSE 0)
      BY <1>2 DEF WriteInv, ActiveInv
    <3> QED
      BY <1>2, <3>1
  <2>2. b \notin Range(s.main)
    BY <2>1, ToCome DEF b
  <2>3. \A f \in Range(s.main) \cap BodyStoredFunctions : f.n = n
    BY <1>2 DEF WriteInv, ActiveInv
  <2> QED
    BY <1>3, <2>2, <2>3
<1>8. /\ Range(s'.main) \cap BodyStoredFunctions = IF StoredInline(n, k) THEN {} ELSE {b}
      /\ Range(s'.main) \cap SynchronizedFunctions = Range(s.main) \cap SynchronizedFunctions
      /\ Once(s'.main, BodyStoredFunctions) /\ Once(s'.main, SynchronizedFunctions)
      /\ Agree(s.main, s'.main, MainReadFunctions)
  <2>0. Once(s.main, BodyStoredFunctions) /\ Once(s.main, SynchronizedFunctions)
    BY DEF WriteInv, ActiveInv, DiskInv, FilterInv
  <2> HIDE DEF n
  <2>1. CASE StoredInline(n, k)
    <3>1. s'.main = s.main
      BY <2>1 DEF StoredInline
    <3> QED
      BY <1>7, <2>0, <2>1, <3>1, AgreeSame
  <2>2. CASE ~StoredInline(n, k)
    <3>1. s'.main = Append(s.main, b)
      BY <1>1, <2>2 DEF StoredAsBlob, b
    <3>2. Range(s'.main) = Range(s.main) \cup {b} /\ Once(s'.main, BodyStoredFunctions)
      BY <1>3, <1>4, <1>7, <2>0, <3>1, AppendKeeps
    <3>3. Once(s'.main, SynchronizedFunctions)
      BY <1>3, <1>4, <2>0, <3>1, AppendKeeps
    <3>4. Agree(s.main, s'.main, MainReadFunctions)
      BY <1>3, <1>4, <3>1, AgreeAppend
    <3> QED
      BY <1>3, <1>7, <2>2, <3>2, <3>3, <3>4
  <2> QED
    BY <2>1, <2>2
<1>9. PendingInv(s', writes')
  BY <1>1, <1>5 DEF WriteInv, PendingInv
<1>10. ActiveInv(s', writes')
  <2>1. ASSUME NEW x \in DOMAIN writes
        PROVE  /\ writes'[x].at # "memory" => x \in s'.activeWrites
               /\ writes'[x].activeCount =
                     (IF RecordToCome(s', writes', x) THEN 1 ELSE 0) + (IF BodyToCome(s', x) THEN 1 ELSE 0)
    <3>1. x \in Nat
      BY ElementTypes
    <3>2. CASE x = n
      <4>1. RecordToCome(s', writes', x)
        BY <1>6, <3>2, ToCome DEF c
      <4>2. BodyToCome(s', x) <=> ~StoredInline(n, k)
        BY <1>3, <1>8, <3>2, ToCome DEF b
      <4> QED
        BY <1>5, <3>2, <4>1, <4>2
    <3>3. CASE x # n
      <4>1. /\ CreateOf(x) \in WriteFunctions /\ CreateOf(x).n = x
            /\ BodyStoredOf(x) \in BodyStoredFunctions /\ BodyStoredOf(x).n = x
            /\ CreateOf(x).op = "create"
        BY <3>1, OfTypes
      <4>2. CreateOf(x) # c /\ BodyStoredOf(x) # b /\ CreateOf(x) # h
        BY <1>1, <1>3, <3>3, <4>1
      <4>3. CreateOf(x) \notin Range(s'.background) /\ CreateOf(x) \notin Range(s.background)
        BY <1>2, <1>6, <4>1, <4>2
      <4>4. BodyStoredOf(x) \notin Range(s'.main) /\ BodyStoredOf(x) \notin Range(s.main)
        BY <1>7, <1>8, <4>1, <4>2
      <4>5. writes'[x] = writes[x]
        BY <1>5, <3>3
      <4>6. RecordToCome(s', writes', x) = RecordToCome(s, writes, x) /\ BodyToCome(s', x) = BodyToCome(s, x)
        BY <4>3, <4>4, <4>5, ToCome
      <4>7. /\ writes[x].at # "memory" => x \in s.activeWrites
            /\ writes[x].activeCount = (IF RecordToCome(s, writes, x) THEN 1 ELSE 0) + (IF BodyToCome(s, x) THEN 1 ELSE 0)
        BY DEF WriteInv, ActiveInv
      <4> QED
        BY <1>1, <4>5, <4>6, <4>7
    <3> QED
      BY <3>2, <3>3
  <2>2. \A f \in Range(s'.main) \cap BodyStoredFunctions : f.n \in s'.activeWrites
    BY <1>1, <1>2, <1>3, <1>8
  <2> QED
    BY <1>1, <1>2, <1>3, <1>5, <1>6, <1>8, <2>1, <2>2 DEF ActiveInv
<1>11. RecordsInv(s', writes', records)
  BY <1>1, <1>5 DEF WriteInv, RecordsInv, SameKeys
<1>12. /\ bodies' \in [Keys -> Files]
       /\ \A x \in Keys : bodies'[x] # None => bodies[x] # None \/ (~StoredInline(n, k) /\ x = k)
  <2> HIDE DEF n
  <2>1. CASE StoredInline(n, k)
    BY <2>1 DEF StoredInline
  <2>2. CASE ~StoredInline(n, k)
    BY <1>1, <2>2 DEF StoredAsBlob
  <2> QED
    BY <2>1, <2>2
<1>13. FilterInv(s', writes', records, bodies')
  <2>1. ASSUME NEW keys, Covers(s, writes, records, keys) PROVE Covers(s', writes', records, keys)
    <3>1. writes[h.n].key \in keys
      BY <1>2, <2>1 DEF Covers
    <3>2. \A f \in Range(s'.background) \cap WriteFunctions : writes'[f.n].key \in keys
      BY <1>2, <1>3, <1>5, <1>6, <3>1 DEF SameKeys
    <3>3. \A x \in Keys : HasRecord(writes', records, x) => HasRecord(writes, records, x)
      BY <1>5 DEF HasRecord
    <3> QED
      BY <2>1, <3>2, <3>3 DEF Covers
  <2>2. ASSUME NEW keys, CoversBodies(s, writes, bodies, keys) PROVE CoversBodies(s', writes', bodies', keys)
    <3>1. \A x \in Keys : bodies[x] # None => x \in keys
      BY <1>7, <2>2 DEF CoversBodies
    <3>2. ~StoredInline(n, k) => b \in Range(s'.main) \cap BodyStoredFunctions /\ writes'[b.n].key = k
      BY <1>2, <1>3, <1>5, <1>8 DEF SameKeys, k
    <3> HIDE DEF n
    <3> QED
      BY <1>12, <3>1, <3>2 DEF CoversBodies
  <2>3. NoneBehind(s'.background, SynchronizeFunctions, NotAdded(s', writes'))
    <3>1. NoneBehind(s'.background, SynchronizeFunctions, NotAdded(s, writes))
      BY <1>6 DEF DiskInv, FilterInv
    <3>2. Range(s'.background) \cap NotAdded(s', writes') \subseteq NotAdded(s, writes)
      <4>1. writes'[n].key = writes[n].key
        BY <1>2, <1>5 DEF SameKeys
      <4> QED
        BY <1>1, <1>3, <1>6, <4>1 DEF NotAdded
    <3> QED
      BY <3>1, <3>2, NoneBehindFewer
  <2>4. /\ ~s'.wiped /\ s'.recordFilter # None => Covers(s', writes', records, s'.recordFilter)
        /\ ~s'.wiped /\ s'.bodyFilter # None => CoversBodies(s', writes', bodies', s'.bodyFilter)
    BY <1>1, <2>1, <2>2 DEF DiskInv, FilterInv
  <2>5. \A f \in Range(s'.main) \cap SynchronizedFunctions :
           /\ s'.synchronizing
           /\ Covers(s', writes', records, f.records \cup s'.added)
           /\ CoversBodies(s', writes', bodies', f.bodies \cup s'.addedBodies)
    BY <1>1, <1>8, <2>1, <2>2 DEF DiskInv, FilterInv
  <2>6. Range(s'.background) \cap SynchronizeFunctions # {} =>
            s'.synchronizing /\ Range(s'.main) \cap SynchronizedFunctions = {}
    BY <1>1, <1>6, <1>8 DEF DiskInv, FilterInv
  <2> QED
    BY <1>6, <1>8, <2>3, <2>4, <2>5, <2>6 DEF FilterInv
<1>14. ReadsAlone(s, s')
  BY <1>1, <1>8, AgreeSame DEF ReadsAlone
<1> QED
  BY <1>1, <1>5, <1>9, <1>10, <1>11, <1>12, <1>13, <1>14 DEF WriteStepOK, TypeOK, WriteInv, DiskInv

-----------------------------------------------------------------------------
LEMMA SynchronizeFilesStep ==
    ASSUME TypeOK, WriteInv, DiskInv, SynchronizeFiles
    PROVE  WriteStepOK
<1>0. PICK empty \in SUBSET {k \in Keys : MayBeEmpty(records[k])} :
        /\ records' = [k \in Keys |-> DeleteEmpty(k, empty)]
        /\ s' = Post(Popped("background"), "main",
                     [op |-> "synchronized",
                      records |-> {k \in Keys : records[k] # None} \ empty,
                      bodies |-> {k \in Keys : bodies[k] # None}])
  BY DEF SynchronizeFiles
<1> DEFINE h == Head(s.background)
           rest == Tail(s.background)
           R == {k \in Keys : records[k] # None} \ empty
           B == {k \in Keys : bodies[k] # None}
           f == [op |-> "synchronized", records |-> R, bodies |-> B]
           m == Popped("background")
           main == Append(s.main, f)
<1>1. /\ s.background # <<>> /\ h.op = "synchronize" /\ s' = Post(m, "main", f)
      /\ UNCHANGED <<writes, reads, bodies>> /\ records' = [k \in Keys |-> DeleteEmpty(k, empty)]
  BY <1>0 DEF SynchronizeFiles, At
<1>2. /\ s \in Members /\ m \in Members /\ m = [s EXCEPT !.background = rest]
      /\ rest \in Seq(BackgroundFunctions) /\ h \in BackgroundFunctions
      /\ s.background \in Seq(BackgroundFunctions) /\ s.main \in Seq(MainFunctions)
      /\ writes \in Seq(Writes)
  BY <1>1, PoppedType, FieldTypes DEF TypeOK
<1>3. h \in SynchronizeFunctions /\ h \notin WriteFunctions
  BY <1>1, <1>2, Kinds
<1>4. /\ f \in SynchronizedFunctions /\ f \in MainFunctions
      /\ f \notin BodyStoredFunctions /\ f \notin MainReadFunctions
      /\ f.records = R /\ f.bodies = B
  <2>1. R \in SUBSET Keys /\ B \in SUBSET Keys
    OBVIOUS
  <2> HIDE DEF R, B
  <2> QED
    BY <2>1 DEF SynchronizedFunctions, MainFunctions, MainWriteFunctions, MainReadFunctions,
                BodyStoredFunctions, AnswerFunctions, FinishReadFunctions
<1>5. /\ \A k \in Keys : k \in R \/ k \in empty \/ records[k] = None
      /\ \A k \in Keys : bodies[k] # None <=> k \in B
  OBVIOUS
<1> HIDE DEF f, R, B
<1>6. s' \in Members /\ s' = [m EXCEPT !.main = Append(m.main, f)] /\ m.main = s.main
  <2>1. m.main = s.main
    BY <1>2 DEF Members
  <2> HIDE DEF m
  <2> QED
    BY <1>1, <1>2, <1>4, <2>1, PostMain
<1> HIDE DEF m
<1>7. s' = [s EXCEPT !.background = rest, !.main = main]
  BY <1>2, <1>6 DEF Members
<1> HIDE DEF h, rest, main
<1>8. /\ s'.pendingWrites = s.pendingWrites /\ s'.activeWrites = s.activeWrites
      /\ s'.recordFilter = s.recordFilter /\ s'.added = s.added
      /\ s'.bodyFilter = s.bodyFilter /\ s'.addedBodies = s.addedBodies
      /\ s'.synchronizing = s.synchronizing /\ s'.wiped = s.wiped
      /\ s'.pendingReads = s.pendingReads /\ s'.activeReads = s.activeReads
      /\ s'.background = rest /\ s'.main = main /\ s'.io = s.io
  BY <1>2, <1>7 DEF Members
<1>9. /\ Range(s.background) = Range(rest) \cup {h}
      /\ Range(rest) \cap SynchronizeFunctions = {}
      /\ Range(rest) \cap NotAdded(s, writes) = {}
      /\ Agree(s.background, rest, WriteFunctions)
  <2>1. Once(s.background, SynchronizeFunctions) /\ NoneBehind(s.background, SynchronizeFunctions, NotAdded(s, writes))
    BY DEF DiskInv, FilterInv
  <2>2. h = Head(s.background) /\ rest = Tail(s.background)
    BY DEF h, rest
  <2>3. /\ Range(s.background) = Range(rest) \cup {h}
        /\ Range(rest) \cap SynchronizeFunctions = {}
    BY <1>1, <1>2, <1>3, <2>1, <2>2, TailKeeps
  <2>4. Range(rest) \cap NotAdded(s, writes) = {}
    BY <1>1, <1>2, <1>3, <2>1, <2>2, TailKeeps
  <2>5. Agree(s.background, rest, WriteFunctions)
    BY <1>1, <1>2, <1>3, <2>2, AgreeTail
  <2> QED
    BY <2>3, <2>4, <2>5
<1>10. s.synchronizing /\ Range(s.main) \cap SynchronizedFunctions = {}
  BY <1>3, <1>9 DEF DiskInv, FilterInv
<1>11. /\ Range(main) = Range(s.main) \cup {f}
       /\ Once(main, SynchronizedFunctions)
       /\ Agree(s.main, main, BodyStoredFunctions) /\ Agree(s.main, main, MainReadFunctions)
  <2>1. Once(s.main, SynchronizedFunctions)
    BY DEF DiskInv, FilterInv
  <2>2. Range(main) = Range(s.main) \cup {f} /\ Once(main, SynchronizedFunctions)
    BY <1>2, <1>4, <1>10, <2>1, AppendKeeps DEF main
  <2>3. Agree(s.main, main, BodyStoredFunctions) /\ Agree(s.main, main, MainReadFunctions)
    BY <1>2, <1>4, AgreeAppend DEF main
  <2> QED
    BY <2>2, <2>3
<1>12. WritesAlone(s, s') /\ ReadsAlone(s, s')
  BY <1>8, <1>9, <1>11, AgreeSame DEF WritesAlone, ReadsAlone, PendingLess
<1>13. PendingInv(s', writes) /\ ActiveInv(s', writes)
  BY <1>2, <1>6, <1>12, AloneKeepsWrites DEF WriteInv
<1>14. /\ records' \in [Keys -> Files]
       /\ \A k \in Keys : records'[k] \in {records[k], None}
       /\ \A k \in Keys : records'[k] = records[k] => records[k] = None \/ k \in R
  BY <1>1, <1>5 DEF DeleteEmpty, TypeOK, Files
<1>15. RecordsInv(s', writes, records')
  BY <1>2, <1>6, <1>12, <1>14, AloneKeepsRecords DEF WritesAlone, WriteInv
<1>16. \A k \in Keys : HasRecord(writes, records', k) => k \in R /\ HasRecord(writes, records, k)
  <2>1. None \notin Nat /\ DOMAIN writes \subseteq Nat /\ 0 \in Nat
    BY BoundsAssumption, ElementTypes
  <2> QED
    BY <1>14, <2>1 DEF HasRecord
<1>17. /\ Range(s'.background) \cap WriteFunctions = Range(s.background) \cap WriteFunctions
       /\ Range(s'.main) \cap BodyStoredFunctions = Range(s.main) \cap BodyStoredFunctions
  BY <1>8, <1>9, <1>11 DEF Agree
<1>18. FilterInv(s', writes, records', bodies)
  <2>1. ASSUME NEW keys, Covers(s, writes, records, keys) PROVE Covers(s', writes, records', keys)
    BY <1>16, <1>17, <2>1 DEF Covers
  <2>2. ASSUME NEW keys, CoversBodies(s, writes, bodies, keys) PROVE CoversBodies(s', writes, bodies, keys)
    BY <1>17, <2>2 DEF CoversBodies
  <2>3. /\ ~s'.wiped /\ s'.recordFilter # None => Covers(s', writes, records', s'.recordFilter)
        /\ ~s'.wiped /\ s'.bodyFilter # None => CoversBodies(s', writes, bodies, s'.bodyFilter)
    BY <1>8, <2>1, <2>2 DEF DiskInv, FilterInv
  <2>4. Range(s'.main) \cap SynchronizedFunctions = {f}
    BY <1>4, <1>8, <1>10, <1>11
  <2>5. Covers(s', writes, records', R \cup s'.added)
    <3>1. \A g \in Range(rest) \cap WriteFunctions : writes[g.n].key \in s.added
      BY <1>9 DEF NotAdded
    <3> QED
      BY <1>8, <1>16, <3>1 DEF Covers
  <2>6. CoversBodies(s', writes, bodies, B \cup s'.addedBodies)
    BY <1>5 DEF CoversBodies
  <2>7. \A g \in Range(s'.main) \cap SynchronizedFunctions :
           /\ s'.synchronizing
           /\ Covers(s', writes, records', g.records \cup s'.added)
           /\ CoversBodies(s', writes, bodies, g.bodies \cup s'.addedBodies)
    BY <1>4, <1>8, <1>10, <2>4, <2>5, <2>6
  <2>8. Range(s'.background) \cap SynchronizeFunctions = {}
    BY <1>8, <1>9
  <2>9. NoneBehind(s'.background, SynchronizeFunctions, NotAdded(s', writes)) /\ Once(s'.background, SynchronizeFunctions)
    BY <2>8 DEF NoneBehind, Once, Range
  <2> QED
    BY <1>8, <1>11, <2>3, <2>7, <2>8, <2>9 DEF FilterInv
<1> QED
  BY <1>1, <1>6, <1>12, <1>13, <1>14, <1>15, <1>18 DEF WriteStepOK, TypeOK, WriteInv, DiskInv, SameKeys

-----------------------------------------------------------------------------
(* finishWriteOperation(): a write for which nothing is to come any more   *)
(* makes room for the next one.                                            *)
Without(m, n) == [m EXCEPT !.activeWrites = m.activeWrites \ {n}]

LEMMA WithoutKeeps ==
    ASSUME NEW m \in Members, NEW w \in Seq(Writes), WritesOK(m, w), NEW n \in DOMAIN w, w[n].activeCount = 0,
           \A f \in Range(m.background) \cap WriteFunctions : f.op = "write" => f.n # n,
           NEW t, t = Without(m, n)
    PROVE  t \in Members /\ WritesOK(t, w) /\ ReadsAlone(m, t)
<1>1. /\ t \in Members /\ t.activeWrites = m.activeWrites \ {n}
      /\ t.pendingWrites = m.pendingWrites
      /\ t.recordFilter = m.recordFilter /\ t.added = m.added
      /\ t.bodyFilter = m.bodyFilter /\ t.addedBodies = m.addedBodies
      /\ t.synchronizing = m.synchronizing /\ t.wiped = m.wiped
      /\ t.pendingReads = m.pendingReads /\ t.activeReads = m.activeReads
      /\ t.io = m.io /\ t.background = m.background /\ t.main = m.main
  BY DEF Without, Members
<1>2. ReadsAlone(m, t) /\ FiltersAlone(m, t)
  BY <1>1, AgreeSame DEF ReadsAlone, FiltersAlone
<1>3. PendingInv(t, w)
  BY <1>1 DEF WritesOK, PendingInv
<1>4. RecordsInv(t, w, records)
  BY <1>1 DEF WritesOK, RecordsInv
<1>5. ~RecordToCome(m, w, n) /\ ~BodyToCome(m, n)
  <2>1. w[n].activeCount = (IF RecordToCome(m, w, n) THEN 1 ELSE 0) + (IF BodyToCome(m, n) THEN 1 ELSE 0)
    BY DEF WritesOK, ActiveInv
  <2> QED
    BY <2>1
<1>6. n \in Nat
  BY LenProperties
<1>7. ActiveInv(t, w)
  <2>1. \A f \in Range(m.background) \cap WriteFunctions : f.n # n
    <3>1. \A f \in WriteFunctions : f.op = "create" /\ f.n = n => f = CreateOf(n)
      BY <1>6, OfTypes
    <3>2. CreateOf(n) \notin Range(m.background)
      BY <1>5, ToCome
    <3>3. \A f \in WriteFunctions : f.op \in {"write", "create"}
      BY DEF WriteFunctions
    <3> QED
      BY <3>1, <3>2, <3>3
  <2>2. \A f \in Range(m.main) \cap BodyStoredFunctions : f.n # n
    <3>1. \A f \in BodyStoredFunctions : f.n = n => f = BodyStoredOf(n)
      BY <1>6, OfTypes
    <3> QED
      BY <1>5, <3>1, ToCome
  <2>3. w[n].at = "memory"
    BY <1>5, ToCome
  <2>4. \A x \in DOMAIN w : RecordToCome(t, w, x) = RecordToCome(m, w, x) /\ BodyToCome(t, x) = BodyToCome(m, x)
    BY <1>1 DEF RecordToCome, BodyToCome
  <2> QED
    BY <1>1, <2>1, <2>2, <2>3, <2>4 DEF WritesOK, ActiveInv
<1>8. FilterInv(t, w, records, bodies)
  BY <1>1, <1>2, AloneKeepsFilters DEF WritesOK, SameKeys
<1> QED
  BY <1>1, <1>2, <1>3, <1>4, <1>7, <1>8 DEF WritesOK

LEMMA ShrinkKeeps ==
    ASSUME NEW m \in Members, NEW w \in Seq(Writes), WritesOK(m, w), NEW t \in ShrinkIfNeeded(m)
    PROVE  t \in Members /\ WritesOK(t, w) /\ ReadsAlone(m, t)
<1>1. t \in Members /\ Alone(m, t)
  BY ShrinkIsAlone
<1>2. PendingInv(t, w) /\ ActiveInv(t, w)
  BY <1>1, AloneKeepsWrites DEF Alone, WritesOK
<1>3. RecordsInv(t, w, records)
  BY <1>1, AloneKeepsRecords DEF Alone, WritesAlone, WritesOK
<1>4. FilterInv(t, w, records, bodies)
  <2>1. SameKeys(w, w)
    BY DEF SameKeys
  <2> QED
    BY <1>1, <2>1, AloneKeepsFilters DEF Alone, WritesOK
<1> QED
  BY <1>1, <1>2, <1>3, <1>4 DEF Alone, WritesOK

LEMMA FinishKeeps ==
    ASSUME TypeOK, NEW m \in Members, NEW v \in Seq(Writes), DOMAIN v = DOMAIN writes, SameKeys(writes, v),
           WritesOK(m, v), NEW n \in DOMAIN v,
           \A f \in Range(m.background) \cap WriteFunctions : f.op = "write" => f.n # n,
           NEW t,
           v[n].activeCount = 0 => t \in ShrinkIfNeeded(DispatchPendingWrites(Without(m, n))),
           v[n].activeCount # 0 => t = m
    PROVE  t \in Members /\ WritesOK(t, v) /\ ReadsAlone(m, t)
<1> DEFINE o == Without(m, n)
           d == DispatchPendingWrites(o)
<1>1. CASE v[n].activeCount # 0
  BY <1>1, AgreeSame DEF ReadsAlone
<1>2. CASE v[n].activeCount = 0
  <2>1. o \in Members /\ WritesOK(o, v) /\ ReadsAlone(m, o)
    BY <1>2, WithoutKeeps
  <2>2. t \in ShrinkIfNeeded(d)
    BY <1>2
  <2> HIDE DEF o
  <2>3. d \in Members /\ WritesOK(d, v) /\ ReadsAlone(o, d)
    BY <2>1, DispatchKeeps
  <2> HIDE DEF d
  <2>4. t \in Members /\ WritesOK(t, v) /\ ReadsAlone(d, t)
    BY <2>2, <2>3, ShrinkKeeps
  <2>5. ReadsAlone(m, t)
    BY <2>1, <2>3, <2>4, AgreeTransitive DEF ReadsAlone
  <2> QED
    BY <2>4, <2>5
<1> QED
  BY <1>1, <1>2

LEMMA RecordWrittenStep ==
    ASSUME TypeOK, WriteInv, DiskInv, NEW n \in DOMAIN writes, RecordWritten(n)
    PROVE  WriteStepOK
<1> DEFINE w == [writes EXCEPT ![n].at = "memory"]
           e == [writes[n] EXCEPT !.at = "memory", !.activeCount = writes[n].activeCount - 1]
<1>1. writes[n].at = "written" /\ FinishWrite(s, w, n)
  BY DEF RecordWritten
<1>2. writes[n] \in Writes /\ n \in Nat /\ s \in Members /\ writes \in Seq(Writes)
  BY ElementTypes DEF TypeOK
<1>3. /\ w \in Seq(Writes) /\ n \in DOMAIN w /\ w[n] = [writes[n] EXCEPT !.at = "memory"]
      /\ w[n].activeCount = writes[n].activeCount
  <2>1. [writes[n] EXCEPT !.at = "memory"] \in Writes
    BY <1>2 DEF Writes
  <2>2. DOMAIN writes = 1 .. Len(writes)
    BY <1>2, LenProperties
  <2>3. w \in Seq(Writes)
    BY <1>2, <2>1, <2>2, ExceptSeq
  <2> QED
    BY <1>2, <2>3 DEF Writes
<1>4. e \in Writes /\ e.at = "memory" /\ e.key = writes[n].key /\ e.activeCount = writes[n].activeCount - 1
  <2>1. writes[n].activeCount - 1 \in Int
    BY <1>2 DEF Writes
  <2> QED
    BY <1>2, <2>1 DEF Writes
<1>5. writes' = Edited(writes, n, e)
  <2>1. writes' = [w EXCEPT ![n] = [w[n] EXCEPT !.activeCount = w[n].activeCount - 1]]
    BY <1>1 DEF FinishWrite
  <2>2. [w[n] EXCEPT !.activeCount = w[n].activeCount - 1] = e
    BY <1>2, <1>3 DEF Writes
  <2>3. [w EXCEPT ![n] = e] = [writes EXCEPT ![n] = e]
    <3> HIDE DEF e
    <3> QED
      OBVIOUS
  <2> QED
    BY <2>1, <2>2, <2>3 DEF Edited
<1> HIDE DEF e
<1>6. /\ writes' \in Seq(Writes) /\ DOMAIN writes' = DOMAIN writes /\ writes'[n] = e
      /\ \A x \in DOMAIN writes : x # n => writes'[x] = writes[x]
      /\ SameKeys(writes, writes')
  <2>1. e \in Writes /\ writes \in Seq(Writes) /\ e.key = writes[n].key
    BY <1>2, <1>4
  <2> QED
    BY <1>5, <2>1, WriteChanged
<1>7. /\ UNCHANGED <<reads, records, bodies>>
      /\ writes'[n].activeCount = 0 => s' \in ShrinkIfNeeded(DispatchPendingWrites(Without(s, n)))
      /\ writes'[n].activeCount # 0 => s' = s
  <2>1. /\ UNCHANGED <<reads, records, bodies>>
        /\ w[n].activeCount = 1 => s' \in ShrinkIfNeeded(DispatchPendingWrites(Without(s, n)))
        /\ w[n].activeCount # 1 => s' = s
    <3> HIDE DEF w
    <3> QED
      BY <1>1 DEF FinishWrite, Without
  <2>2. writes'[n].activeCount = writes[n].activeCount - 1 /\ writes[n].activeCount \in Int
    BY <1>2, <1>4, <1>6 DEF Writes
  <2> HIDE DEF w
  <2> QED
    BY <1>3, <2>1, <2>2
<1> HIDE DEF w
<1>8. \A f \in Range(s.background) \cap WriteFunctions : f.n # n /\ f.n \in DOMAIN writes
  BY <1>1 DEF WriteInv, ActiveInv, PendingInv
<1>9. PendingInv(s, writes') /\ RecordsInv(s, writes', records) /\ FilterInv(s, writes', records, bodies)
  BY <1>2, <1>6, EditKeeps DEF WriteInv, DiskInv
<1>10. ActiveInv(s, writes')
  <2>1. ASSUME NEW x \in DOMAIN writes
        PROVE  /\ writes'[x].at # "memory" => x \in s.activeWrites
               /\ writes'[x].activeCount =
                     (IF RecordToCome(s, writes', x) THEN 1 ELSE 0) + (IF BodyToCome(s, x) THEN 1 ELSE 0)
    <3>1. /\ writes[x].at # "memory" => x \in s.activeWrites
          /\ writes[x].activeCount = (IF RecordToCome(s, writes, x) THEN 1 ELSE 0) + (IF BodyToCome(s, x) THEN 1 ELSE 0)
      BY DEF WriteInv, ActiveInv
    <3>2. CASE x # n
      BY <1>6, <3>1, <3>2 DEF RecordToCome
    <3>3. CASE x = n
      <4>1. CreateOf(n) \notin Range(s.background)
        BY <1>2, <1>8, OfTypes
      <4>2. ~RecordToCome(s, writes', n) /\ RecordToCome(s, writes, n)
        BY <1>1, <1>4, <1>6, <4>1, ToCome
      <4> QED
        BY <1>4, <1>6, <3>1, <3>3, <4>2
    <3> QED
      BY <3>2, <3>3
  <2> QED
    BY <1>6, <1>8, <2>1 DEF WriteInv, ActiveInv
<1>11. s' \in Members /\ WritesOK(s', writes') /\ ReadsAlone(s, s')
  <2> DEFINE v == writes'
             t == s'
  <2>1. /\ s \in Members /\ v \in Seq(Writes) /\ DOMAIN v = DOMAIN writes /\ SameKeys(writes, v)
        /\ n \in DOMAIN v
        /\ \A f \in Range(s.background) \cap WriteFunctions : f.op = "write" => f.n # n
        /\ v[n].activeCount = 0 => t \in ShrinkIfNeeded(DispatchPendingWrites(Without(s, n)))
        /\ v[n].activeCount # 0 => t = s
    BY <1>2, <1>6, <1>7, <1>8
  <2>2. WritesOK(s, v)
    BY <1>9, <1>10 DEF WritesOK
  <2> HIDE DEF v, t
  <2>3. t \in Members /\ WritesOK(t, v) /\ ReadsAlone(s, t)
    BY <2>1, <2>2, FinishKeeps
  <2> QED
    BY <2>3 DEF v, t
<1> QED
  BY <1>6, <1>7, <1>11 DEF WriteStepOK, TypeOK, WriteInv, DiskInv, WritesOK

LEMMA BodyStoredStep ==
    ASSUME TypeOK, WriteInv, DiskInv, BodyStored
    PROVE  WriteStepOK
<1> DEFINE h == Head(s.main)
           n == h.n
           k == writes[n].key
           main == Tail(s.main)
           bf == Add(s.bodyFilter, k)
           ab == IF s.synchronizing THEN s.addedBodies \cup {k} ELSE s.addedBodies
           m == [Popped("main") EXCEPT !.bodyFilter = bf, !.addedBodies = ab]
           e == [writes[n] EXCEPT !.activeCount = writes[n].activeCount - 1]
<1>1. s.main # <<>> /\ h.op = "bodyStored"
  BY DEF BodyStored, At
<1>2. /\ s \in Members /\ Popped("main") = [s EXCEPT !.main = main] /\ main \in Seq(MainFunctions)
      /\ h \in MainFunctions /\ s.main \in Seq(MainFunctions) /\ writes \in Seq(Writes)
  BY <1>1, PoppedType, FieldTypes DEF TypeOK
<1>3. h \in BodyStoredFunctions /\ n \in Nat
  BY <1>1, <1>2, Kinds DEF BodyStoredFunctions
<1>4. /\ Range(s.main) = Range(main) \cup {h}
      /\ Range(main) \cap BodyStoredFunctions = {}
      /\ Range(s.main) \cap BodyStoredFunctions = {h}
      /\ h = BodyStoredOf(n)
  <2>1. Once(s.main, BodyStoredFunctions)
    BY DEF WriteInv, ActiveInv
  <2>2. /\ Range(s.main) = Range(main) \cup {h}
        /\ Range(main) \cap BodyStoredFunctions = {}
    BY <1>1, <1>2, <1>3, <2>1, TailKeeps
  <2>3. h = BodyStoredOf(n)
    BY <1>3, OfTypes
  <2> QED
    BY <1>3, <2>2, <2>3
<1>5. n \in s.activeWrites /\ n \in DOMAIN writes /\ writes[n] \in Writes /\ k \in Keys
  <2>1. n \in s.activeWrites /\ n \in DOMAIN writes
    BY <1>3, <1>4 DEF WriteInv, ActiveInv, PendingInv
  <2> QED
    BY <2>1, ElementTypes DEF Writes
<1>6. FinishWrite(m, writes, n)
  <2>1. m = [Popped("main") EXCEPT !.bodyFilter = Add(Popped("main").bodyFilter, k),
                                   !.addedBodies = IF s.synchronizing THEN Popped("main").addedBodies \cup {k}
                                                   ELSE Popped("main").addedBodies]
    BY <1>2 DEF Members
  <2> QED
    BY <2>1 DEF BodyStored
<1>7. bf \in Filters /\ ab \in SUBSET Keys
  BY <1>2, <1>5, FieldTypes DEF Filters, Add
<1>8. e \in Writes /\ e.at = writes[n].at /\ e.key = k /\ e.activeCount = writes[n].activeCount - 1
      /\ writes' = Edited(writes, n, e)
  <2>1. writes[n].activeCount - 1 \in Int
    BY <1>5 DEF Writes
  <2>2. writes' = Edited(writes, n, e)
    BY <1>6 DEF FinishWrite, Edited
  <2> QED
    BY <1>5, <2>1, <2>2 DEF Writes
<1>9. m = [s EXCEPT !.main = main, !.bodyFilter = bf, !.addedBodies = ab]
  BY <1>2 DEF Members
<1> HIDE DEF main, bf, ab, e
<1>10. /\ m \in Members
       /\ m.main = main /\ m.bodyFilter = bf /\ m.addedBodies = ab
       /\ m.pendingWrites = s.pendingWrites /\ m.activeWrites = s.activeWrites
       /\ m.recordFilter = s.recordFilter /\ m.added = s.added
       /\ m.synchronizing = s.synchronizing /\ m.wiped = s.wiped
       /\ m.pendingReads = s.pendingReads /\ m.activeReads = s.activeReads
       /\ m.background = s.background /\ m.io = s.io
  BY <1>2, <1>7, <1>9, ZenonT(40) DEF Members
<1> HIDE DEF m, h
<1>11. /\ writes' \in Seq(Writes) /\ DOMAIN writes' = DOMAIN writes /\ writes'[n] = e
       /\ \A x \in DOMAIN writes : x # n => writes'[x] = writes[x]
       /\ SameKeys(writes, writes')
  <2>1. e \in Writes /\ writes \in Seq(Writes) /\ n \in DOMAIN writes /\ e.key = writes[n].key
        /\ writes' = Edited(writes, n, e)
    BY <1>2, <1>5, <1>8
  <2> HIDE DEF n
  <2> QED
    BY <2>1, WriteChanged
<1>12. /\ UNCHANGED <<reads, records, bodies>>
       /\ writes'[n].activeCount = 0 => s' \in ShrinkIfNeeded(DispatchPendingWrites(Without(m, n)))
       /\ writes'[n].activeCount # 0 => s' = m
  <2>1. /\ UNCHANGED <<reads, records, bodies>>
        /\ writes[n].activeCount = 1 => s' \in ShrinkIfNeeded(DispatchPendingWrites(Without(m, n)))
        /\ writes[n].activeCount # 1 => s' = m
    BY <1>6 DEF FinishWrite, Without
  <2>2. writes'[n].activeCount = writes[n].activeCount - 1 /\ writes[n].activeCount \in Int
    BY <1>5, <1>8, <1>11 DEF Writes
  <2> QED
    BY <2>1, <2>2
<1>13. /\ writes[n].activeCount = (IF RecordToCome(s, writes, n) THEN 1 ELSE 0) + 1
       /\ writes[n].activeCount # 0
  <2>1. writes[n].activeCount = (IF RecordToCome(s, writes, n) THEN 1 ELSE 0) + (IF BodyToCome(s, n) THEN 1 ELSE 0)
    BY <1>5 DEF WriteInv, ActiveInv
  <2>2. BodyToCome(s, n)
    BY <1>4, ToCome
  <2> QED
    BY <2>1, <2>2
<1>14. \A f \in Range(s.background) \cap WriteFunctions :
           f.n \in DOMAIN writes /\ (f.op = "write" => f.n # n)
  BY <1>13 DEF WriteInv, ActiveInv, PendingInv
<1>15. Agree(s.main, main, SynchronizedFunctions) /\ Agree(s.main, main, MainReadFunctions)
  <2>1. h \notin SynchronizedFunctions /\ h \notin MainReadFunctions
    BY <1>3, <1>4, OfTypes
  <2>2. h = Head(s.main)
    BY DEF h
  <2> QED
    BY <1>1, <1>2, <2>1, <2>2, AgreeTail DEF main
<1>16. ReadsAlone(s, m)
  BY <1>10, <1>15, AgreeSame DEF ReadsAlone
<1>17. PendingInv(m, writes') /\ RecordsInv(m, writes', records)
  BY <1>10, <1>11 DEF WriteInv, PendingInv, RecordsInv, SameKeys
<1>18. ActiveInv(m, writes')
  <2>1. ASSUME NEW x \in DOMAIN writes
        PROVE  /\ writes'[x].at # "memory" => x \in m.activeWrites
               /\ writes'[x].activeCount =
                     (IF RecordToCome(m, writes', x) THEN 1 ELSE 0) + (IF BodyToCome(m, x) THEN 1 ELSE 0)
    <3>1. /\ writes[x].at # "memory" => x \in s.activeWrites
          /\ writes[x].activeCount = (IF RecordToCome(s, writes, x) THEN 1 ELSE 0) + (IF BodyToCome(s, x) THEN 1 ELSE 0)
      BY DEF WriteInv, ActiveInv
    <3>2. writes'[x].at = writes[x].at
      BY <1>8, <1>11
    <3>3. RecordToCome(m, writes', x) = RecordToCome(s, writes, x)
      BY <1>10, <3>2 DEF RecordToCome
    <3>4. x \in Nat /\ BodyStoredOf(x) \in BodyStoredFunctions /\ BodyStoredOf(x).n = x
      BY ElementTypes, OfTypes
    <3>5. ~BodyToCome(m, x)
      BY <1>4, <1>10, <3>4, ToCome
    <3>6. CASE x # n
      <4>1. ~BodyToCome(s, x)
        BY <1>4, <3>4, <3>6, ToCome
      <4> QED
        BY <1>10, <1>11, <3>1, <3>2, <3>3, <3>5, <3>6, <4>1
    <3>7. CASE x = n
      BY <1>8, <1>10, <1>11, <1>13, <3>1, <3>2, <3>3, <3>5, <3>7
    <3> QED
      BY <3>6, <3>7
  <2>2. Once(m.main, BodyStoredFunctions) /\ Range(m.main) \cap BodyStoredFunctions = {}
    BY <1>4, <1>10 DEF Once, Range
  <2>3. \A x \in DOMAIN writes : writes'[x].at = writes[x].at
    BY <1>8, <1>11
  <2> QED
    BY <1>10, <1>11, <1>14, <2>1, <2>2, <2>3, SMTT(40) DEF WriteInv, ActiveInv
<1>19. FilterInv(m, writes', records, bodies)
  <2>1. ASSUME NEW keys, Covers(s, writes, records, keys) PROVE Covers(m, writes', records, keys)
    BY <1>10, <1>11, <1>14, <2>1 DEF Covers, HasRecord, SameKeys
  <2>2. ASSUME NEW keys, CoversBodies(s, writes, bodies, keys) PROVE CoversBodies(m, writes', bodies, keys \cup {k})
    <3>1. \A x \in Keys : bodies[x] # None => x \in keys \/ x = k
      BY <1>4, <2>2 DEF CoversBodies
    <3> QED
      BY <3>1 DEF CoversBodies
  <2>3. ~m.wiped /\ m.recordFilter # None => Covers(m, writes', records, m.recordFilter)
    BY <1>10, <2>1 DEF DiskInv, FilterInv
  <2>4. ~m.wiped /\ m.bodyFilter # None => CoversBodies(m, writes', bodies, m.bodyFilter)
    BY <1>10, <2>2 DEF DiskInv, FilterInv, bf, Add
  <2>5. ASSUME NEW f \in Range(m.main) \cap SynchronizedFunctions
        PROVE  /\ m.synchronizing
               /\ Covers(m, writes', records, f.records \cup m.added)
               /\ CoversBodies(m, writes', bodies, f.bodies \cup m.addedBodies)
    <3>1. f \in Range(s.main) \cap SynchronizedFunctions
      BY <1>10, <1>15, <2>5 DEF Agree
    <3>2. /\ s.synchronizing
          /\ Covers(s, writes, records, f.records \cup s.added)
          /\ CoversBodies(s, writes, bodies, f.bodies \cup s.addedBodies)
      BY <3>1 DEF DiskInv, FilterInv
    <3>3. f.bodies \cup m.addedBodies = (f.bodies \cup s.addedBodies) \cup {k}
      BY <1>10, <3>2 DEF ab
    <3> QED
      BY <1>10, <2>1, <2>2, <3>2, <3>3
  <2>6. Range(m.background) \cap SynchronizeFunctions # {} =>
            m.synchronizing /\ Range(m.main) \cap SynchronizedFunctions = {}
    BY <1>10, <1>15 DEF DiskInv, FilterInv, Agree
  <2>7. NoneBehind(m.background, SynchronizeFunctions, NotAdded(m, writes'))
    <3>1. Range(m.background) \cap NotAdded(m, writes') \subseteq NotAdded(s, writes)
      BY <1>10, <1>11, <1>14 DEF NotAdded, SameKeys
    <3> QED
      BY <1>10, <3>1, NoneBehindFewer DEF DiskInv, FilterInv
  <2>8. Once(m.main, SynchronizedFunctions) /\ Once(m.background, SynchronizeFunctions)
    BY <1>10, <1>15 DEF DiskInv, FilterInv, Agree
  <2> QED
    BY <2>3, <2>4, <2>5, <2>6, <2>7, <2>8 DEF FilterInv
<1>20. s' \in Members /\ WritesOK(s', writes') /\ ReadsAlone(m, s')
  <2> DEFINE v == writes'
             t == s'
  <2>1. /\ m \in Members /\ v \in Seq(Writes) /\ DOMAIN v = DOMAIN writes /\ SameKeys(writes, v)
        /\ n \in DOMAIN v
        /\ \A f \in Range(m.background) \cap WriteFunctions : f.op = "write" => f.n # n
        /\ v[n].activeCount = 0 => t \in ShrinkIfNeeded(DispatchPendingWrites(Without(m, n)))
        /\ v[n].activeCount # 0 => t = m
    BY <1>5, <1>10, <1>11, <1>12, <1>14
  <2>2. WritesOK(m, v)
    BY <1>17, <1>18, <1>19 DEF WritesOK
  <2> HIDE DEF v, t, n
  <2>3. t \in Members /\ WritesOK(t, v) /\ ReadsAlone(m, t)
    BY <2>1, <2>2, FinishKeeps
  <2> QED
    BY <2>3 DEF v, t
<1>21. ReadsAlone(s, s')
  BY <1>16, <1>20, AgreeTransitive DEF ReadsAlone
<1> QED
  BY <1>11, <1>12, <1>20, <1>21 DEF WriteStepOK, TypeOK, WriteInv, DiskInv, WritesOK

-----------------------------------------------------------------------------
(***************************************************************************)
(* The reads.                                                              *)
(***************************************************************************)
ReadsOK(m, rs, w) ==
    PendingReadsInv(m, rs) /\ ActiveReadsInv(m, rs) /\ MainReadsInv(m, rs, w) /\ FoundInv(m, rs, w)

LEMMA OfReads ==
    /\ \A op, r, f : f \in IOOf(op, r) <=> f \in IOReadFunctions /\ f.op = op /\ f.r = r
    /\ \A op, r : IOOf(op, r) \in SUBSET IOReadFunctions
    /\ \A r, f : f \in FinishReadOf(r) <=> f \in FinishReadFunctions /\ f.r = r
    /\ \A r, f : f \in AnswerOf(r) <=> f \in AnswerFunctions /\ f.r = r
    /\ \A r : FinishReadOf(r) \in SUBSET MainReadFunctions /\ AnswerOf(r) \in SUBSET MainReadFunctions
    /\ FinishReadFunctions \in SUBSET MainReadFunctions /\ AnswerFunctions \in SUBSET MainReadFunctions
  BY DEF IOOf, FinishReadOf, AnswerOf, MainReadFunctions

LEMMA SameKeysKeep ==
    ASSUME NEW w, NEW v, SameKeys(w, v)
    PROVE  /\ \A file, k : IsFileOf(w, file, k) => IsFileOf(v, file, k)
           /\ \A record, k : IsRecordOf(w, record, k) => IsRecordOf(v, record, k)
  BY DEF SameKeys, IsFileOf, IsRecordOf

LEMMA ReadsAloneKeeps ==
    ASSUME NEW m, NEW t, ReadsAlone(m, t), NEW w, NEW v, SameKeys(w, v),
           NEW rs, ReadsOK(m, rs, w)
    PROVE  ReadsOK(t, rs, v)
<1>1. t.pendingReads = m.pendingReads /\ t.activeReads = m.activeReads
  BY DEF ReadsAlone
<1>2. /\ Range(t.io) \cap IOReadFunctions = Range(m.io) \cap IOReadFunctions
      /\ \A op, r : Once(m.io, IOOf(op, r)) => Once(t.io, IOOf(op, r))
  BY OfReads DEF ReadsAlone, Agree
<1>3. /\ Range(t.main) \cap FinishReadFunctions = Range(m.main) \cap FinishReadFunctions
      /\ Range(t.main) \cap AnswerFunctions = Range(m.main) \cap AnswerFunctions
      /\ \A r : Once(m.main, FinishReadOf(r)) => Once(t.main, FinishReadOf(r))
      /\ \A r : Once(m.main, AnswerOf(r)) => Once(t.main, AnswerOf(r))
  BY OfReads DEF ReadsAlone, Agree
<1>4. \A op, r : HasIO(t, op, r) = HasIO(m, op, r)
  BY <1>2, OfReads DEF HasIO
<1>5. PendingReadsInv(t, rs)
  BY <1>1 DEF ReadsOK, PendingReadsInv
<1>6. ActiveReadsInv(t, rs)
  BY <1>1, <1>2, <1>4 DEF ReadsOK, ActiveReadsInv
<1>7. MainReadsInv(t, rs, v)
  BY <1>1, <1>3, <1>4 DEF ReadsOK, MainReadsInv, SameKeys
<1>8. FoundInv(t, rs, v)
  BY <1>2, SameKeysKeep DEF ReadsOK, FoundInv
<1> QED
  BY <1>5, <1>6, <1>7, <1>8 DEF ReadsOK

(* A read that is not active has nothing to come.                          *)
LEMMA IdleReads ==
    ASSUME NEW m, NEW rs, ActiveReadsInv(m, rs), NEW r \in DOMAIN rs, r \notin m.activeReads
    PROVE  /\ \A op : ~HasIO(m, op, r)
           /\ \A op : Range(m.io) \cap IOOf(op, r) = {}
           /\ ~rs[r].reading /\ rs[r].activeCount = 0
<1>1. \A op : Range(m.io) \cap IOOf(op, r) = {}
  BY OfReads DEF ActiveReadsInv
<1>2. \A op : ~HasIO(m, op, r)
  BY <1>1 DEF HasIO
<1>3. ~rs[r].reading
  BY DEF ActiveReadsInv
<1>4. rs[r].activeCount = (IF rs[r].reading \/ HasIO(m, "readRecord", r) THEN 1 ELSE 0)
                          + (IF HasIO(m, "getBody", r) THEN 1 ELSE 0)
  BY DEF ActiveReadsInv
<1> QED
  BY <1>1, <1>2, <1>3, <1>4

(* What dispatchPendingReadOperations() does to the pending reads.         *)
LEMMA OldestFacts ==
    ASSUME NEW m \in Members, NEW rs, PendingReadsInv(m, rs), ActiveReadsInv(m, rs),
           NEW C \in SUBSET (0 .. maximumRetrievePriority), \A p \in C : m.pendingReads[p] # <<>>
    PROVE  /\ \A p \in C : Last(m.pendingReads[p]) \in Range(m.pendingReads[p])
           /\ \A o, p \in C : Last(m.pendingReads[o]) = Last(m.pendingReads[p]) => o = p
           /\ \A r \in Oldest(m, C) :
                  /\ r \in DOMAIN rs /\ r \notin m.activeReads
                  /\ ~rs[r].canceled /\ rs[r].answers = <<>>
           /\ \A p \in C : /\ Range(Front(m.pendingReads[p])) \subseteq Range(m.pendingReads[p])
                           /\ IsInjective(Front(m.pendingReads[p]))
                           /\ Last(m.pendingReads[p]) \notin Range(Front(m.pendingReads[p]))
<1>1. /\ DOMAIN m.pendingReads = 0 .. maximumRetrievePriority
      /\ \A p \in C : m.pendingReads[p] \in Seq(Nat) /\ m.pendingReads[p] # <<>>
  BY FieldTypes
<1>2. ASSUME NEW p \in C
      PROVE  /\ Last(m.pendingReads[p]) \in Range(m.pendingReads[p])
             /\ Range(Front(m.pendingReads[p])) \subseteq Range(m.pendingReads[p])
             /\ IsInjective(Front(m.pendingReads[p]))
             /\ Last(m.pendingReads[p]) \notin Range(Front(m.pendingReads[p]))
  <2> DEFINE q == m.pendingReads[p]
  <2>1. q \in Seq(Nat) /\ q # <<>>
    BY <1>1
  <2>2. IsInjective(q)
    BY <1>1 DEF PendingReadsInv
  <2> HIDE DEF q
  <2>3. /\ Range(q) = Range(Front(q)) \cup {Last(q)}
        /\ IsInjective(Front(q)) /\ Last(q) \notin Range(Front(q))
    BY <2>1, <2>2, FrontFacts
  <2> QED
    BY <2>3 DEF q
<1>3. ASSUME NEW o \in C, NEW p \in C, Last(m.pendingReads[o]) = Last(m.pendingReads[p]) PROVE o = p
  <2>1. o \in DOMAIN m.pendingReads /\ p \in DOMAIN m.pendingReads
    BY <1>1
  <2>2. o # p => Range(m.pendingReads[o]) \cap Range(m.pendingReads[p]) = {}
    BY <2>1 DEF PendingReadsInv
  <2> DEFINE x == Last(m.pendingReads[o])
  <2>3. x \in Range(m.pendingReads[o]) /\ x \in Range(m.pendingReads[p])
    BY <1>2, <1>3
  <2> HIDE DEF x
  <2> QED
    BY <2>2, <2>3
<1>4. ASSUME NEW r \in Oldest(m, C)
      PROVE  /\ r \in DOMAIN rs /\ r \notin m.activeReads
             /\ ~rs[r].canceled /\ rs[r].answers = <<>>
  <2>1. PICK p \in C : r = Last(m.pendingReads[p])
    BY <1>4 DEF Oldest
  <2>2. p \in DOMAIN m.pendingReads /\ r \in Range(m.pendingReads[p])
    BY <1>1, <1>2, <2>1
  <2> QED
    BY <2>2 DEF PendingReadsInv
<1> QED
  BY <1>2, <1>3, <1>4

LEMMA DispatchKeepsReads ==
    ASSUME NEW m \in Members, NEW rs, NEW w, ReadsOK(m, rs, w),
           NEW d, \E any : d = DispatchPendingReads(m, any)
    PROVE  d \in Members /\ ReadsOK(d, rs, w)
<1> DEFINE P == 0 .. maximumRetrievePriority
<1>0. PICK any : d = DispatchPendingReads(m, any)
  OBVIOUS
<1>1. d \in Members /\ d.main = m.main /\ ReadsDispatched(m, d)
  BY <1>0, DispatchReadsEffect
<1>2. PICK C \in SUBSET P, q \in Seq(ReadFunctions) :
          /\ \A p \in C : m.pendingReads[p] # <<>>
          /\ d.pendingReads = [p \in P |-> IF p \in C THEN Front(m.pendingReads[p]) ELSE m.pendingReads[p]]
          /\ d.activeReads = m.activeReads \cup Oldest(m, C)
          /\ d.io = m.io \o q
          /\ \A f \in Range(q) : f.r \in Oldest(m, C)
          /\ (\A o, p \in C : Last(m.pendingReads[o]) = Last(m.pendingReads[p]) => o = p)
                 => \A r : Once(q, {f \in ReadFunctions : f.r = r})
  BY <1>1, Zenon DEF ReadsDispatched
<1> DEFINE O == Oldest(m, C)
<1>3. PendingReadsInv(m, rs) /\ ActiveReadsInv(m, rs) /\ MainReadsInv(m, rs, w) /\ FoundInv(m, rs, w)
  BY DEF ReadsOK
<1>4. /\ \A p \in C : Last(m.pendingReads[p]) \in Range(m.pendingReads[p])
      /\ \A o, p \in C : Last(m.pendingReads[o]) = Last(m.pendingReads[p]) => o = p
      /\ \A r \in O : /\ r \in DOMAIN rs /\ r \notin m.activeReads
                      /\ ~rs[r].canceled /\ rs[r].answers = <<>>
      /\ \A p \in C : /\ Range(Front(m.pendingReads[p])) \subseteq Range(m.pendingReads[p])
                      /\ IsInjective(Front(m.pendingReads[p]))
                      /\ Last(m.pendingReads[p]) \notin Range(Front(m.pendingReads[p]))
  BY <1>2, <1>3, OldestFacts
<1>5. \A r : r \in O <=> \E p \in C : r = Last(m.pendingReads[p])
  BY DEF Oldest
<1>6. /\ DOMAIN d.pendingReads = P /\ DOMAIN m.pendingReads = P
      /\ \A p \in C : d.pendingReads[p] = Front(m.pendingReads[p])
      /\ \A p \in P : p \notin C => d.pendingReads[p] = m.pendingReads[p]
      /\ d.activeReads = m.activeReads \cup O
  BY <1>2, FieldTypes
<1> HIDE DEF P, O
<1>7. \A p \in P : Range(d.pendingReads[p]) \subseteq Range(m.pendingReads[p])
  BY <1>4, <1>6
<1>8. PendingReadsInv(d, rs)
  <2>1. ASSUME NEW p \in P
        PROVE  /\ IsInjective(d.pendingReads[p])
               /\ \A r \in Range(d.pendingReads[p]) : r \notin O
    <3>1. IsInjective(d.pendingReads[p])
      BY <1>3, <1>4, <1>6 DEF PendingReadsInv
    <3>2. ASSUME NEW r \in Range(d.pendingReads[p]), r \in O PROVE FALSE
      <4>1. PICK o \in C : r = Last(m.pendingReads[o])
        BY <1>5, <3>2
      <4>2. r \in Range(m.pendingReads[o]) /\ r \in Range(m.pendingReads[p]) /\ o \in P
        BY <1>4, <1>7, <2>1, <3>2, <4>1 DEF P
      <4>3. o = p
        BY <1>3, <1>6, <4>2 DEF PendingReadsInv
      <4> QED
        BY <1>4, <1>6, <3>2, <4>1, <4>3
    <3> QED
      BY <3>1, <3>2
  <2>2. \A p \in P : \A r \in Range(d.pendingReads[p]) :
            r \in DOMAIN rs /\ r \notin m.activeReads /\ ~rs[r].canceled /\ rs[r].answers = <<>>
    BY <1>3, <1>6, <1>7 DEF PendingReadsInv
  <2>3. \A o, p \in P : o # p => Range(d.pendingReads[o]) \cap Range(d.pendingReads[p]) = {}
    BY <1>3, <1>6, <1>7 DEF PendingReadsInv
  <2> QED
    BY <1>6, <2>1, <2>2, <2>3 DEF PendingReadsInv
<1>9. /\ Range(d.io) = Range(m.io) \cup Range(q)
      /\ \A D : Once(m.io, D) /\ Once(q, D) /\ (Range(m.io) \cap D = {} \/ Range(q) \cap D = {}) => Once(d.io, D)
  <2>1. m.io \in Seq(IOFunctions) /\ q \in Seq(IOFunctions)
    <3>1. ReadFunctions \subseteq IOFunctions
      BY DEF ReadFunctions, IOFunctions, IOReadFunctions
    <3>2. Range(q) \subseteq IOFunctions /\ DOMAIN q = 1 .. Len(q) /\ Len(q) \in Nat
      BY <3>1, LenProperties, ElementOfSeq DEF Range
    <3>3. \A i \in 1 .. Len(q) : q[i] \in IOFunctions
      BY <3>2 DEF Range
    <3> QED
      BY <3>1, <3>2, <3>3, FieldTypes, IsASeq
  <2>2. d.io = m.io \o q
    BY <1>2
  <2> QED
    BY <2>1, <2>2, ConcatFacts
<1>10. \A f \in Range(q) : f \in IOReadFunctions /\ f.op = "read" /\ f.r \in O
  <2>1. Range(q) \subseteq ReadFunctions
    BY LenProperties, ElementOfSeq DEF Range
  <2> QED
    BY <1>2, <2>1 DEF ReadFunctions, IOReadFunctions, O
<1>11. \A r \in DOMAIN rs : \A op : Once(q, IOOf(op, r))
  <2>1. \A r : Once(q, {f \in ReadFunctions : f.r = r})
    BY <1>2, <1>4
  <2>2. Range(q) \subseteq ReadFunctions
    BY LenProperties, ElementOfSeq DEF Range
  <2> SUFFICES ASSUME NEW r, NEW op, NEW i \in DOMAIN q, NEW j \in DOMAIN q, q[i] \in IOOf(op, r), q[j] \in IOOf(op, r)
               PROVE  i = j
    BY DEF Once
  <2>3. q[i] \in ReadFunctions /\ q[j] \in ReadFunctions /\ q[i].r = r /\ q[j].r = r
    BY <2>2, OfReads DEF Range
  <2> QED
    BY <2>1, <2>3 DEF Once
<1>12. ASSUME NEW r \in DOMAIN rs
       PROVE  /\ \A op \in {"getBody", "readRecord"} : HasIO(d, op, r) = HasIO(m, op, r)
              /\ r \in m.activeReads => HasIO(d, "read", r) = HasIO(m, "read", r)
  BY <1>4, <1>9, <1>10, OfReads DEF HasIO
<1>13. ActiveReadsInv(d, rs)
  <2>1. d.activeReads \subseteq DOMAIN rs /\ \A r \in d.activeReads : rs[r].answers # <<>> => rs[r].canceled
    BY <1>3, <1>4, <1>6 DEF ActiveReadsInv
  <2>2. ASSUME NEW f \in Range(d.io) \cap IOReadFunctions
        PROVE  f.r \in d.activeReads /\ (f.op = "read" => rs[f.r].activeCount = 0)
    <3>1. CASE f \in Range(m.io)
      BY <1>3, <1>6, <2>2, <3>1 DEF ActiveReadsInv
    <3>2. CASE f \in Range(q)
      BY <1>3, <1>4, <1>6, <1>10, <3>2, IdleReads
    <3> QED
      BY <1>9, <2>2, <3>1, <3>2
  <2>3. ASSUME NEW op \in {"read", "getBody", "readRecord"}, NEW r \in DOMAIN rs PROVE Once(d.io, IOOf(op, r))
    <3>1. Once(m.io, IOOf(op, r)) /\ Once(q, IOOf(op, r))
      BY <1>3, <1>11 DEF ActiveReadsInv
    <3>2. CASE r \in O
      <4>1. Range(m.io) \cap IOOf(op, r) = {}
        BY <1>3, <1>4, <3>2, IdleReads
      <4> QED
        BY <1>9, <3>1, <4>1
    <3>3. CASE r \notin O
      <4>1. Range(q) \cap IOOf(op, r) = {}
        BY <1>10, <3>3, OfReads
      <4> QED
        BY <1>9, <3>1, <4>1
    <3> QED
      BY <3>2, <3>3
  <2>4. ASSUME NEW r \in DOMAIN rs
        PROVE  /\ rs[r].reading => r \in d.activeReads /\ ~HasIO(d, "readRecord", r)
               /\ rs[r].activeCount = (IF rs[r].reading \/ HasIO(d, "readRecord", r) THEN 1 ELSE 0)
                                      + (IF HasIO(d, "getBody", r) THEN 1 ELSE 0)
    BY <1>3, <1>6, <1>12 DEF ActiveReadsInv
  <2> QED
    BY <2>1, <2>2, <2>3, <2>4 DEF ActiveReadsInv
<1>14. MainReadsInv(d, rs, w)
  <2>1. ASSUME NEW f \in Range(d.main) \cap FinishReadFunctions
        PROVE  f.r \in d.activeReads /\ rs[f.r].activeCount = 0 /\ ~HasIO(d, "read", f.r)
    <3>1. f.r \in m.activeReads /\ rs[f.r].activeCount = 0 /\ ~HasIO(m, "read", f.r)
      BY <1>1, <1>3, <2>1 DEF MainReadsInv
    <3>2. f.r \in DOMAIN rs
      BY <1>3, <3>1 DEF ActiveReadsInv
    <3> QED
      BY <1>6, <1>12, <3>1, <3>2
  <2>2. ASSUME NEW f \in Range(d.main) \cap AnswerFunctions
        PROVE  /\ f.r \in DOMAIN rs /\ f.r \notin d.activeReads
               /\ rs[f.r].answers = <<>>
               /\ f.n \in DOMAIN w /\ w[f.n].key = rs[f.r].key
               /\ \A p \in DOMAIN d.pendingReads : f.r \notin Range(d.pendingReads[p])
    <3>1. /\ f.r \in DOMAIN rs /\ f.r \notin m.activeReads
          /\ rs[f.r].answers = <<>>
          /\ f.n \in DOMAIN w /\ w[f.n].key = rs[f.r].key
          /\ \A p \in P : f.r \notin Range(m.pendingReads[p])
      BY <1>1, <1>3, <1>6, <2>2 DEF MainReadsInv
    <3>2. f.r \notin O
      BY <1>4, <1>5, <3>1 DEF P
    <3> QED
      BY <1>6, <1>7, <3>1, <3>2
  <2> QED
    BY <1>1, <1>3, <2>1, <2>2 DEF MainReadsInv
<1>15. FoundInv(d, rs, w)
  BY <1>3, <1>9, <1>10 DEF FoundInv
<1> QED
  BY <1>1, <1>8, <1>13, <1>14, <1>15 DEF ReadsOK

-----------------------------------------------------------------------------
(* What the members t and the entry e of read r have to be after a step of *)
(* the operation r alone.                                                  *)
QueuesOK(t, e, r) ==
    /\ t.pendingReads = s.pendingReads /\ t.activeReads = s.activeReads
    /\ \A f \in Range(t.io) \cap IOReadFunctions : f \in Range(s.io) \/ f.r = r
    /\ \A op, x : x # r => (HasIO(t, op, x) <=> HasIO(s, op, x))
    /\ \A op, x : Once(s.io, IOOf(op, x)) => Once(t.io, IOOf(op, x))
    /\ \A f \in Range(t.main) \cap MainReadFunctions : f \in Range(s.main) \/ f \in FinishReadOf(r)
    /\ \A x \in DOMAIN reads : Once(t.main, FinishReadOf(x)) /\ Once(t.main, AnswerOf(x))

CountOK(t, e, r) ==
    /\ e.activeCount = (IF e.reading \/ HasIO(t, "readRecord", r) THEN 1 ELSE 0)
                       + (IF HasIO(t, "getBody", r) THEN 1 ELSE 0)
    /\ e.reading => ~HasIO(t, "readRecord", r)
    /\ HasIO(t, "read", r) => e.activeCount = 0
    /\ Range(t.main) \cap FinishReadOf(r) # {} => e.activeCount = 0 /\ ~HasIO(t, "read", r)

EntryOK(t, e, r) ==
    /\ e.key = reads[r].key /\ e.canceled = reads[r].canceled /\ e.answers = reads[r].answers
    /\ IsFileOf(writes, e.file, e.key) /\ IsRecordOf(writes, e.record, e.key)
    /\ \A f \in Range(t.io) \cap IOOf("readRecord", r) : IsRecordOf(writes, f.record, e.key)

LEMMA OneRead ==
    ASSUME TypeOK, ReadInv, NEW r \in s.activeReads, NEW t \in Members, NEW e, NEW v,
           DOMAIN v = DOMAIN reads, v[r] = e, \A x \in DOMAIN reads : x # r => v[x] = reads[x],
           QueuesOK(t, e, r), CountOK(t, e, r), EntryOK(t, e, r)
    PROVE  ReadsOK(t, v, writes)
<1>1. /\ PendingReadsInv(s, reads) /\ ActiveReadsInv(s, reads)
      /\ MainReadsInv(s, reads, writes) /\ FoundInv(s, reads, writes)
  BY DEF ReadInv
<1>2. /\ t.pendingReads = s.pendingReads /\ t.activeReads = s.activeReads
      /\ r \in DOMAIN reads
  BY <1>1 DEF QueuesOK, ActiveReadsInv
<1>3. \A x \in DOMAIN reads : /\ v[x].key = reads[x].key /\ v[x].canceled = reads[x].canceled
                              /\ v[x].answers = reads[x].answers
  BY DEF EntryOK
<1>4. PendingReadsInv(t, v)
  BY <1>1, <1>2, <1>3, SMTT(40) DEF PendingReadsInv
<1>5. ActiveReadsInv(t, v)
  <2>1. t.activeReads \subseteq DOMAIN v /\ \A x \in t.activeReads : v[x].answers # <<>> => v[x].canceled
    BY <1>1, <1>2, <1>3 DEF ActiveReadsInv
  <2>2. ASSUME NEW f \in Range(t.io) \cap IOReadFunctions
        PROVE  f.r \in t.activeReads /\ (f.op = "read" => v[f.r].activeCount = 0)
    <3>1. CASE f.r = r
      <4>1. f \in IOOf(f.op, r)
        BY <2>2, <3>1, OfReads
      <4>2. f.op = "read" => HasIO(t, "read", r)
        BY <2>2, <4>1 DEF HasIO
      <4> QED
        BY <1>2, <3>1, <4>2 DEF CountOK
    <3>2. CASE f.r # r
      <4>1. f \in Range(s.io) \cap IOReadFunctions
        BY <2>2, <3>2 DEF QueuesOK
      <4>2. f.r \in s.activeReads /\ (f.op = "read" => reads[f.r].activeCount = 0)
        BY <1>1, <4>1 DEF ActiveReadsInv
      <4>3. f.r \in DOMAIN reads
        BY <1>1, <4>2 DEF ActiveReadsInv
      <4> QED
        BY <1>2, <3>2, <4>2, <4>3
    <3> QED
      BY <3>1, <3>2
  <2>3. \A op \in {"read", "getBody", "readRecord"}, x \in DOMAIN v : Once(t.io, IOOf(op, x))
    BY <1>1 DEF ActiveReadsInv, QueuesOK
  <2>4. ASSUME NEW x \in DOMAIN v
        PROVE  /\ v[x].reading => x \in t.activeReads /\ ~HasIO(t, "readRecord", x)
               /\ v[x].activeCount = (IF v[x].reading \/ HasIO(t, "readRecord", x) THEN 1 ELSE 0)
                                      + (IF HasIO(t, "getBody", x) THEN 1 ELSE 0)
    <3>1. CASE x = r
      BY <1>2, <3>1 DEF CountOK
    <3>2. CASE x # r
      <4>1. /\ reads[x].reading => x \in s.activeReads /\ ~HasIO(s, "readRecord", x)
            /\ reads[x].activeCount = (IF reads[x].reading \/ HasIO(s, "readRecord", x) THEN 1 ELSE 0)
                                      + (IF HasIO(s, "getBody", x) THEN 1 ELSE 0)
        BY <1>1 DEF ActiveReadsInv
      <4>2. (HasIO(t, "readRecord", x) <=> HasIO(s, "readRecord", x)) /\ (HasIO(t, "getBody", x) <=> HasIO(s, "getBody", x))
        BY <3>2 DEF QueuesOK
      <4>3. v[x] = reads[x]
        BY <3>2
      <4> QED
        BY <1>2, <4>1, <4>2, <4>3
    <3> QED
      BY <3>1, <3>2
  <2> QED
    BY <2>1, <2>2, <2>3, <2>4 DEF ActiveReadsInv
<1>6. MainReadsInv(t, v, writes)
  <2>1. ASSUME NEW f \in Range(t.main) \cap FinishReadFunctions
        PROVE  f.r \in t.activeReads /\ v[f.r].activeCount = 0 /\ ~HasIO(t, "read", f.r)
    <3>1. CASE f.r = r
      <4>1. f \in Range(t.main) \cap FinishReadOf(r)
        BY <2>1, <3>1, OfReads
      <4> QED
        BY <1>2, <3>1, <4>1 DEF CountOK
    <3>2. CASE f.r # r
      <4>1. f \in Range(s.main) \cap FinishReadFunctions
        BY <2>1, <3>2, OfReads DEF QueuesOK
      <4>2. f.r \in s.activeReads /\ reads[f.r].activeCount = 0 /\ ~HasIO(s, "read", f.r)
        BY <1>1, <4>1 DEF MainReadsInv
      <4>3. f.r \in DOMAIN reads
        BY <1>1, <4>2 DEF ActiveReadsInv
      <4> QED
        BY <1>2, <3>2, <4>2, <4>3 DEF QueuesOK
    <3> QED
      BY <3>1, <3>2
  <2>2. ASSUME NEW f \in Range(t.main) \cap AnswerFunctions
        PROVE  /\ f.r \in DOMAIN v /\ f.r \notin t.activeReads
               /\ v[f.r].answers = <<>>
               /\ f.n \in DOMAIN writes /\ writes[f.n].key = v[f.r].key
               /\ \A p \in DOMAIN t.pendingReads : f.r \notin Range(t.pendingReads[p])
    <3>1. f \notin FinishReadOf(r)
      BY <2>2, OfReads DEF AnswerFunctions, FinishReadFunctions
    <3>2. f \in Range(s.main) \cap AnswerFunctions
      BY <2>2, <3>1, OfReads DEF QueuesOK
    <3> QED
      BY <1>1, <1>2, <1>3, <3>2 DEF MainReadsInv
  <2>3. \A x \in DOMAIN v : Once(t.main, FinishReadOf(x)) /\ Once(t.main, AnswerOf(x))
    BY DEF QueuesOK
  <2> QED
    BY <2>1, <2>2, <2>3 DEF MainReadsInv
<1>7. FoundInv(t, v, writes)
  <2>1. ASSUME NEW x \in DOMAIN v
        PROVE  /\ IsFileOf(writes, v[x].file, v[x].key) /\ IsRecordOf(writes, v[x].record, v[x].key)
               /\ Len(v[x].answers) <= 1
               /\ \A answer \in Range(v[x].answers) \ {None} :
                      /\ answer.header \in Nat /\ answer.header = answer.body
                      /\ IsFileOf(writes, answer.header, v[x].key)
    BY <1>1, <1>3 DEF FoundInv, EntryOK
  <2>2. ASSUME NEW f \in Range(t.io) \cap IOReadFunctions, f.op = "readRecord"
        PROVE  IsRecordOf(writes, f.record, v[f.r].key)
    <3>1. CASE f.r = r
      <4>1. f \in IOOf("readRecord", r)
        BY <2>2, <3>1, OfReads
      <4> QED
        BY <2>2, <3>1, <4>1 DEF EntryOK
    <3>2. CASE f.r # r
      <4>1. f \in Range(s.io) \cap IOReadFunctions
        BY <2>2, <3>2 DEF QueuesOK
      <4>2. f.r \in DOMAIN reads
        BY <1>1, <4>1 DEF ActiveReadsInv
      <4> QED
        BY <1>1, <2>2, <3>2, <4>1, <4>2 DEF FoundInv
    <3> QED
      BY <3>1, <3>2
  <2> QED
    BY <2>1, <2>2 DEF FoundInv
<1> QED
  BY <1>4, <1>5, <1>6, <1>7 DEF ReadsOK

(* What an element more, one less or another one at the head means for the *)
(* reads in the queue.                                                     *)
Holds(q, op, r) == Range(q) \cap IOOf(op, r) # {}

LEMMA IOAppended ==
    ASSUME NEW q \in Seq(IOFunctions), NEW f \in IOReadFunctions, NEW p, p = Append(q, f), ~Holds(q, f.op, f.r)
    PROVE  /\ p \in Seq(IOFunctions) /\ Range(p) = Range(q) \cup {f}
           /\ Holds(p, f.op, f.r)
           /\ \A op, x : op # f.op \/ x # f.r => (Holds(p, op, x) <=> Holds(q, op, x))
           /\ \A op, x : Once(q, IOOf(op, x)) => Once(p, IOOf(op, x))
<1>1. f \in IOFunctions
  BY DEF IOFunctions
<1>2. /\ p \in Seq(IOFunctions) /\ Range(p) = Range(q) \cup {f}
      /\ \A C : Once(q, C) /\ (f \in C => Range(q) \cap C = {}) => Once(p, C)
  BY <1>1, AppendKeeps
<1>3. \A op, x : f \in IOOf(op, x) <=> op = f.op /\ x = f.r
  BY OfReads
<1>4. ASSUME NEW op, NEW x, Once(q, IOOf(op, x)) PROVE Once(p, IOOf(op, x))
  <2>1. f \in IOOf(op, x) => Range(q) \cap IOOf(op, x) = {}
    BY <1>3 DEF Holds
  <2> QED
    BY <1>2, <1>4, <2>1
<1>5. \A op, x : op # f.op \/ x # f.r => (Holds(p, op, x) <=> Holds(q, op, x))
  BY <1>2, <1>3 DEF Holds
<1>6. Holds(p, f.op, f.r)
  BY <1>2, <1>3 DEF Holds
<1> QED
  BY <1>2, <1>4, <1>5, <1>6

LEMMA IOPopped ==
    ASSUME NEW q \in Seq(IOFunctions), q # <<>>, NEW f \in IOReadFunctions, f = Head(q),
           Once(q, IOOf(f.op, f.r)), NEW p, p = Tail(q)
    PROVE  /\ p \in Seq(IOFunctions) /\ Range(q) = Range(p) \cup {f}
           /\ Holds(q, f.op, f.r) /\ ~Holds(p, f.op, f.r)
           /\ \A op, x : op # f.op \/ x # f.r => (Holds(p, op, x) <=> Holds(q, op, x))
           /\ \A op, x : Once(q, IOOf(op, x)) => Once(p, IOOf(op, x))
<1>1. /\ p \in Seq(IOFunctions) /\ Range(q) = Range(p) \cup {f}
      /\ \A C : Once(q, C) => Once(p, C) /\ (f \in C => Range(p) \cap C = {})
  BY TailKeeps
<1>2. \A op, x : f \in IOOf(op, x) <=> op = f.op /\ x = f.r
  BY OfReads
<1>3. Holds(q, f.op, f.r) /\ ~Holds(p, f.op, f.r)
  BY <1>1, <1>2 DEF Holds
<1>4. \A op, x : op # f.op \/ x # f.r => (Holds(p, op, x) <=> Holds(q, op, x))
  BY <1>1, <1>2 DEF Holds
<1> QED
  BY <1>1, <1>3, <1>4

Replaced(q, h) == [q EXCEPT ![1] = h]

LEMMA IOReplaced ==
    ASSUME NEW q \in Seq(IOFunctions), q # <<>>, NEW f \in IOReadFunctions, f = Head(q),
           Once(q, IOOf(f.op, f.r)), NEW h \in IOReadFunctions, h.r = f.r, h.op # f.op, ~Holds(q, h.op, h.r),
           NEW p, p = Replaced(q, h)
    PROVE  /\ p \in Seq(IOFunctions) /\ Range(p) \subseteq Range(q) \cup {h}
           /\ ~Holds(p, f.op, f.r) /\ Holds(p, h.op, h.r)
           /\ \A op, x : (op # f.op /\ op # h.op) \/ x # f.r => (Holds(p, op, x) <=> Holds(q, op, x))
           /\ \A op, x : Once(q, IOOf(op, x)) => Once(p, IOOf(op, x))
<1>1. h \in IOFunctions
  BY DEF IOFunctions
<1>2. /\ p \in Seq(IOFunctions) /\ Range(p) = Range(Tail(q)) \cup {h}
      /\ \A C : Once(q, C) /\ (h \in C => Head(q) \in C) => Once(p, C)
  BY <1>1, HeadChanged DEF Replaced
<1>3. /\ Range(q) = Range(Tail(q)) \cup {f} /\ \A C : Once(q, C) /\ f \in C => Range(Tail(q)) \cap C = {}
  BY TailKeeps
<1>4. /\ \A op, x : f \in IOOf(op, x) <=> op = f.op /\ x = f.r
      /\ \A op, x : h \in IOOf(op, x) <=> op = h.op /\ x = h.r
  BY OfReads
<1> DEFINE P == Range(p)
           Q == Range(q)
           T == Range(Tail(q))
           D == IOOf(f.op, f.r)
           E == IOOf(h.op, h.r)
<1>a. P = T \cup {h} /\ Q = T \cup {f} /\ T \cap D = {} /\ h \notin D /\ h \in E
  BY <1>2, <1>3, <1>4
<1>5. ~Holds(p, f.op, f.r) /\ Holds(p, h.op, h.r)
  <2>1. P \cap D = {} /\ P \cap E # {}
    <3> HIDE DEF P, Q, T, D, E
    <3> QED
      BY <1>a
  <2> QED
    BY <2>1 DEF Holds
<1>6. ASSUME NEW op, NEW x, (op # f.op /\ op # h.op) \/ x # f.r PROVE (Holds(p, op, x) <=> Holds(q, op, x))
  <2> DEFINE F == IOOf(op, x)
  <2>1. f \notin F /\ h \notin F
    BY <1>4, <1>6
  <2>2. P \cap F = Q \cap F
    <3> HIDE DEF P, Q, T, D, E, F
    <3> QED
      BY <1>a, <2>1
  <2> QED
    BY <2>2 DEF Holds
<1>7. ASSUME NEW op, NEW x, Once(q, IOOf(op, x)) PROVE Once(p, IOOf(op, x))
  <2>1. CASE h \notin IOOf(op, x)
    BY <1>2, <1>7, <2>1
  <2>2. CASE h \in IOOf(op, x)
    <3>1. Range(q) \cap IOOf(op, x) = {}
      BY <1>4, <2>2 DEF Holds
    <3>2. DOMAIN p = DOMAIN q /\ \A i \in DOMAIN q : i # 1 => p[i] = q[i] /\ q[i] \in Range(q)
      BY DEF Range, Replaced
    <3> QED
      BY <3>1, <3>2 DEF Once
  <2> QED
    BY <2>1, <2>2
<1> QED
  BY <1>2, <1>3, <1>5, <1>6, <1>7

(* What ReadInv says of an active read whose entry is at the head.         *)
LEMMA HeadRead ==
    ASSUME TypeOK, ReadInv, NEW r \in s.activeReads
    PROVE  /\ r \in DOMAIN reads /\ reads[r] \in Reads
           /\ \A op \in {"read", "getBody", "readRecord"} : Once(s.io, IOOf(op, r))
           /\ reads[r].activeCount = (IF reads[r].reading \/ Holds(s.io, "readRecord", r) THEN 1 ELSE 0)
                                     + (IF Holds(s.io, "getBody", r) THEN 1 ELSE 0)
           /\ reads[r].reading => ~Holds(s.io, "readRecord", r)
           /\ Holds(s.io, "read", r) => reads[r].activeCount = 0
           /\ Range(s.main) \cap FinishReadOf(r) # {} => reads[r].activeCount = 0 /\ ~Holds(s.io, "read", r)
           /\ \A x \in DOMAIN reads : Once(s.main, FinishReadOf(x)) /\ Once(s.main, AnswerOf(x))
           /\ IsFileOf(writes, reads[r].file, reads[r].key) /\ IsRecordOf(writes, reads[r].record, reads[r].key)
           /\ \A f \in Range(s.io) \cap IOOf("readRecord", r) : IsRecordOf(writes, f.record, reads[r].key)
<1>1. /\ PendingReadsInv(s, reads) /\ ActiveReadsInv(s, reads)
      /\ MainReadsInv(s, reads, writes) /\ FoundInv(s, reads, writes)
  BY DEF ReadInv
<1>2. r \in DOMAIN reads
  BY <1>1 DEF ActiveReadsInv
<1>3. \A op : Holds(s.io, op, r) = HasIO(s, op, r)
  BY DEF Holds, HasIO
<1>4. /\ \A op \in {"read", "getBody", "readRecord"} : Once(s.io, IOOf(op, r))
      /\ reads[r].activeCount = (IF reads[r].reading \/ HasIO(s, "readRecord", r) THEN 1 ELSE 0)
                                + (IF HasIO(s, "getBody", r) THEN 1 ELSE 0)
      /\ reads[r].reading => ~HasIO(s, "readRecord", r)
  BY <1>1, <1>2 DEF ActiveReadsInv
<1>5. HasIO(s, "read", r) => reads[r].activeCount = 0
  BY <1>1, OfReads DEF ActiveReadsInv, HasIO
<1>6. Range(s.main) \cap FinishReadOf(r) # {} => reads[r].activeCount = 0 /\ ~HasIO(s, "read", r)
  BY <1>1, OfReads DEF MainReadsInv
<1>7. \A x \in DOMAIN reads : Once(s.main, FinishReadOf(x)) /\ Once(s.main, AnswerOf(x))
  BY <1>1 DEF MainReadsInv
<1>8. IsFileOf(writes, reads[r].file, reads[r].key) /\ IsRecordOf(writes, reads[r].record, reads[r].key)
  BY <1>1, <1>2 DEF FoundInv
<1>9. \A f \in Range(s.io) \cap IOOf("readRecord", r) : IsRecordOf(writes, f.record, reads[r].key)
  BY <1>1, OfReads DEF FoundInv
<1>10. reads[r] \in Reads
  BY <1>2, ElementTypes
<1> QED
  BY <1>2, <1>3, <1>4, <1>5, <1>6, <1>7, <1>8, <1>9, <1>10

LEMMA ReadSyncStep ==
    ASSUME TypeOK, ReadInv, NEW r \in DOMAIN reads, ReadSync(r)
    PROVE  ReadsOK(s', reads', writes)
<1> DEFINE record == IF Whole(reads[r].file) THEN reads[r].file ELSE None
           f == [op |-> "readRecord", r |-> r, record |-> record]
           e == [reads[r] EXCEPT !.reading = FALSE]
<1>1. record = IF Whole(reads[r].file) THEN reads[r].file ELSE None
  OBVIOUS
<1>2. reads[r].reading /\ r \in s.activeReads
  BY DEF ReadSync, ReadInv, ActiveReadsInv
<1>3. f.op = "readRecord" /\ f.r = r /\ f.record = record
  OBVIOUS
<1>4. reads[r] \in Reads
  BY ElementTypes
<1>5. /\ e.reading = FALSE /\ e.key = reads[r].key /\ e.canceled = reads[r].canceled /\ e.answers = reads[r].answers
      /\ e.activeCount = reads[r].activeCount /\ e.file = reads[r].file /\ e.record = reads[r].record
  BY <1>4 DEF Reads
<1> HIDE DEF record
<1>6. /\ reads' = [reads EXCEPT ![r] = e]
      /\ s' \in Members /\ s'.main = s.main
      /\ s'.pendingReads = s.pendingReads /\ s'.activeReads = s.activeReads
      /\ s'.io = Append(s.io, f)
      /\ f \in IOReadFunctions
  BY <1>1, ReadSyncEffect
<1> HIDE DEF f, e
<1>7. s.io \in Seq(IOFunctions)
  BY FieldTypes DEF TypeOK
<1>8. ~Holds(s.io, "readRecord", r)
  BY <1>2, HeadRead
<1> DEFINE q == s.io
           p == s'.io
           t == s'
           v == reads'
<1>9. q \in Seq(IOFunctions) /\ f \in IOReadFunctions /\ p = Append(q, f) /\ ~Holds(q, f.op, f.r)
  BY <1>3, <1>6, <1>7, <1>8
<1> HIDE DEF q, p
<1>10. /\ Range(p) = Range(q) \cup {f} /\ Holds(p, f.op, f.r)
       /\ \A op, x : op # f.op \/ x # f.r => (Holds(p, op, x) <=> Holds(q, op, x))
       /\ \A op, x : Once(q, IOOf(op, x)) => Once(p, IOOf(op, x))
  <2> HIDE DEF t, v
  <2> QED
    BY <1>9, IOAppended
<1>11. /\ \A op, x : Holds(q, op, x) <=> HasIO(s, op, x)
       /\ \A op, x : Holds(p, op, x) <=> HasIO(s', op, x)
  BY DEF Holds, HasIO, p, q
<1>12. IsRecordOf(writes, record, reads[r].key)
  <2>1. IsFileOf(writes, reads[r].file, reads[r].key)
    BY <1>2, HeadRead
  <2>2. record # None => record \in Nat
    BY <1>1, ElementTypes DEF Whole
  <2> QED
    BY <1>1, <2>1, <2>2 DEF IsRecordOf, IsFileOf
<1>13. QueuesOK(t, e, r)
  <2>1. \A g \in Range(p) \cap IOReadFunctions : g \in Range(q) \/ g.r = r
    BY <1>3, <1>10
  <2>2. \A op, x : x # r => (HasIO(t, op, x) <=> HasIO(s, op, x))
    BY <1>3, <1>10, <1>11
  <2>3. \A x \in DOMAIN reads : Once(s.main, FinishReadOf(x)) /\ Once(s.main, AnswerOf(x))
    BY <1>2, HeadRead
  <2> QED
    BY <1>6, <1>10, <2>1, <2>2, <2>3 DEF QueuesOK, p, q
<1>14. CountOK(t, e, r)
  <2>1. /\ HasIO(t, "readRecord", r) /\ (HasIO(t, "getBody", r) <=> Holds(q, "getBody", r))
        /\ (HasIO(t, "read", r) <=> Holds(q, "read", r))
    BY <1>3, <1>10, <1>11
  <2>2. /\ reads[r].activeCount = 1 + (IF Holds(q, "getBody", r) THEN 1 ELSE 0)
        /\ Holds(q, "read", r) => reads[r].activeCount = 0
        /\ Range(s.main) \cap FinishReadOf(r) # {} => reads[r].activeCount = 0 /\ ~Holds(q, "read", r)
    BY <1>2, HeadRead DEF q
  <2> QED
    BY <1>5, <1>6, <2>1, <2>2 DEF CountOK
<1>15. EntryOK(t, e, r)
  <2>1. ASSUME NEW g \in Range(p) \cap IOOf("readRecord", r) PROVE IsRecordOf(writes, g.record, e.key)
    <3>1. CASE g = f
      BY <1>3, <1>5, <1>12, <3>1
    <3>2. CASE g # f
      BY <1>2, <1>5, <1>10, <2>1, <3>2, HeadRead DEF q
    <3> QED
      BY <3>1, <3>2
  <2> QED
    BY <1>2, <1>5, <2>1, HeadRead DEF EntryOK, p
<1>16. /\ t \in Members /\ DOMAIN v = DOMAIN reads /\ v[r] = e
       /\ \A x \in DOMAIN reads : x # r => v[x] = reads[x]
  BY <1>6
<1> HIDE DEF t, v
<1>17. ReadsOK(t, v, writes)
  BY <1>2, <1>13, <1>14, <1>15, <1>16, OneRead
<1> QED
  BY <1>17 DEF t, v

(* Whether the step was the last one of the read decides whether it is     *)
(* finished on the main thread.                                            *)
LEMMA FinishPosted ==
    ASSUME TypeOK, ReadInv, NEW r \in DOMAIN reads, NEW g \in FinishReadFunctions, g.r = r,
           Range(s.main) \cap FinishReadOf(r) = {}, NEW p, p = s.main \/ p = Append(s.main, g)
    PROVE  /\ \A f \in Range(p) \cap MainReadFunctions : f \in Range(s.main) \/ f \in FinishReadOf(r)
           /\ \A x \in DOMAIN reads : Once(p, FinishReadOf(x)) /\ Once(p, AnswerOf(x))
           /\ p = s.main => Range(p) \cap FinishReadOf(r) = {}
<1>1. \A x \in DOMAIN reads : Once(s.main, FinishReadOf(x)) /\ Once(s.main, AnswerOf(x))
  BY DEF ReadInv, MainReadsInv
<1>2. CASE p = s.main
  BY <1>1, <1>2
<1>3. CASE p = Append(s.main, g)
  <2>1. s.main \in Seq(MainFunctions) /\ g \in MainFunctions
    BY FieldTypes DEF TypeOK, MainFunctions, MainReadFunctions
  <2>2. /\ Range(p) = Range(s.main) \cup {g}
        /\ \A C : Once(s.main, C) /\ (g \in C => Range(s.main) \cap C = {}) => Once(p, C)
    BY <1>3, <2>1, AppendKeeps
  <2>3. g \in FinishReadOf(r) /\ \A x : (g \in FinishReadOf(x) <=> x = r) /\ g \notin AnswerOf(x)
    BY OfReads DEF AnswerFunctions, FinishReadFunctions
  <2>4. ASSUME NEW x \in DOMAIN reads PROVE Once(p, FinishReadOf(x)) /\ Once(p, AnswerOf(x))
    <3>1. g \in FinishReadOf(x) => Range(s.main) \cap FinishReadOf(x) = {}
      BY <2>3
    <3> QED
      BY <1>1, <2>2, <2>3, <3>1
  <2>5. p # s.main
    <3>1. Len(p) = Len(s.main) + 1 /\ Len(s.main) \in Nat
      BY <1>3, <2>1, AppendProperties, LenProperties
    <3> QED
      BY <3>1
  <2> QED
    BY <2>2, <2>3, <2>4, <2>5
<1> QED
  BY <1>2, <1>3

LEMMA FinishOperationStep ==
    ASSUME TypeOK, ReadInv, s.io # <<>>, NEW f, f = Head(s.io), f.op \in {"getBody", "readRecord"}, NEW e \in Reads,
           FinishReadOperation([reads EXCEPT ![f.r] = e], f.r),
           e.key = reads[f.r].key, e.canceled = reads[f.r].canceled, e.answers = reads[f.r].answers,
           e.activeCount = reads[f.r].activeCount, e.reading = reads[f.r].reading, e.file = reads[f.r].file,
           IsRecordOf(writes, e.record, e.key)
    PROVE  ReadsOK(s', reads', writes)
<1> DEFINE r == f.r
           d == [e EXCEPT !.activeCount = e.activeCount - 1]
           g == [op |-> "finishRead", r |-> r]
<1>1. f.op # "clear"
  OBVIOUS
<1>2. /\ f \in IOReadFunctions /\ f \in Range(s.io) /\ r \in s.activeReads /\ r \in DOMAIN reads
      /\ s.io \in Seq(IOFunctions) /\ s.main \in Seq(MainFunctions)
  BY <1>1, HeadIO
<1>3. /\ reads' = [reads EXCEPT ![r] = d]
      /\ s' \in Members /\ s'.io = Tail(s.io)
      /\ s'.pendingReads = s.pendingReads /\ s'.activeReads = s.activeReads
      /\ s'.main = IF e.activeCount = 1 THEN Append(s.main, g) ELSE s.main
      /\ g \in FinishReadFunctions
  BY <1>1, FinishOperationEffect, SMTT(40)
<1>4. /\ d.activeCount = e.activeCount - 1 /\ d.reading = e.reading /\ d.key = e.key /\ d.canceled = e.canceled
      /\ d.answers = e.answers /\ d.file = e.file /\ d.record = e.record /\ g.r = r
  BY DEF Reads
<1> HIDE DEF r, d, g
<1>5. r = f.r
  BY DEF r
<1> DEFINE q == s.io
           p == s'.io
           t == s'
           v == reads'
           u == s'.main
<1>6. /\ Once(q, IOOf("getBody", r)) /\ Once(q, IOOf("readRecord", r))
      /\ reads[r].activeCount = (IF reads[r].reading \/ Holds(q, "readRecord", r) THEN 1 ELSE 0)
                                + (IF Holds(q, "getBody", r) THEN 1 ELSE 0)
      /\ reads[r].reading => ~Holds(q, "readRecord", r)
      /\ Holds(q, "read", r) => reads[r].activeCount = 0
      /\ Range(s.main) \cap FinishReadOf(r) # {} => reads[r].activeCount = 0 /\ ~Holds(q, "read", r)
      /\ IsFileOf(writes, reads[r].file, reads[r].key)
      /\ \A h \in Range(q) \cap IOOf("readRecord", r) : IsRecordOf(writes, h.record, reads[r].key)
  BY <1>2, HeadRead
<1>7. q \in Seq(IOFunctions) /\ q # <<>> /\ f = Head(q) /\ p = Tail(q) /\ Once(q, IOOf(f.op, f.r))
  BY <1>2, <1>3, <1>5, <1>6
<1>8. t.io = p /\ t.main = u /\ s.io = q
  OBVIOUS
<1>9. /\ t \in Members /\ DOMAIN v = DOMAIN reads /\ v[r] = d
      /\ \A x \in DOMAIN reads : x # r => v[x] = reads[x]
      /\ t.pendingReads = s.pendingReads /\ t.activeReads = s.activeReads
      /\ u = IF e.activeCount = 1 THEN Append(s.main, g) ELSE s.main
  BY <1>2, <1>3
<1> HIDE DEF q, p, t, v, u
<1>10. /\ Range(q) = Range(p) \cup {f}
       /\ Holds(q, f.op, r) /\ ~Holds(p, f.op, r)
       /\ \A op, x : op # f.op \/ x # r => (Holds(p, op, x) <=> Holds(q, op, x))
       /\ \A op, x : Once(q, IOOf(op, x)) => Once(p, IOOf(op, x))
  BY <1>2, <1>5, <1>7, IOPopped
<1>11. /\ \A op, x : Holds(q, op, x) <=> HasIO(s, op, x)
       /\ \A op, x : Holds(p, op, x) <=> HasIO(t, op, x)
  BY <1>8 DEF Holds, HasIO
<1>a. e.activeCount = reads[r].activeCount /\ e.reading = reads[r].reading
  BY <1>5
<1>b. \/ f.op = "readRecord" /\ ~reads[r].reading /\ Holds(q, "readRecord", r) /\ ~Holds(p, "readRecord", r)
         /\ (Holds(p, "getBody", r) <=> Holds(q, "getBody", r))
      \/ f.op = "getBody" /\ Holds(q, "getBody", r) /\ ~Holds(p, "getBody", r)
         /\ (Holds(p, "readRecord", r) <=> Holds(q, "readRecord", r))
  <2>1. CASE f.op = "readRecord"
    BY <1>6, <1>10, <2>1
  <2>2. CASE f.op = "getBody"
    BY <1>10, <2>2
  <2> QED
    BY <2>1, <2>2
<1>c. /\ e.activeCount \in {1, 2}
      /\ e.activeCount - 1 = (IF e.reading \/ Holds(p, "readRecord", r) THEN 1 ELSE 0)
                             + (IF Holds(p, "getBody", r) THEN 1 ELSE 0)
  <2>1. e.activeCount = (IF e.reading \/ Holds(q, "readRecord", r) THEN 1 ELSE 0)
                        + (IF Holds(q, "getBody", r) THEN 1 ELSE 0)
    BY <1>6, <1>a
  <2>2. \/ ~e.reading /\ Holds(q, "readRecord", r) /\ ~Holds(p, "readRecord", r)
           /\ (Holds(p, "getBody", r) <=> Holds(q, "getBody", r))
        \/ Holds(q, "getBody", r) /\ ~Holds(p, "getBody", r)
           /\ (Holds(p, "readRecord", r) <=> Holds(q, "readRecord", r))
    BY <1>a, <1>b
  <2> DEFINE c == e.activeCount
             a == e.reading
             b == Holds(q, "readRecord", r)
             h == Holds(q, "getBody", r)
             k == Holds(p, "readRecord", r)
             l == Holds(p, "getBody", r)
  <2> HIDE DEF c, a, b, h, k, l
  <2>3. c = (IF a \/ b THEN 1 ELSE 0) + (IF h THEN 1 ELSE 0) /\ ((~a /\ b /\ ~k /\ (l <=> h)) \/ (h /\ ~l /\ (k <=> b)))
    BY <2>1, <2>2 DEF c, a, b, h, k, l
  <2>4. c \in {1, 2} /\ c - 1 = (IF a \/ k THEN 1 ELSE 0) + (IF l THEN 1 ELSE 0)
    BY <2>3
  <2> QED
    BY <2>4 DEF c, a, b, h, k, l
<1>12. e.activeCount \in {1, 2} /\ ~Holds(q, "read", r) /\ Range(s.main) \cap FinishReadOf(r) = {}
  <2>1. reads[r].activeCount # 0
    BY <1>a, <1>c
  <2> QED
    BY <1>6, <1>c, <2>1
<1>13. /\ \A h \in Range(u) \cap MainReadFunctions : h \in Range(s.main) \/ h \in FinishReadOf(r)
       /\ \A x \in DOMAIN reads : Once(u, FinishReadOf(x)) /\ Once(u, AnswerOf(x))
       /\ u = s.main => Range(u) \cap FinishReadOf(r) = {}
  <2>1. u = s.main \/ u = Append(s.main, g)
    BY <1>9
  <2> QED
    BY <1>2, <1>3, <1>4, <1>12, <2>1, FinishPosted
<1>14. QueuesOK(t, d, r)
  <2>1. \A h \in Range(p) \cap IOReadFunctions : h \in Range(q) \/ h.r = r
    BY <1>10
  <2>2. \A op, x : x # r => (HasIO(t, op, x) <=> HasIO(s, op, x))
    BY <1>10, <1>11
  <2> QED
    BY <1>8, <1>9, <1>10, <1>13, <2>1, <2>2 DEF QueuesOK
<1>15. CountOK(t, d, r)
  <2>1. d.activeCount = (IF d.reading \/ Holds(p, "readRecord", r) THEN 1 ELSE 0)
                        + (IF Holds(p, "getBody", r) THEN 1 ELSE 0)
    BY <1>4, <1>c
  <2>2. d.reading => ~Holds(p, "readRecord", r)
    BY <1>4, <1>5, <1>6, <1>10
  <2>3. ~Holds(p, "read", r)
    BY <1>10, <1>12
  <2>4. Range(u) \cap FinishReadOf(r) # {} => d.activeCount = 0
    <3>1. u # s.main => e.activeCount = 1
      BY <1>9
    <3>2. e.activeCount = 1 => d.activeCount = 0
      BY <1>4
    <3> QED
      BY <1>13, <3>1, <3>2
  <2> QED
    BY <1>8, <1>11, <2>1, <2>2, <2>3, <2>4 DEF CountOK
<1>16. EntryOK(t, d, r)
  BY <1>4, <1>5, <1>6, <1>8, <1>10 DEF EntryOK
<1>17. ReadsOK(t, v, writes)
  BY <1>2, <1>9, <1>14, <1>15, <1>16, OneRead
<1> QED
  BY <1>17 DEF t, v

LEMMA GetBodyStep ==
    ASSUME TypeOK, ReadInv, GetBody
    PROVE  ReadsOK(s', reads', writes)
<1> DEFINE f == Head(s.io)
           e == [reads[f.r] EXCEPT !.body = bodies[reads[f.r].key]]
<1>1. /\ s.io # <<>> /\ f.op = "getBody" /\ e \in Reads
      /\ FinishReadOperation([reads EXCEPT ![f.r] = e], f.r) /\ f = Head(s.io)
  BY GetBodyEffect
<1>2. f.r \in s.activeReads /\ reads[f.r] \in Reads
  BY <1>1, HeadIO
<1>3. /\ e.key = reads[f.r].key /\ e.canceled = reads[f.r].canceled /\ e.answers = reads[f.r].answers
      /\ e.activeCount = reads[f.r].activeCount /\ e.reading = reads[f.r].reading /\ e.file = reads[f.r].file
      /\ e.record = reads[f.r].record
  BY <1>2 DEF Reads
<1>4. IsRecordOf(writes, reads[f.r].record, reads[f.r].key)
  BY <1>2, HeadRead
<1> HIDE DEF f, e
<1>5. f.op \in {"getBody", "readRecord"} /\ IsRecordOf(writes, e.record, e.key)
  BY <1>1, <1>3, <1>4
<1> QED
  BY <1>1, <1>3, <1>5, FinishOperationStep

LEMMA ReadRecordStep ==
    ASSUME TypeOK, ReadInv, ReadRecord
    PROVE  ReadsOK(s', reads', writes)
<1> DEFINE f == Head(s.io)
           e == [reads[f.r] EXCEPT !.record = f.record]
<1>1. /\ s.io # <<>> /\ f.op = "readRecord" /\ e \in Reads
      /\ FinishReadOperation([reads EXCEPT ![f.r] = e], f.r) /\ f = Head(s.io)
  BY ReadRecordEffect
<1>2. /\ f.r \in s.activeReads /\ reads[f.r] \in Reads /\ f \in Range(s.io) /\ f \in IOReadFunctions
  BY <1>1, HeadIO
<1>3. /\ e.key = reads[f.r].key /\ e.canceled = reads[f.r].canceled /\ e.answers = reads[f.r].answers
      /\ e.activeCount = reads[f.r].activeCount /\ e.reading = reads[f.r].reading /\ e.file = reads[f.r].file
      /\ e.record = f.record
  BY <1>2 DEF Reads
<1>4. IsRecordOf(writes, f.record, reads[f.r].key)
  BY <1>1, <1>2 DEF ReadInv, FoundInv
<1> HIDE DEF f, e
<1>5. f.op \in {"getBody", "readRecord"} /\ IsRecordOf(writes, e.record, e.key)
  BY <1>1, <1>3, <1>4
<1> QED
  BY <1>1, <1>3, <1>5, FinishOperationStep

LEMMA FileOfKey ==
    ASSUME TypeOK, WriteInv, NEW k \in Keys
    PROVE  IsFileOf(writes, records[k], k)
<1>1. records[k] \in {None, Partial} \cup Nat
  BY DEF TypeOK, Files
<1>2. records[k] \in Nat \ {0} => records[k] \in DOMAIN writes /\ writes[records[k]].key = k
  BY DEF WriteInv, RecordsInv
<1> QED
  BY <1>1, <1>2 DEF IsFileOf

LEMMA OpenRecordStep ==
    ASSUME TypeOK, WriteInv, ReadInv, OpenRecord
    PROVE  ReadsOK(s', reads', writes)
<1> DEFINE f == Head(s.io)
           file == records[reads[f.r].key]
           r == f.r
           e == Opened(reads[r], file, f.getBody)
           g == [op |-> "readRecord", r |-> f.r, record |-> None]
           h == [f EXCEPT !.op = "getBody"]
<1>0. f = Head(s.io) /\ file = records[reads[f.r].key] /\ r = f.r /\ e = Opened(reads[r], file, f.getBody)
  OBVIOUS
<1> HIDE DEF f, file
<1>1. /\ s.io # <<>> /\ f.op = "read" /\ file \in Files /\ f.getBody \in BOOLEAN
      /\ reads' = [reads EXCEPT ![r] = e]
      /\ s'.main = s.main /\ s' \in Members
      /\ s'.pendingReads = s.pendingReads /\ s'.activeReads = s.activeReads
      /\ g \in IOReadFunctions /\ h \in IOReadFunctions
      /\ \E q \in Seq(IOFunctions) :
             /\ IF f.getBody THEN q = [s.io EXCEPT ![1] = h] ELSE q = Tail(s.io)
             /\ s'.io = IF file = None THEN Append(q, g) ELSE q
  BY <1>0, OpenRecordEffect
<1>2. /\ f \in IOReadFunctions /\ f \in Range(s.io) /\ r \in s.activeReads /\ r \in DOMAIN reads
      /\ s.io \in Seq(IOFunctions) /\ reads[r] \in Reads /\ reads[r].key \in Keys
  BY <1>0, <1>1, HeadIO
<1>3. h.op = "getBody" /\ h.r = r /\ g.op = "readRecord" /\ g.r = r /\ g.record = None
  BY <1>2 DEF IOReadFunctions
<1>4. /\ e.activeCount = IF f.getBody THEN 2 ELSE 1
      /\ e.file = file /\ e.reading = (file # None)
      /\ e.key = reads[r].key /\ e.record = reads[r].record
      /\ e.canceled = reads[r].canceled /\ e.answers = reads[r].answers
  <2> DEFINE read == reads[r]
             body == f.getBody
  <2>1. read \in Reads /\ file \in Files /\ body \in BOOLEAN /\ e = Opened(read, file, body)
    BY <1>0, <1>1, <1>2
  <2> HIDE DEF r, e, read, body
  <2>2. /\ e.activeCount = IF body THEN 2 ELSE 1
        /\ e.file = file /\ e.reading = (file # None)
        /\ e.key = read.key /\ e.record = read.record
        /\ e.canceled = read.canceled /\ e.answers = read.answers
    BY <2>1, OpenedType
  <2> QED
    BY <2>2 DEF read, body
<1> HIDE DEF r, e, g, h
<1>5. PICK q \in Seq(IOFunctions) :
          /\ IF f.getBody THEN q = [s.io EXCEPT ![1] = h] ELSE q = Tail(s.io)
          /\ s'.io = IF file = None THEN Append(q, g) ELSE q
  BY <1>1
<1> DEFINE o == s.io
           p == s'.io
           t == s'
           v == reads'
<1>6. /\ o = s.io /\ t.io = p /\ t.main = s.main /\ t \in Members
      /\ DOMAIN v = DOMAIN reads /\ v[r] = e /\ \A x \in DOMAIN reads : x # r => v[x] = reads[x]
      /\ t.pendingReads = s.pendingReads /\ t.activeReads = s.activeReads
  BY <1>1, <1>2
<1>7. /\ o \in Seq(IOFunctions) /\ o # <<>> /\ f = Head(o)
      /\ IF f.getBody THEN q = [o EXCEPT ![1] = h] ELSE q = Tail(o)
      /\ p = IF file = None THEN Append(q, g) ELSE q
  BY <1>0, <1>1, <1>2, <1>5
<1>8. /\ Once(o, IOOf("read", r))
      /\ reads[r].activeCount = (IF reads[r].reading \/ Holds(o, "readRecord", r) THEN 1 ELSE 0)
                                + (IF Holds(o, "getBody", r) THEN 1 ELSE 0)
      /\ Holds(o, "read", r) => reads[r].activeCount = 0
      /\ Range(s.main) \cap FinishReadOf(r) # {} => reads[r].activeCount = 0 /\ ~Holds(o, "read", r)
      /\ \A x \in DOMAIN reads : Once(s.main, FinishReadOf(x)) /\ Once(s.main, AnswerOf(x))
      /\ IsRecordOf(writes, reads[r].record, reads[r].key)
      /\ \A j \in Range(o) \cap IOOf("readRecord", r) : IsRecordOf(writes, j.record, reads[r].key)
  BY <1>2, HeadRead
<1> HIDE DEF o, p, t, v
<1>9. Holds(o, "read", r)
  BY <1>0, <1>1, <1>2, <1>6, OfReads DEF Holds
<1>10. reads[r].activeCount = 0 /\ Range(s.main) \cap FinishReadOf(r) = {}
  BY <1>8, <1>9
<1>11. ~Holds(o, "readRecord", r) /\ ~Holds(o, "getBody", r)
  <2> DEFINE a == reads[r].reading \/ Holds(o, "readRecord", r)
             b == Holds(o, "getBody", r)
  <2>1. 0 = (IF a THEN 1 ELSE 0) + (IF b THEN 1 ELSE 0)
    BY <1>8, <1>10
  <2>2. ~a /\ ~b
    <3> HIDE DEF a, b
    <3> QED
      BY <2>1
  <2> QED
    BY <2>2
<1>12. /\ Once(o, IOOf(f.op, f.r)) /\ h.r = f.r /\ h.op # f.op /\ ~Holds(o, h.op, h.r)
  BY <1>0, <1>1, <1>3, <1>8, <1>11
(* The function at the head is done, or has come as far as the body.       *)
<1>13. /\ Range(q) \subseteq Range(o) \cup {h}
       /\ ~Holds(q, "read", r) /\ (Holds(q, "getBody", r) <=> f.getBody) /\ ~Holds(q, "readRecord", r)
       /\ \A op, x : x # r => (Holds(q, op, x) <=> Holds(o, op, x))
       /\ \A op, x : Once(o, IOOf(op, x)) => Once(q, IOOf(op, x))
  <2>1. CASE f.getBody
    <3>1. q = [o EXCEPT ![1] = h]
      BY <1>7, <2>1
    <3>2. /\ Range(q) \subseteq Range(o) \cup {h}
          /\ ~Holds(q, f.op, f.r) /\ Holds(q, h.op, h.r)
          /\ \A op, x : (op # f.op /\ op # h.op) \/ x # f.r => (Holds(q, op, x) <=> Holds(o, op, x))
          /\ \A op, x : Once(o, IOOf(op, x)) => Once(q, IOOf(op, x))
      <4>1. /\ o \in Seq(IOFunctions) /\ o # <<>> /\ f \in IOReadFunctions /\ f = Head(o)
            /\ Once(o, IOOf(f.op, f.r)) /\ h \in IOReadFunctions /\ h.r = f.r /\ h.op # f.op
            /\ ~Holds(o, h.op, h.r) /\ q = Replaced(o, h)
        BY <1>1, <1>2, <1>7, <1>12, <3>1 DEF Replaced
      <4> QED
        BY <4>1, IOReplaced
    <3> QED
      BY <1>0, <1>1, <1>3, <1>11, <2>1, <3>2
  <2>2. CASE ~f.getBody
    <3>1. q = Tail(o)
      BY <1>7, <2>2
    <3>2. /\ Range(o) = Range(q) \cup {f}
          /\ ~Holds(q, f.op, f.r)
          /\ \A op, x : op # f.op \/ x # f.r => (Holds(q, op, x) <=> Holds(o, op, x))
          /\ \A op, x : Once(o, IOOf(op, x)) => Once(q, IOOf(op, x))
      BY <1>2, <1>7, <1>12, <3>1, IOPopped
    <3> QED
      BY <1>0, <1>1, <1>11, <2>2, <3>2
  <2> QED
    BY <2>1, <2>2
(* A file that could not be opened is read in no time.                     *)
<1>14. /\ Range(p) \subseteq Range(o) \cup {g, h}
       /\ ~Holds(p, "read", r) /\ (Holds(p, "getBody", r) <=> f.getBody) /\ (Holds(p, "readRecord", r) <=> file = None)
       /\ \A op, x : x # r => (Holds(p, op, x) <=> Holds(o, op, x))
       /\ \A op, x : Once(o, IOOf(op, x)) => Once(p, IOOf(op, x))
  <2>1. CASE file = None
    <3>1. p = Append(q, g) /\ ~Holds(q, g.op, g.r)
      BY <1>3, <1>7, <1>13, <2>1
    <3>2. /\ Range(p) = Range(q) \cup {g} /\ Holds(p, g.op, g.r)
          /\ \A op, x : op # g.op \/ x # g.r => (Holds(p, op, x) <=> Holds(q, op, x))
          /\ \A op, x : Once(q, IOOf(op, x)) => Once(p, IOOf(op, x))
      BY <1>1, <3>1, IOAppended
    <3> QED
      BY <1>3, <1>13, <2>1, <3>2
  <2>2. CASE file # None
    <3>1. p = q
      BY <1>7, <2>2
    <3> QED
      BY <1>13, <2>2, <3>1
  <2> QED
    BY <2>1, <2>2
<1>15. /\ \A op, x : Holds(o, op, x) <=> HasIO(s, op, x)
       /\ \A op, x : Holds(p, op, x) <=> HasIO(t, op, x)
  BY <1>6 DEF Holds, HasIO
<1>16. QueuesOK(t, e, r)
  <2>1. \A j \in Range(p) \cap IOReadFunctions : j \in Range(o) \/ j.r = r
    BY <1>3, <1>14
  <2>2. \A op, x : x # r => (HasIO(t, op, x) <=> HasIO(s, op, x))
    BY <1>14, <1>15
  <2>3. \A j \in Range(t.main) \cap MainReadFunctions : j \in Range(s.main) \/ j \in FinishReadOf(r)
    BY <1>6
  <2> QED
    BY <1>6, <1>8, <1>14, <2>1, <2>2, <2>3 DEF QueuesOK
<1>17. CountOK(t, e, r)
  <2>1. /\ ~HasIO(t, "read", r) /\ (HasIO(t, "getBody", r) <=> f.getBody)
        /\ HasIO(t, "readRecord", r) <=> file = None
    BY <1>14, <1>15
  <2>2. e.activeCount = (IF e.reading \/ HasIO(t, "readRecord", r) THEN 1 ELSE 0)
                        + (IF HasIO(t, "getBody", r) THEN 1 ELSE 0)
    <3>1. e.reading \/ HasIO(t, "readRecord", r)
      BY <1>4, <2>1
    <3>2. CASE f.getBody
      BY <1>4, <2>1, <3>1, <3>2
    <3>3. CASE ~f.getBody
      BY <1>4, <2>1, <3>1, <3>3
    <3> QED
      BY <3>2, <3>3
  <2> QED
    BY <1>4, <1>6, <1>10, <2>1, <2>2 DEF CountOK
<1>18. EntryOK(t, e, r)
  <2>1. IsFileOf(writes, file, reads[r].key)
    BY <1>0, <1>2, FileOfKey
  <2>2. IsRecordOf(writes, None, reads[r].key)
    BY DEF IsRecordOf, IsFileOf
  <2>3. ASSUME NEW j \in Range(p) \cap IOOf("readRecord", r) PROVE IsRecordOf(writes, j.record, reads[r].key)
    <3>1. j # h
      BY <1>3, <2>3, OfReads
    <3>2. CASE j = g
      BY <1>3, <2>2, <3>2
    <3>3. CASE j # g
      BY <1>8, <1>14, <2>3, <3>1, <3>3
    <3> QED
      BY <3>2, <3>3
  <2> QED
    BY <1>4, <1>6, <1>8, <2>1, <2>3 DEF EntryOK
<1>19. ReadsOK(t, v, writes)
  BY <1>2, <1>6, <1>16, <1>17, <1>18, OneRead
<1> QED
  BY <1>19 DEF t, v

-----------------------------------------------------------------------------
LEMMA OneAnswer ==
    ASSUME NEW a, NEW q, q = Append(<<>>, a)
    PROVE  Len(q) <= 1 /\ Range(q) = {a}
  BY DEF Range

LEMMA ReadTimerStep ==
    ASSUME TypeOK, ReadInv, ReadTimerFires
    PROVE  ReadsOK(s', reads', writes)
<1> DEFINE t == s'
           v == reads'
<1>1. /\ PendingReadsInv(s, reads) /\ ActiveReadsInv(s, reads)
      /\ MainReadsInv(s, reads, writes) /\ FoundInv(s, reads, writes)
  BY DEF ReadInv
<1>2. /\ DOMAIN v = DOMAIN reads
      /\ \A x \in DOMAIN reads : v[x] = IF Cancelable(x) THEN Canceled(x) ELSE reads[x]
  BY ReadTimerEffect
<1>3. /\ t.activeReads = s.activeReads /\ t.io = s.io /\ t.main = s.main
      /\ \A p \in DOMAIN t.pendingReads : t.pendingReads[p] = <<>>
  <2>1. s \in Members
    BY DEF TypeOK
  <2>2. s' = [s EXCEPT !.readTimer = FALSE, !.pendingReads = [p \in DOMAIN s.pendingReads |-> <<>>]]
    BY ReadTimerEffect
  <2> QED
    BY <2>1, <2>2 DEF Members
<1>4. ASSUME NEW x \in DOMAIN reads
      PROVE  /\ v[x].key = reads[x].key /\ v[x].activeCount = reads[x].activeCount
             /\ v[x].file = reads[x].file /\ v[x].reading = reads[x].reading /\ v[x].record = reads[x].record
             /\ ~Cancelable(x) => v[x] = reads[x]
             /\ Cancelable(x) => v[x].canceled /\ v[x].answers = Append(reads[x].answers, None)
  <2>1. reads[x] \in Reads /\ None \in Answers
    BY ElementTypes DEF Answers
  <2> DEFINE a == Answered(reads[x], None)
  <2>2. /\ a \in Reads /\ a.answers = Append(reads[x].answers, None) /\ a.key = reads[x].key
        /\ a.activeCount = reads[x].activeCount /\ a.file = reads[x].file /\ a.reading = reads[x].reading
        /\ a.record = reads[x].record
    BY <2>1, AnsweredType
  <2>3. Canceled(x) = [a EXCEPT !.canceled = TRUE]
    BY DEF Canceled
  <2> HIDE DEF a
  <2>4. /\ Canceled(x).answers = a.answers /\ Canceled(x).key = a.key
        /\ Canceled(x).activeCount = a.activeCount /\ Canceled(x).file = a.file /\ Canceled(x).reading = a.reading
        /\ Canceled(x).record = a.record /\ Canceled(x).canceled
    BY <2>2, <2>3 DEF Reads
  <2> QED
    BY <1>2, <2>2, <2>4
<1>5. ASSUME NEW x \in DOMAIN reads, Cancelable(x) PROVE reads[x].answers = <<>>
  BY <1>1, <1>5 DEF Cancelable, PendingReadsInv, ActiveReadsInv
<1> HIDE DEF t, v
<1>6. PendingReadsInv(t, v)
  <2>1. \A p \in DOMAIN t.pendingReads : Range(t.pendingReads[p]) = {} /\ IsInjective(t.pendingReads[p])
    BY <1>3 DEF Range, IsInjective
  <2> QED
    BY <2>1 DEF PendingReadsInv
<1>7. ActiveReadsInv(t, v)
  <2>1. ASSUME NEW x \in t.activeReads, v[x].answers # <<>> PROVE v[x].canceled
    <3>1. x \in DOMAIN reads /\ x \in s.activeReads
      BY <1>1, <1>3 DEF ActiveReadsInv
    <3>2. CASE Cancelable(x)
      BY <1>4, <3>1, <3>2
    <3>3. CASE ~Cancelable(x)
      BY <1>4, <3>1, <3>3 DEF Cancelable
    <3> QED
      BY <3>2, <3>3
  <2>2. \A op, x : HasIO(t, op, x) <=> HasIO(s, op, x)
    BY <1>3 DEF HasIO
  <2>3. \A x \in DOMAIN v :
            /\ v[x].reading => x \in t.activeReads /\ ~HasIO(t, "readRecord", x)
            /\ v[x].activeCount = (IF v[x].reading \/ HasIO(t, "readRecord", x) THEN 1 ELSE 0)
                                  + (IF HasIO(t, "getBody", x) THEN 1 ELSE 0)
    BY <1>1, <1>2, <1>3, <1>4, <2>2 DEF ActiveReadsInv
  <2>4. \A f \in Range(t.io) \cap IOReadFunctions : f.r \in t.activeReads /\ (f.op = "read" => v[f.r].activeCount = 0)
    BY <1>1, <1>3, <1>4 DEF ActiveReadsInv
  <2>5. t.activeReads \subseteq DOMAIN v
        /\ \A op \in {"read", "getBody", "readRecord"}, x \in DOMAIN v : Once(t.io, IOOf(op, x))
    BY <1>1, <1>2, <1>3 DEF ActiveReadsInv
  <2> QED
    BY <2>1, <2>3, <2>4, <2>5 DEF ActiveReadsInv
<1>8. MainReadsInv(t, v, writes)
  <2>1. ASSUME NEW f \in Range(t.main) \cap FinishReadFunctions
        PROVE  f.r \in t.activeReads /\ v[f.r].activeCount = 0 /\ ~HasIO(t, "read", f.r)
    <3>1. f.r \in s.activeReads /\ reads[f.r].activeCount = 0 /\ ~HasIO(s, "read", f.r)
      BY <1>1, <1>3, <2>1 DEF MainReadsInv
    <3>2. f.r \in DOMAIN reads
      BY <1>1, <3>1 DEF ActiveReadsInv
    <3> QED
      BY <1>3, <1>4, <3>1, <3>2 DEF HasIO
  <2>2. ASSUME NEW f \in Range(t.main) \cap AnswerFunctions
        PROVE  /\ f.r \in DOMAIN v /\ f.r \notin t.activeReads
               /\ v[f.r].answers = <<>>
               /\ f.n \in DOMAIN writes /\ writes[f.n].key = v[f.r].key
               /\ \A p \in DOMAIN t.pendingReads : f.r \notin Range(t.pendingReads[p])
    <3>1. /\ f.r \in DOMAIN reads /\ f.r \notin s.activeReads
          /\ reads[f.r].answers = <<>>
          /\ f.n \in DOMAIN writes /\ writes[f.n].key = reads[f.r].key
          /\ \A p \in DOMAIN s.pendingReads : f.r \notin Range(s.pendingReads[p])
      BY <1>1, <1>3, <2>2 DEF MainReadsInv
    <3>2. ~Cancelable(f.r)
      BY <3>1 DEF Cancelable
    <3>3. \A p \in DOMAIN t.pendingReads : f.r \notin Range(t.pendingReads[p])
      BY <1>3 DEF Range
    <3> QED
      BY <1>2, <1>3, <1>4, <3>1, <3>2, <3>3
  <2>3. \A x \in DOMAIN v : Once(t.main, FinishReadOf(x)) /\ Once(t.main, AnswerOf(x))
    BY <1>1, <1>2, <1>3 DEF MainReadsInv
  <2> QED
    BY <2>1, <2>2, <2>3 DEF MainReadsInv
<1>9. FoundInv(t, v, writes)
  <2>1. ASSUME NEW x \in DOMAIN v
        PROVE  /\ Len(v[x].answers) <= 1
               /\ \A answer \in Range(v[x].answers) \ {None} :
                      /\ answer.header \in Nat /\ answer.header = answer.body
                      /\ IsFileOf(writes, answer.header, v[x].key)
    <3>1. CASE Cancelable(x)
      <4>1. v[x].answers = Append(<<>>, None)
        BY <1>2, <1>4, <1>5, <3>1
      <4> QED
        BY <4>1, OneAnswer
    <3>2. CASE ~Cancelable(x)
      BY <1>1, <1>2, <1>4, <3>2 DEF FoundInv
    <3> QED
      BY <3>1, <3>2
  <2>2. \A x \in DOMAIN v : IsFileOf(writes, v[x].file, v[x].key) /\ IsRecordOf(writes, v[x].record, v[x].key)
    BY <1>1, <1>2, <1>4 DEF FoundInv
  <2>3. ASSUME NEW f \in Range(t.io) \cap IOReadFunctions, f.op = "readRecord"
        PROVE  IsRecordOf(writes, f.record, v[f.r].key)
    <3>1. f.r \in DOMAIN reads
      BY <1>1, <1>3, <2>3 DEF ActiveReadsInv
    <3> QED
      BY <1>1, <1>3, <1>4, <2>3, <3>1 DEF FoundInv
  <2> QED
    BY <2>1, <2>2, <2>3 DEF FoundInv
<1>10. ReadsOK(t, v, writes)
  BY <1>6, <1>7, <1>8, <1>9 DEF ReadsOK
<1> QED
  BY <1>10 DEF t, v

(* A completion handler is run for read r, whose function was the head of  *)
(* the main thread's: r is neither pending nor active in t, nor has it     *)
(* anything else to come.                                                  *)
LEMMA ReadAnswered ==
    ASSUME TypeOK, ReadInv, NEW r \in DOMAIN reads, NEW t \in Members, NEW v,
           t.pendingReads = s.pendingReads, t.activeReads = s.activeReads \ {r}, t.io = s.io,
           \A p \in DOMAIN s.pendingReads : r \notin Range(s.pendingReads[p]),
           ~reads[r].reading, \A op : ~HasIO(s, op, r),
           Range(t.main) \subseteq Range(s.main),
           \A C : Once(s.main, C) => Once(t.main, C),
           Range(t.main) \cap FinishReadOf(r) = {}, Range(t.main) \cap AnswerOf(r) = {},
           DOMAIN v = DOMAIN reads, \A x \in DOMAIN reads : x # r => v[x] = reads[x],
           v[r].key = reads[r].key, v[r].activeCount = reads[r].activeCount, v[r].reading = reads[r].reading,
           v[r].file = reads[r].file, v[r].record = reads[r].record,
           Len(v[r].answers) <= 1,
           \A answer \in Range(v[r].answers) \ {None} :
               /\ answer.header \in Nat /\ answer.header = answer.body
               /\ IsFileOf(writes, answer.header, v[r].key)
    PROVE  ReadsOK(t, v, writes)
<1>1. /\ PendingReadsInv(s, reads) /\ ActiveReadsInv(s, reads)
      /\ MainReadsInv(s, reads, writes) /\ FoundInv(s, reads, writes)
  BY DEF ReadInv
<1>2. \A x \in DOMAIN reads :
          /\ v[x].key = reads[x].key /\ v[x].activeCount = reads[x].activeCount /\ v[x].reading = reads[x].reading
          /\ v[x].file = reads[x].file /\ v[x].record = reads[x].record
  OBVIOUS
<1>3. PendingReadsInv(t, v)
  <2>1. ASSUME NEW p \in DOMAIN s.pendingReads, NEW x \in Range(s.pendingReads[p])
        PROVE  x \in DOMAIN v /\ x \notin t.activeReads /\ ~v[x].canceled /\ v[x].answers = <<>>
    <3>1. x \in DOMAIN reads /\ x \notin s.activeReads /\ ~reads[x].canceled /\ reads[x].answers = <<>>
      BY <1>1 DEF PendingReadsInv
    <3>2. x # r
      OBVIOUS
    <3> QED
      BY <3>1, <3>2
  <2>2. /\ \A p \in DOMAIN s.pendingReads : IsInjective(s.pendingReads[p])
        /\ \A p, q \in DOMAIN s.pendingReads : p # q => Range(s.pendingReads[p]) \cap Range(s.pendingReads[q]) = {}
    BY <1>1 DEF PendingReadsInv
  <2> QED
    BY <2>1, <2>2 DEF PendingReadsInv
<1>4. \A op, x : HasIO(t, op, x) <=> HasIO(s, op, x)
  BY DEF HasIO
<1>5. ActiveReadsInv(t, v)
  <2>1. ASSUME NEW x \in t.activeReads
        PROVE  x \in DOMAIN v /\ (v[x].answers # <<>> => v[x].canceled)
    BY <1>1 DEF ActiveReadsInv
  <2>2. ASSUME NEW f \in Range(t.io) \cap IOReadFunctions
        PROVE  f.r \in t.activeReads /\ (f.op = "read" => v[f.r].activeCount = 0)
    <3>1. f.r # r
      <4>1. f \in Range(s.io) /\ f \in IOOf(f.op, f.r)
        BY OfReads
      <4>2. HasIO(s, f.op, f.r)
        BY <4>1 DEF HasIO
      <4> QED
        BY <4>2
    <3>2. f.r \in s.activeReads /\ (f.op = "read" => reads[f.r].activeCount = 0) /\ f.r \in DOMAIN reads
      BY <1>1 DEF ActiveReadsInv
    <3> QED
      BY <1>2, <3>1, <3>2
  <2>3. ASSUME NEW x \in DOMAIN v
        PROVE  /\ v[x].reading => x \in t.activeReads /\ ~HasIO(t, "readRecord", x)
               /\ v[x].activeCount = (IF v[x].reading \/ HasIO(t, "readRecord", x) THEN 1 ELSE 0)
                                     + (IF HasIO(t, "getBody", x) THEN 1 ELSE 0)
    <3>1. /\ reads[x].reading => x \in s.activeReads /\ ~HasIO(s, "readRecord", x)
          /\ reads[x].activeCount = (IF reads[x].reading \/ HasIO(s, "readRecord", x) THEN 1 ELSE 0)
                                    + (IF HasIO(s, "getBody", x) THEN 1 ELSE 0)
      BY <1>1 DEF ActiveReadsInv
    <3>2. v[x].reading = reads[x].reading /\ v[x].activeCount = reads[x].activeCount
      BY <1>2
    <3>3. (HasIO(t, "readRecord", x) <=> HasIO(s, "readRecord", x)) /\ (HasIO(t, "getBody", x) <=> HasIO(s, "getBody", x))
      BY <1>4
    <3>4. reads[x].reading => x # r
      OBVIOUS
    <3> QED
      BY <3>1, <3>2, <3>3, <3>4
  <2>4. \A op \in {"read", "getBody", "readRecord"}, x \in DOMAIN v : Once(t.io, IOOf(op, x))
    BY <1>1 DEF ActiveReadsInv
  <2> QED
    BY <2>1, <2>2, <2>3, <2>4 DEF ActiveReadsInv
<1>6. MainReadsInv(t, v, writes)
  <2>1. ASSUME NEW f \in Range(t.main) \cap FinishReadFunctions
        PROVE  f.r \in t.activeReads /\ v[f.r].activeCount = 0 /\ ~HasIO(t, "read", f.r)
    <3>1. f.r # r
      BY OfReads
    <3>2. f.r \in s.activeReads /\ reads[f.r].activeCount = 0 /\ ~HasIO(s, "read", f.r)
      BY <1>1 DEF MainReadsInv
    <3>3. f.r \in DOMAIN reads
      BY <1>1, <3>2 DEF ActiveReadsInv
    <3> QED
      BY <1>2, <1>4, <3>1, <3>2, <3>3
  <2>2. ASSUME NEW f \in Range(t.main) \cap AnswerFunctions
        PROVE  /\ f.r \in DOMAIN v /\ f.r \notin t.activeReads
               /\ v[f.r].answers = <<>>
               /\ f.n \in DOMAIN writes /\ writes[f.n].key = v[f.r].key
               /\ \A p \in DOMAIN t.pendingReads : f.r \notin Range(t.pendingReads[p])
    <3>1. f.r # r
      BY OfReads
    <3>2. /\ f.r \in DOMAIN reads /\ f.r \notin s.activeReads
          /\ reads[f.r].answers = <<>>
          /\ f.n \in DOMAIN writes /\ writes[f.n].key = reads[f.r].key
          /\ \A p \in DOMAIN s.pendingReads : f.r \notin Range(s.pendingReads[p])
      BY <1>1 DEF MainReadsInv
    <3> QED
      BY <3>1, <3>2
  <2>3. \A x \in DOMAIN v : Once(t.main, FinishReadOf(x)) /\ Once(t.main, AnswerOf(x))
    BY <1>1 DEF MainReadsInv
  <2> QED
    BY <2>1, <2>2, <2>3 DEF MainReadsInv
<1>7. FoundInv(t, v, writes)
  <2>1. ASSUME NEW x \in DOMAIN v
        PROVE  /\ IsFileOf(writes, v[x].file, v[x].key) /\ IsRecordOf(writes, v[x].record, v[x].key)
               /\ Len(v[x].answers) <= 1
               /\ \A answer \in Range(v[x].answers) \ {None} :
                      /\ answer.header \in Nat /\ answer.header = answer.body
                      /\ IsFileOf(writes, answer.header, v[x].key)
    <3>1. IsFileOf(writes, reads[x].file, reads[x].key) /\ IsRecordOf(writes, reads[x].record, reads[x].key)
      BY <1>1 DEF FoundInv
    <3>2. CASE x = r
      BY <1>2, <3>1, <3>2
    <3>3. CASE x # r
      BY <1>1, <3>3 DEF FoundInv
    <3> QED
      BY <3>2, <3>3
  <2>2. ASSUME NEW f \in Range(t.io) \cap IOReadFunctions, f.op = "readRecord"
        PROVE  IsRecordOf(writes, f.record, v[f.r].key)
    <3>1. f.r \in DOMAIN reads
      BY <1>1 DEF ActiveReadsInv
    <3> QED
      BY <1>1, <1>2, <2>2, <3>1 DEF FoundInv
  <2> QED
    BY <2>1, <2>2 DEF FoundInv
<1> QED
  BY <1>3, <1>5, <1>6, <1>7 DEF ReadsOK

LEMMA RetrievedStep ==
    ASSUME TypeOK, ReadInv, RetrievedFromMemory
    PROVE  ReadsOK(s', reads', writes)
<1> DEFINE f == Head(s.main)
           r == f.r
           a == Answer(f.n, f.n)
           t == s'
           v == reads'
<1>1. /\ s.main # <<>> /\ f \in AnswerFunctions /\ f \notin MainWriteFunctions /\ a \in Answers
      /\ v = [reads EXCEPT ![r] = Answered(reads[r], a)] /\ t = Popped("main")
  BY RetrievedEffect
<1>2. /\ t \in Members /\ t.main = Tail(s.main)
      /\ t.pendingReads = s.pendingReads /\ t.activeReads = s.activeReads /\ t.io = s.io
  <2> HIDE DEF t
  <2> QED
    BY <1>1, PopMain
<1>3. s.main \in Seq(MainFunctions)
  BY FieldTypes DEF TypeOK
<1>4. /\ f \in Range(s.main) /\ Range(t.main) \subseteq Range(s.main)
      /\ \A C : Once(s.main, C) => Once(t.main, C) /\ (f \in C => Range(t.main) \cap C = {})
  BY <1>1, <1>2, <1>3, TailKeeps
<1>5. /\ r \in DOMAIN reads /\ r \notin s.activeReads /\ reads[r].answers = <<>>
      /\ f.n \in DOMAIN writes /\ writes[f.n].key = reads[r].key
      /\ \A p \in DOMAIN s.pendingReads : r \notin Range(s.pendingReads[p])
  BY <1>1, <1>4 DEF ReadInv, MainReadsInv
<1>6. ~reads[r].reading /\ \A op : ~HasIO(s, op, r)
  BY <1>5, IdleReads DEF ReadInv
<1>7. Range(t.main) \cap AnswerOf(r) = {}
  BY <1>1, <1>4, <1>5, OfReads DEF ReadInv, MainReadsInv
<1>8. Range(t.main) \cap FinishReadOf(r) = {}
  BY <1>4, <1>5, OfReads DEF ReadInv, MainReadsInv
<1>9. reads[r] \in Reads
  BY <1>5, ElementTypes
<1>10. /\ DOMAIN v = DOMAIN reads /\ \A x \in DOMAIN reads : x # r => v[x] = reads[x]
       /\ v[r] = Answered(reads[r], a)
  BY <1>1, <1>5
<1>11. /\ v[r].key = reads[r].key /\ v[r].activeCount = reads[r].activeCount /\ v[r].reading = reads[r].reading
       /\ v[r].file = reads[r].file /\ v[r].record = reads[r].record /\ v[r].answers = Append(reads[r].answers, a)
  BY <1>1, <1>9, <1>10, AnsweredType, SMTT(40)
<1>12. Len(v[r].answers) <= 1 /\ Range(v[r].answers) = {a}
  BY <1>5, <1>11, OneAnswer
<1>13. a.header = f.n /\ a.body = f.n /\ f.n \in Nat /\ IsFileOf(writes, f.n, v[r].key)
  BY <1>1, <1>5, <1>11 DEF Answer, AnswerFunctions, IsFileOf
<1>14. t.activeReads = s.activeReads \ {r}
  BY <1>2, <1>5
<1>15. \A answer \in Range(v[r].answers) \ {None} :
           /\ answer.header \in Nat /\ answer.header = answer.body
           /\ IsFileOf(writes, answer.header, v[r].key)
  BY <1>12, <1>13
<1> HIDE DEF f, r, a, t, v
<1>16. ReadsOK(t, v, writes)
  BY <1>2, <1>4, <1>5, <1>6, <1>7, <1>8, <1>10, <1>11, <1>12, <1>14, <1>15, ReadAnswered
<1> QED
  BY <1>16 DEF t, v

LEMMA FinishReadStep ==
    ASSUME TypeOK, ReadInv, FinishRead
    PROVE  ReadsOK(s', reads', writes)
<1> DEFINE f == Head(s.main)
           r == f.r
           a == Result(reads[r])
           v == reads'
<1>0. r = Head(s.main).r
  OBVIOUS
<1>1. /\ s.main # <<>> /\ f \in FinishReadFunctions /\ r \in s.activeReads /\ r \in DOMAIN reads
      /\ v = FinishedReads(r)
  <2> HIDE DEF r
  <2> QED
    BY <1>0, FinishReadEffect
<1>2. PICK m \in Members :
          /\ s' = DispatchPendingReads(m, reads) /\ m.main = Tail(s.main)
          /\ m.pendingReads = s.pendingReads /\ m.activeReads = s.activeReads \ {r} /\ m.io = s.io
  <2> HIDE DEF r
  <2> QED
    BY <1>0, FinishReadEffect
<1>3. s.main \in Seq(MainFunctions)
  BY FieldTypes DEF TypeOK
<1>4. /\ f \in Range(s.main) /\ Range(m.main) \subseteq Range(s.main)
      /\ \A C : Once(s.main, C) => Once(m.main, C) /\ (f \in C => Range(m.main) \cap C = {})
  BY <1>1, <1>2, <1>3, TailKeeps
<1>5. \A p \in DOMAIN s.pendingReads : r \notin Range(s.pendingReads[p])
  BY <1>1 DEF ReadInv, PendingReadsInv
<1>6. ~reads[r].reading /\ \A op : ~HasIO(s, op, r)
  <2>1. reads[r].activeCount = 0 /\ ~HasIO(s, "read", r)
    BY <1>1, <1>4 DEF ReadInv, MainReadsInv
  <2> DEFINE b == reads[r].reading \/ HasIO(s, "readRecord", r)
             c == HasIO(s, "getBody", r)
  <2>2. 0 = (IF b THEN 1 ELSE 0) + (IF c THEN 1 ELSE 0)
    BY <1>1, <2>1 DEF ReadInv, ActiveReadsInv
  <2>3. ~b /\ ~c
    <3> HIDE DEF b, c
    <3> QED
      BY <2>2
  <2>4. \A g \in IOReadFunctions : g.op \in {"read", "getBody", "readRecord"}
    BY DEF IOReadFunctions
  <2> QED
    BY <2>1, <2>3, <2>4, OfReads DEF HasIO
<1>7. Range(m.main) \cap FinishReadOf(r) = {}
  BY <1>1, <1>4, OfReads DEF ReadInv, MainReadsInv
<1>8. Range(m.main) \cap AnswerOf(r) = {}
  BY <1>1, <1>4, OfReads DEF ReadInv, MainReadsInv
<1>9. reads[r] \in Reads /\ a \in Answers
  BY <1>1, ElementTypes, ResultType
<1>10. /\ IsRecordOf(writes, reads[r].record, reads[r].key)
       /\ Len(reads[r].answers) <= 1
       /\ \A answer \in Range(reads[r].answers) \ {None} :
              /\ answer.header \in Nat /\ answer.header = answer.body
              /\ IsFileOf(writes, answer.header, reads[r].key)
  BY <1>1 DEF ReadInv, FoundInv
<1>a. /\ m.pendingReads = s.pendingReads /\ m.activeReads = s.activeReads \ {r} /\ m.io = s.io
      /\ \A p \in DOMAIN s.pendingReads : r \notin Range(s.pendingReads[p])
      /\ ~reads[r].reading /\ \A op : ~HasIO(s, op, r)
  BY <1>2, <1>5, <1>6
<1>b. /\ r \in DOMAIN reads /\ Range(m.main) \subseteq Range(s.main)
      /\ \A C : Once(s.main, C) => Once(m.main, C)
      /\ Range(m.main) \cap FinishReadOf(r) = {} /\ Range(m.main) \cap AnswerOf(r) = {}
  BY <1>1, <1>4, <1>7, <1>8
<1>11. ASSUME reads[r].canceled PROVE ReadsOK(m, v, writes)
  <2>1. v = reads
    BY <1>1, <1>11 DEF FinishedReads
  <2>2. /\ DOMAIN v = DOMAIN reads /\ \A x \in DOMAIN reads : x # r => v[x] = reads[x]
        /\ v[r].key = reads[r].key /\ v[r].activeCount = reads[r].activeCount /\ v[r].reading = reads[r].reading
        /\ v[r].file = reads[r].file /\ v[r].record = reads[r].record /\ Len(v[r].answers) <= 1
        /\ \A answer \in Range(v[r].answers) \ {None} :
               /\ answer.header \in Nat /\ answer.header = answer.body
               /\ IsFileOf(writes, answer.header, v[r].key)
    BY <1>10, <2>1
  <2> HIDE DEF f, r, a, v
  <2> QED
    BY <1>b, <1>a, <2>2, ReadAnswered
<1>12. ASSUME ~reads[r].canceled PROVE ReadsOK(m, v, writes)
  <2>1. v = [reads EXCEPT ![r] = Answered(reads[r], a)] /\ reads[r].answers = <<>>
    BY <1>1, <1>12 DEF FinishedReads, ReadInv, ActiveReadsInv
  <2>2. /\ DOMAIN v = DOMAIN reads /\ \A x \in DOMAIN reads : x # r => v[x] = reads[x]
        /\ v[r] = Answered(reads[r], a)
    BY <1>1, <2>1
  <2>3. /\ v[r].key = reads[r].key /\ v[r].activeCount = reads[r].activeCount /\ v[r].reading = reads[r].reading
        /\ v[r].file = reads[r].file /\ v[r].record = reads[r].record /\ v[r].answers = Append(reads[r].answers, a)
    BY <1>9, <2>2, AnsweredType, SMTT(40)
  <2>4. Len(v[r].answers) <= 1 /\ Range(v[r].answers) = {a}
    BY <2>1, <2>3, OneAnswer
  <2>5. a # None => /\ a.header = reads[r].record /\ a.body = reads[r].record /\ reads[r].record # None
    BY DEF Result, Answer
  <2>6. \A answer \in Range(v[r].answers) \ {None} :
            /\ answer.header \in Nat /\ answer.header = answer.body
            /\ IsFileOf(writes, answer.header, v[r].key)
    BY <1>10, <2>3, <2>4, <2>5 DEF IsRecordOf
  <2>7. /\ DOMAIN v = DOMAIN reads /\ \A x \in DOMAIN reads : x # r => v[x] = reads[x]
        /\ v[r].key = reads[r].key /\ v[r].activeCount = reads[r].activeCount /\ v[r].reading = reads[r].reading
        /\ v[r].file = reads[r].file /\ v[r].record = reads[r].record /\ Len(v[r].answers) <= 1
        /\ \A answer \in Range(v[r].answers) \ {None} :
               /\ answer.header \in Nat /\ answer.header = answer.body
               /\ IsFileOf(writes, answer.header, v[r].key)
    BY <2>2, <2>3, <2>4, <2>6
  <2> HIDE DEF f, r, a, v
  <2> QED
    BY <1>b, <1>a, <2>7, ReadAnswered
<1> DEFINE d == s'
<1>13. ReadsOK(m, v, writes) /\ d = DispatchPendingReads(m, reads)
  BY <1>2, <1>11, <1>12
<1> HIDE DEF d, v
<1>14. ReadsOK(d, v, writes)
  BY <1>13, DispatchKeepsReads
<1> QED
  BY <1>14 DEF d, v

(* A read more, of which nothing is known yet.                             *)
LEMMA ReadAdded ==
    ASSUME TypeOK, ReadInv, NEW n, n = Len(reads) + 1, NEW e \in Reads, NEW v, v = Append(reads, e),
           e.activeCount = 0, ~e.reading, e.file = None, e.record = None, Len(e.answers) <= 1,
           Range(e.answers) \subseteq {None}
    PROVE  /\ ReadsOK(s, v, writes)
           /\ n \in Nat /\ n \in DOMAIN v /\ n \notin DOMAIN reads /\ v[n] = e
           /\ n \notin s.activeReads
           /\ \A p \in DOMAIN s.pendingReads : n \notin Range(s.pendingReads[p])
           /\ \A f \in Range(s.main) \cap AnswerFunctions : f.r # n
<1>1. /\ PendingReadsInv(s, reads) /\ ActiveReadsInv(s, reads)
      /\ MainReadsInv(s, reads, writes) /\ FoundInv(s, reads, writes)
  BY DEF ReadInv
<1>2. reads \in Seq(Reads)
  BY DEF TypeOK
<1>3. /\ DOMAIN v = DOMAIN reads \cup {n} /\ n \notin DOMAIN reads /\ n \in Nat
      /\ v[n] = e /\ \A x \in DOMAIN reads : v[x] = reads[x]
  BY <1>2, AppendPlaces
<1>4. /\ n \notin s.activeReads /\ \A p \in DOMAIN s.pendingReads : n \notin Range(s.pendingReads[p])
      /\ \A f \in Range(s.main) \cap MainReadFunctions : f.r # n
      /\ \A f \in Range(s.io) \cap IOReadFunctions : f.r # n
  <2>1. n \notin s.activeReads /\ \A p \in DOMAIN s.pendingReads : n \notin Range(s.pendingReads[p])
    BY <1>1, <1>3 DEF PendingReadsInv, ActiveReadsInv
  <2>2. \A f \in Range(s.main) \cap MainReadFunctions : f.r # n
    BY <1>1, <1>3, <2>1 DEF MainReadsInv, MainReadFunctions
  <2>3. \A f \in Range(s.io) \cap IOReadFunctions : f.r # n
    BY <1>1, <2>1 DEF ActiveReadsInv
  <2> QED
    BY <2>1, <2>2, <2>3
<1>5. PendingReadsInv(s, v)
  BY <1>1, <1>3 DEF PendingReadsInv
<1>6. /\ \A op : ~HasIO(s, op, n) /\ Once(s.io, IOOf(op, n))
      /\ Once(s.main, FinishReadOf(n)) /\ Once(s.main, AnswerOf(n))
  <2>1. \A op : Range(s.io) \cap IOOf(op, n) = {}
    BY <1>4, OfReads
  <2>2. Range(s.main) \cap FinishReadOf(n) = {} /\ Range(s.main) \cap AnswerOf(n) = {}
    BY <1>4, OfReads
  <2> QED
    BY <2>1, <2>2 DEF HasIO, Once, Range
<1>7. ActiveReadsInv(s, v)
  <2>1. ASSUME NEW x \in DOMAIN v
        PROVE  /\ v[x].reading => x \in s.activeReads /\ ~HasIO(s, "readRecord", x)
               /\ v[x].activeCount = (IF v[x].reading \/ HasIO(s, "readRecord", x) THEN 1 ELSE 0)
                                     + (IF HasIO(s, "getBody", x) THEN 1 ELSE 0)
               /\ \A op \in {"read", "getBody", "readRecord"} : Once(s.io, IOOf(op, x))
    <3>1. CASE x = n
      BY <1>3, <1>6, <3>1
    <3>2. CASE x # n
      BY <1>1, <1>3, <3>2 DEF ActiveReadsInv
    <3> QED
      BY <3>1, <3>2
  <2>2. s.activeReads \subseteq DOMAIN v /\ \A x \in s.activeReads : v[x].answers # <<>> => v[x].canceled
    BY <1>1, <1>3 DEF ActiveReadsInv
  <2>3. \A f \in Range(s.io) \cap IOReadFunctions : f.r \in s.activeReads /\ (f.op = "read" => v[f.r].activeCount = 0)
    BY <1>1, <1>3 DEF ActiveReadsInv
  <2> QED
    BY <2>1, <2>2, <2>3 DEF ActiveReadsInv
<1>8. MainReadsInv(s, v, writes)
  <2>1. ASSUME NEW f \in Range(s.main) \cap FinishReadFunctions
        PROVE  f.r \in s.activeReads /\ v[f.r].activeCount = 0 /\ ~HasIO(s, "read", f.r)
    BY <1>1, <1>3 DEF MainReadsInv, ActiveReadsInv
  <2>2. ASSUME NEW f \in Range(s.main) \cap AnswerFunctions
        PROVE  /\ f.r \in DOMAIN v /\ f.r \notin s.activeReads
               /\ v[f.r].answers = <<>>
               /\ f.n \in DOMAIN writes /\ writes[f.n].key = v[f.r].key
               /\ \A p \in DOMAIN s.pendingReads : f.r \notin Range(s.pendingReads[p])
    BY <1>1, <1>3 DEF MainReadsInv
  <2>3. ASSUME NEW x \in DOMAIN v PROVE Once(s.main, FinishReadOf(x)) /\ Once(s.main, AnswerOf(x))
    BY <1>1, <1>3, <1>6 DEF MainReadsInv
  <2> QED
    BY <2>1, <2>2, <2>3 DEF MainReadsInv
<1>9. FoundInv(s, v, writes)
  <2>1. ASSUME NEW x \in DOMAIN v
        PROVE  /\ IsFileOf(writes, v[x].file, v[x].key) /\ IsRecordOf(writes, v[x].record, v[x].key)
               /\ Len(v[x].answers) <= 1
               /\ \A answer \in Range(v[x].answers) \ {None} :
                      /\ answer.header \in Nat /\ answer.header = answer.body
                      /\ IsFileOf(writes, answer.header, v[x].key)
    <3>1. CASE x = n
      BY <1>3, <3>1 DEF IsFileOf, IsRecordOf
    <3>2. CASE x # n
      BY <1>1, <1>3, <3>2 DEF FoundInv
    <3> QED
      BY <3>1, <3>2
  <2>2. ASSUME NEW f \in Range(s.io) \cap IOReadFunctions, f.op = "readRecord"
        PROVE  IsRecordOf(writes, f.record, v[f.r].key)
    <3>1. f.r \in DOMAIN reads
      BY <1>1 DEF ActiveReadsInv
    <3> QED
      BY <1>1, <1>3, <2>2, <3>1 DEF FoundInv
  <2> QED
    BY <2>1, <2>2 DEF FoundInv
<1> QED
  BY <1>3, <1>4, <1>5, <1>7, <1>8, <1>9, OfReads DEF ReadsOK

(* The read n is answered from memory.                                     *)
LEMMA AnswerPosted ==
    ASSUME NEW m \in Members, NEW rs, NEW w, ReadsOK(m, rs, w), NEW g \in AnswerFunctions, NEW t \in Members,
           t.pendingReads = m.pendingReads, t.activeReads = m.activeReads, t.io = m.io, t.main = Append(m.main, g),
           g.r \in DOMAIN rs, g.r \notin m.activeReads, rs[g.r].answers = <<>>,
           g.n \in DOMAIN w, w[g.n].key = rs[g.r].key,
           \A p \in DOMAIN m.pendingReads : g.r \notin Range(m.pendingReads[p]),
           \A f \in Range(m.main) \cap AnswerFunctions : f.r # g.r
    PROVE  ReadsOK(t, rs, w)
<1>1. PendingReadsInv(m, rs) /\ ActiveReadsInv(m, rs) /\ MainReadsInv(m, rs, w) /\ FoundInv(m, rs, w)
  BY DEF ReadsOK
<1>2. m.main \in Seq(MainFunctions) /\ g \in MainFunctions
  BY FieldTypes DEF MainFunctions, MainReadFunctions
<1>3. /\ Range(t.main) = Range(m.main) \cup {g}
      /\ \A C : Once(m.main, C) /\ (g \in C => Range(m.main) \cap C = {}) => Once(t.main, C)
  BY <1>2, AppendKeeps
<1>4. g \notin FinishReadFunctions /\ \A x : g \notin FinishReadOf(x) /\ (g \in AnswerOf(x) <=> x = g.r)
  BY OfReads DEF AnswerFunctions, FinishReadFunctions
<1>5. \A op, x : HasIO(t, op, x) <=> HasIO(m, op, x)
  BY DEF HasIO
<1>6. PendingReadsInv(t, rs)
  BY <1>1 DEF PendingReadsInv
<1>7. ActiveReadsInv(t, rs)
  BY <1>1, <1>5 DEF ActiveReadsInv
<1>8. MainReadsInv(t, rs, w)
  <2>1. ASSUME NEW f \in Range(t.main) \cap FinishReadFunctions
        PROVE  f.r \in t.activeReads /\ rs[f.r].activeCount = 0 /\ ~HasIO(t, "read", f.r)
    BY <1>1, <1>3, <1>4, <1>5 DEF MainReadsInv
  <2>2. ASSUME NEW f \in Range(t.main) \cap AnswerFunctions
        PROVE  /\ f.r \in DOMAIN rs /\ f.r \notin t.activeReads
               /\ rs[f.r].answers = <<>>
               /\ f.n \in DOMAIN w /\ w[f.n].key = rs[f.r].key
               /\ \A p \in DOMAIN t.pendingReads : f.r \notin Range(t.pendingReads[p])
    <3>1. CASE f = g
      BY <3>1
    <3>2. CASE f # g
      BY <1>1, <1>3, <3>2 DEF MainReadsInv
    <3> QED
      BY <3>1, <3>2
  <2>3. ASSUME NEW x \in DOMAIN rs PROVE Once(t.main, FinishReadOf(x)) /\ Once(t.main, AnswerOf(x))
    <3>1. Once(m.main, FinishReadOf(x)) /\ Once(m.main, AnswerOf(x))
      BY <1>1 DEF MainReadsInv
    <3>2. g \in AnswerOf(x) => Range(m.main) \cap AnswerOf(x) = {}
      BY <1>4, OfReads
    <3> QED
      BY <1>3, <1>4, <3>1, <3>2
  <2> QED
    BY <2>1, <2>2, <2>3 DEF MainReadsInv
<1>9. FoundInv(t, rs, w)
  BY <1>1 DEF FoundInv
<1> QED
  BY <1>6, <1>7, <1>8, <1>9 DEF ReadsOK

(* The read n is queued with priority p.                                   *)
LEMMA ReadQueued ==
    ASSUME NEW m \in Members, NEW rs, NEW w, ReadsOK(m, rs, w), NEW t \in Members,
           NEW n \in Nat, NEW p \in DOMAIN m.pendingReads,
           t.pendingReads[p] = Cons(n, m.pendingReads[p]),
           \A o \in DOMAIN m.pendingReads : o # p => t.pendingReads[o] = m.pendingReads[o],
           t.activeReads = m.activeReads, t.io = m.io, t.main = m.main,
           n \in DOMAIN rs, n \notin m.activeReads, rs[n].answers = <<>>, ~rs[n].canceled,
           \A o \in DOMAIN m.pendingReads : n \notin Range(m.pendingReads[o]),
           \A f \in Range(m.main) \cap AnswerFunctions : f.r # n
    PROVE  ReadsOK(t, rs, w)
<1>1. PendingReadsInv(m, rs) /\ ActiveReadsInv(m, rs) /\ MainReadsInv(m, rs, w) /\ FoundInv(m, rs, w)
  BY DEF ReadsOK
<1>2. DOMAIN t.pendingReads = DOMAIN m.pendingReads /\ m.pendingReads[p] \in Seq(Nat)
  BY FieldTypes
<1>3. /\ Range(t.pendingReads[p]) = Range(m.pendingReads[p]) \cup {n}
      /\ IsInjective(m.pendingReads[p]) /\ n \notin Range(m.pendingReads[p]) => IsInjective(t.pendingReads[p])
  <2> DEFINE q == m.pendingReads[p]
             c == t.pendingReads[p]
  <2>1. q \in Seq(Nat) /\ c = Cons(n, q)
    BY <1>2
  <2> HIDE DEF q, c
  <2>2. Range(c) = Range(q) \cup {n} /\ (IsInjective(q) /\ n \notin Range(q) => IsInjective(c))
    BY <2>1, ConsFacts, SMTT(40)
  <2> QED
    BY <2>2 DEF q, c
<1>4. \A o \in DOMAIN m.pendingReads : Range(t.pendingReads[o]) \subseteq Range(m.pendingReads[o]) \cup (IF o = p THEN {n} ELSE {})
  BY <1>3
<1>5. \A op, x : HasIO(t, op, x) <=> HasIO(m, op, x)
  BY DEF HasIO
<1>6. PendingReadsInv(t, rs)
  <2>1. ASSUME NEW o \in DOMAIN t.pendingReads PROVE IsInjective(t.pendingReads[o])
    BY <1>1, <1>2, <1>3 DEF PendingReadsInv
  <2>2. ASSUME NEW o \in DOMAIN t.pendingReads, NEW x \in Range(t.pendingReads[o])
        PROVE  x \in DOMAIN rs /\ x \notin t.activeReads /\ ~rs[x].canceled /\ rs[x].answers = <<>>
    <3>1. CASE x \in Range(m.pendingReads[o])
      BY <1>1, <1>2, <3>1 DEF PendingReadsInv
    <3>2. CASE x \notin Range(m.pendingReads[o])
      <4>1. x = n
        BY <1>2, <1>4, <3>2
      <4> QED
        BY <4>1
    <3> QED
      BY <3>1, <3>2
  <2>3. ASSUME NEW o \in DOMAIN t.pendingReads, NEW z \in DOMAIN t.pendingReads, o # z
        PROVE  Range(t.pendingReads[o]) \cap Range(t.pendingReads[z]) = {}
    <3>1. /\ Range(m.pendingReads[o]) \cap Range(m.pendingReads[z]) = {}
          /\ n \notin Range(m.pendingReads[o]) /\ n \notin Range(m.pendingReads[z])
      BY <1>1, <1>2, <2>3 DEF PendingReadsInv
    <3> QED
      BY <1>2, <1>4, <2>3, <3>1
  <2> QED
    BY <2>1, <2>2, <2>3 DEF PendingReadsInv
<1>7. ActiveReadsInv(t, rs)
  BY <1>1, <1>5 DEF ActiveReadsInv
<1>8. MainReadsInv(t, rs, w)
  <2>1. ASSUME NEW f \in Range(t.main) \cap AnswerFunctions
        PROVE  \A o \in DOMAIN t.pendingReads : f.r \notin Range(t.pendingReads[o])
    <3>1. f.r # n /\ \A o \in DOMAIN m.pendingReads : f.r \notin Range(m.pendingReads[o])
      BY <1>1 DEF MainReadsInv
    <3> QED
      BY <1>2, <1>4, <3>1
  <2> QED
    BY <1>1, <1>5, <2>1 DEF MainReadsInv
<1>9. FoundInv(t, rs, w)
  BY <1>1 DEF FoundInv
<1> QED
  BY <1>6, <1>7, <1>8, <1>9 DEF ReadsOK

LEMMA RetrieveStep ==
    ASSUME TypeOK, WriteInv, ReadInv, NEW k \in Keys, NEW p \in 0 .. maximumRetrievePriority, Retrieve(k, p)
    PROVE  ReadsOK(s', reads', writes)
<1> DEFINE t == s'
           v == reads'
           n == Len(reads) + 1
           e == NewRead(k)
           a == Answered(e, None)
           g(o) == [op |-> "answer", r |-> n, n |-> o]
<1>1. s \in Members /\ n = Len(reads) + 1
  BY DEF TypeOK
<1>2. /\ e \in Reads /\ e.activeCount = 0 /\ ~e.reading /\ e.file = None /\ e.record = None
      /\ e.answers = <<>> /\ ~e.canceled /\ e.key = k /\ Len(e.answers) <= 1 /\ Range(e.answers) \subseteq {None}
  <2>1. e \in Reads
    BY NewReadType
  <2>2. /\ e.activeCount = 0 /\ ~e.reading /\ e.file = None /\ e.record = None
        /\ e.answers = <<>> /\ ~e.canceled /\ e.key = k
    BY DEF NewRead
  <2>3. Len(e.answers) <= 1 /\ Range(e.answers) \subseteq {None}
    BY <2>2 DEF Range
  <2> QED
    BY <2>1, <2>2, <2>3
<1>3. /\ a \in Reads /\ a.activeCount = 0 /\ ~a.reading /\ a.file = None /\ a.record = None
      /\ Len(a.answers) <= 1 /\ Range(a.answers) \subseteq {None}
  <2>1. None \in Answers
    BY DEF Answers
  <2> HIDE DEF e
  <2>2. /\ a \in Reads /\ a.answers = Append(e.answers, None) /\ a.activeCount = e.activeCount
        /\ a.reading = e.reading /\ a.file = e.file /\ a.record = e.record
    BY <1>2, <2>1, AnsweredType
  <2>3. Len(a.answers) <= 1 /\ Range(a.answers) = {None}
    BY <1>2, <2>2, OneAnswer
  <2> QED
    BY <1>2, <2>2, <2>3
<1>4. \/ v = Append(reads, a) /\ t = s
      \/ /\ v = Append(reads, e)
         /\ \/ \E o \in InMemory(k) : t = Post(s, "main", g(o))
            \/ t = DispatchPendingReads(Queued(p), v)
  BY RetrieveCases
<1>5. ASSUME v = Append(reads, a), t = s PROVE ReadsOK(t, v, writes)
  <2> HIDE DEF t, v, n, e, a
  <2>1. ReadsOK(s, v, writes)
    BY <1>1, <1>3, <1>5, ReadAdded
  <2> QED
    BY <1>5, <2>1
<1>6. ASSUME v = Append(reads, e)
      PROVE  /\ ReadsOK(s, v, writes)
             /\ n \in Nat /\ n \in DOMAIN v /\ n \notin DOMAIN reads /\ v[n] = e
             /\ n \notin s.activeReads
             /\ \A o \in DOMAIN s.pendingReads : n \notin Range(s.pendingReads[o])
             /\ \A f \in Range(s.main) \cap AnswerFunctions : f.r # n
  <2> HIDE DEF t, v, n, e, a
  <2> QED
    BY <1>1, <1>2, <1>6, ReadAdded
<1>7. ASSUME v = Append(reads, e), NEW o \in InMemory(k), t = Post(s, "main", g(o)) PROVE ReadsOK(t, v, writes)
  <2>1. o \in DOMAIN writes /\ o \in Nat /\ writes[o].key = k
    BY InMemoryFacts
  <2>2. g(o) \in AnswerFunctions /\ g(o) \in MainFunctions /\ g(o).r = n /\ g(o).n = o
    BY <1>6, <1>7, <2>1 DEF MainFunctions, MainReadFunctions, AnswerFunctions
  <2> DEFINE h == g(o)
  <2> HIDE DEF g, h, n, e, a, t, v
  <2>3. h \in AnswerFunctions /\ h \in MainFunctions /\ h.r = n /\ h.n = o /\ t = Post(s, "main", h)
    BY <1>7, <2>2 DEF h
  <2>4. t \in Members /\ t = [s EXCEPT !.main = Append(s.main, h)]
    BY <1>1, <2>3, PostMain
  <2>5. t.pendingReads = s.pendingReads /\ t.activeReads = s.activeReads /\ t.io = s.io /\ t.main = Append(s.main, h)
    BY <1>1, <2>4 DEF Members
  <2>6. /\ h.r \in DOMAIN v /\ h.r \notin s.activeReads /\ v[h.r].answers = <<>>
        /\ h.n \in DOMAIN writes /\ writes[h.n].key = v[h.r].key
        /\ \A x \in DOMAIN s.pendingReads : h.r \notin Range(s.pendingReads[x])
        /\ \A f \in Range(s.main) \cap AnswerFunctions : f.r # h.r
        /\ ReadsOK(s, v, writes)
    BY <1>2, <1>6, <1>7, <2>1, <2>3
  <2>7. t \in Members /\ h \in AnswerFunctions
    BY <2>3, <2>4
  <2> QED
    BY <1>1, <2>5, <2>6, <2>7, AnswerPosted
<1>8. ASSUME v = Append(reads, e), t = DispatchPendingReads(Queued(p), v) PROVE ReadsOK(t, v, writes)
  <2> DEFINE m == Queued(p)
  <2>1. m = Queued(p) /\ t = DispatchPendingReads(m, v)
    BY <1>8
  <2> HIDE DEF m, n, e, a, t, v
  <2>2. /\ m \in Members
        /\ m.pendingReads[p] = Cons(n, s.pendingReads[p])
        /\ \A o \in 0 .. maximumRetrievePriority : o # p => m.pendingReads[o] = s.pendingReads[o]
        /\ m.activeReads = s.activeReads /\ m.io = s.io /\ m.main = s.main
    BY <2>1, QueuedEffect DEF n
  <2>3. DOMAIN s.pendingReads = 0 .. maximumRetrievePriority
    BY <1>1, FieldTypes
  <2>4. ReadsOK(m, v, writes)
    <3>1. /\ n \in Nat /\ p \in DOMAIN s.pendingReads /\ m \in Members /\ ReadsOK(s, v, writes)
          /\ m.pendingReads[p] = Cons(n, s.pendingReads[p])
          /\ \A o \in DOMAIN s.pendingReads : o # p => m.pendingReads[o] = s.pendingReads[o]
          /\ m.activeReads = s.activeReads /\ m.io = s.io /\ m.main = s.main
          /\ n \in DOMAIN v /\ n \notin s.activeReads /\ v[n].answers = <<>> /\ ~v[n].canceled
          /\ \A o \in DOMAIN s.pendingReads : n \notin Range(s.pendingReads[o])
          /\ \A f \in Range(s.main) \cap AnswerFunctions : f.r # n
      BY <1>2, <1>6, <1>8, <2>2, <2>3
    <3> QED
      BY <1>1, <3>1, ReadQueued
  <2> QED
    BY <2>1, <2>2, <2>4, DispatchKeepsReads
<1> HIDE DEF n, e, a, t, v
<1>9. ReadsOK(t, v, writes)
  BY <1>4, <1>5, <1>7, <1>8
<1> QED
  BY <1>9 DEF t, v

-----------------------------------------------------------------------------
(***************************************************************************)
(* The invariant.                                                          *)
(***************************************************************************)
LEMMA InitInv == Init => Inv
<1> SUFFICES ASSUME Init PROVE Inv
  OBVIOUS
<1> DEFINE y == [op |-> "synchronize"]
           P == 0 .. maximumRetrievePriority
           pr == [p \in P |-> <<>>]
           bg == <<y>>
<1>1. /\ s.recordFilter = None /\ s.bodyFilter = None /\ s.added = {} /\ s.addedBodies = {}
      /\ s.synchronizing /\ s.pendingWrites = <<>> /\ s.activeWrites = {} /\ s.pendingReads = pr
      /\ s.activeReads = {} /\ s.io = <<>> /\ s.background = bg /\ s.main = <<>>
      /\ writes = <<>> /\ reads = <<>>
  BY DEF Init
<1>2. /\ y \in SynchronizeFunctions /\ y \in BackgroundFunctions /\ y \notin WriteFunctions
  BY DEF SynchronizeFunctions, BackgroundFunctions, WriteFunctions
<1>3. s \in Members
  <2>1. pr \in [P -> Seq(Nat)]
    OBVIOUS
  <2>2. {} \in FiniteSubsetsOf(Nat)
    BY FS_EmptySet DEF FiniteSubsetsOf
  <2>3. bg \in Seq(BackgroundFunctions)
    BY <1>2
  <2>4. [k \in Keys |-> None] \in [Keys -> Files]
    BY DEF Files
  <2>5. s = [capacity |-> TRUE, recordFilter |-> None, bodyFilter |-> None, added |-> {}, addedBodies |-> {},
             synchronizing |-> TRUE, shrinking |-> FALSE, pendingWrites |-> <<>>, activeWrites |-> {},
             pendingReads |-> pr, activeReads |-> {}, writeTimer |-> FALSE, readTimer |-> FALSE,
             io |-> <<>>, background |-> bg, serial |-> <<>>, main |-> <<>>,
             wiped |-> FALSE, removed |-> [k \in Keys |-> None], calls |-> 0, shrinks |-> 0]
    BY DEF Init
  <2> DEFINE none == [k \in Keys |-> None]
  <2> HIDE DEF pr, bg, P, y, none
  <2> QED
    BY <2>1, <2>2, <2>3, <2>4, <2>5 DEF Members, Filters, P, none
<1>4. TypeOK
  <2>1. records \in [Keys -> Files] /\ bodies \in [Keys -> Files]
    BY DEF Init, Files
  <2> QED
    BY <1>1, <1>3, <2>1 DEF TypeOK
<1>5. /\ Range(s.main) = {} /\ Range(s.io) = {} /\ Range(s.pendingWrites) = {}
      /\ \A p \in DOMAIN s.pendingReads : Range(s.pendingReads[p]) = {} /\ IsInjective(s.pendingReads[p])
      /\ \A C : Once(s.main, C) /\ Once(s.io, C)
      /\ Descending(s.pendingWrites)
      /\ DOMAIN writes = {} /\ DOMAIN reads = {}
  BY <1>1 DEF Range, Once, IsInjective, Descending
<1>6. /\ Range(s.background) = {y} /\ \A C : Once(s.background, C)
      /\ \A C, D : NoneBehind(s.background, C, D)
  <2>1. DOMAIN bg = {1} /\ bg[1] = y
    OBVIOUS
  <2> HIDE DEF y, bg
  <2> QED
    BY <1>1, <2>1 DEF Range, Once, NoneBehind
<1> HIDE DEF y, P, pr, bg
<1>7. WriteInv
  <2>1. PendingInv(s, writes)
    BY <1>1, <1>5 DEF PendingInv
  <2>2. ActiveInv(s, writes)
    BY <1>2, <1>5, <1>6 DEF ActiveInv
  <2>3. RecordsInv(s, writes, records)
    <3>1. \A k \in Keys : records[k] \notin Nat \ {0}
      BY BoundsAssumption DEF Init
    <3> QED
      BY <1>5, <3>1 DEF RecordsInv
  <2> QED
    BY <2>1, <2>2, <2>3 DEF WriteInv
<1>8. DiskInv
  BY <1>1, <1>5, <1>6 DEF DiskInv, FilterInv
<1>9. ReadInv
  <2>1. PendingReadsInv(s, reads)
    BY <1>5 DEF PendingReadsInv
  <2>2. ActiveReadsInv(s, reads) /\ MainReadsInv(s, reads, writes) /\ FoundInv(s, reads, writes)
    BY <1>1, <1>5 DEF ActiveReadsInv, MainReadsInv, FoundInv
  <2> QED
    BY <2>1, <2>2 DEF ReadInv
<1> QED
  BY <1>4, <1>7, <1>8, <1>9 DEF Inv

(* The steps of the writes leave the reads alone ...                       *)
LEMMA WriteStepInv ==
    ASSUME Inv, WriteStepOK
    PROVE  Inv'
<1> DEFINE t == s'
           w == writes
           v == writes'
           m == s
           rs == reads
<1>1. ReadsOK(m, rs, w) /\ ReadsAlone(m, t) /\ SameKeys(w, v)
  BY DEF Inv, ReadInv, ReadsOK, WriteStepOK
<1>2. ReadsOK(t, rs, v)
  <2> HIDE DEF t, w, v, m, rs
  <2> QED
    BY <1>1, ReadsAloneKeeps
<1>3. reads' = rs /\ TypeOK' /\ WriteInv' /\ DiskInv'
  BY DEF WriteStepOK
<1>4. ReadInv'
  BY <1>2, <1>3 DEF ReadInv, ReadsOK
<1> QED
  BY <1>3, <1>4 DEF Inv

(* ... and those of the reads what the writes and the filters need.        *)
LEMMA ReadStepInv ==
    ASSUME Inv, TypeOK', ReadStep(s'), UNCHANGED <<writes, records, bodies>>, ReadsOK(s', reads', writes)
    PROVE  Inv'
<1>1. WriteInv' /\ DiskInv'
  BY ReadStepKeeps DEF Inv
<1>2. ReadInv'
  BY DEF ReadInv, ReadsOK
<1> QED
  BY <1>1, <1>2 DEF Inv

LEMMA ClientInv ==
    ASSUME Inv, Client
    PROVE  Inv'
<1> USE DEF Inv
<1>1. ASSUME NEW k \in Keys, Store(k) PROVE Inv'
  BY <1>1, StoreStep, WriteStepInv
<1>2. ASSUME NEW k \in Keys, RemoveKey(k) PROVE Inv'
  BY <1>2, RemoveKeyStep, WriteStepInv
<1>3. ASSUME NEW k \in Keys, NEW priority \in 0 .. maximumRetrievePriority, Retrieve(k, priority) PROVE Inv'
  BY <1>3, RetrieveType, RetrieveStep, ReadStepInv
<1>4. CASE Clear
  BY <1>4, ClearStep, WriteStepInv
<1>5. ASSUME NEW some \in BOOLEAN, SetCapacity(some) PROVE Inv'
  BY <1>5, SetCapacityStep, WriteStepInv
<1> QED
  BY <1>1, <1>2, <1>3, <1>4, <1>5 DEF Client

LEMMA NextInv == Inv /\ [Next]_vars => Inv'
<1> SUFFICES ASSUME Inv, [Next]_vars PROVE Inv'
  OBVIOUS
<1>0. TypeOK /\ WriteInv /\ DiskInv /\ ReadInv
  BY DEF Inv
<1>1. CASE Client
  BY <1>1, ClientInv
<1>2. CASE WriteTimerFires
  BY <1>0, <1>2, WriteTimerStep, WriteStepInv
<1>3. CASE ReadTimerFires
  BY <1>0, <1>3, ReadTimerType, ReadTimerStep, ReadStepInv
<1>4. CASE BodyStored
  BY <1>0, <1>4, BodyStoredStep, WriteStepInv
<1>5. CASE RetrievedFromMemory
  BY <1>0, <1>5, RetrievedType, RetrievedStep, ReadStepInv
<1>6. CASE FinishRead
  BY <1>0, <1>6, FinishReadType, FinishReadStep, ReadStepInv
<1>7. CASE Synchronized
  BY <1>0, <1>7, SynchronizedStep, WriteStepInv
<1>8. CASE Shrunk
  BY <1>0, <1>8, ShrunkStep, WriteStepInv
<1>9. CASE StoreBody
  BY <1>0, <1>9, StoreBodyStep, WriteStepInv
<1>10. CASE CreateRecord
  BY <1>0, <1>10, CreateRecordStep, WriteStepInv
<1>11. CASE SynchronizeFiles
  BY <1>0, <1>11, SynchronizeFilesStep, WriteStepInv
<1>12. CASE ShrinkFiles
  BY <1>0, <1>12, ShrinkFilesStep, WriteStepInv
<1>13. CASE OpenRecord
  BY <1>0, <1>13, OpenRecordType, OpenRecordStep, ReadStepInv
<1>14. CASE GetBody
  BY <1>0, <1>14, GetBodyType, GetBodyStep, ReadStepInv
<1>15. CASE ReadRecord
  BY <1>0, <1>15, ReadRecordType, ReadRecordStep, ReadStepInv
<1>16. CASE ClearFiles
  BY <1>0, <1>16, ClearFilesStep, WriteStepInv
<1>17. CASE DeleteFile \/ UnlinkBody
  BY <1>0, <1>17, DeleteFileStep, WriteStepInv
<1>18. ASSUME NEW n \in DOMAIN writes, WriteRecord(n) PROVE Inv'
  BY <1>0, <1>18, WriteRecordStep, WriteStepInv
<1>19. ASSUME NEW n \in DOMAIN writes, RecordWritten(n) PROVE Inv'
  BY <1>0, <1>19, RecordWrittenStep, WriteStepInv
<1>20. ASSUME NEW r \in DOMAIN reads, ReadSync(r) PROVE Inv'
  BY <1>0, <1>20, ReadSyncType, ReadSyncStep, ReadStepInv
<1>21. CASE UNCHANGED vars
  BY <1>21 DEF vars, Inv, TypeOK, WriteInv, DiskInv, ReadInv
<1> QED
  BY <1>1, <1>2, <1>3, <1>4, <1>5, <1>6, <1>7, <1>8, <1>9, <1>10, <1>11, <1>12, <1>13, <1>14, <1>15,
     <1>16, <1>17, <1>18, <1>19, <1>20, <1>21
  DEF Next, MainFunction, BackgroundFunction, IOFunction, SerialFunction

(* The members of Storage, its operations and its files keep their types   *)
(* and the invariant above, whatever the client calls and in whatever      *)
(* order the queues, threads and timers run.                               *)
THEOREM StorageInvariant == Spec => []Inv
<1>1. Init => Inv
  BY InitInv
<1>2. Inv /\ [Next]_vars => Inv'
  BY NextInv
<1> QED
  BY <1>1, <1>2, PTL DEF Spec

-----------------------------------------------------------------------------
LEMMA AnswersFollow == Inv => AnswersAreWhole
<1> SUFFICES ASSUME Inv PROVE AnswersAreWhole
  OBVIOUS
<1>1. FoundInv(s, reads, writes)
  BY DEF Inv, ReadInv
<1>2. ASSUME NEW r \in DOMAIN reads, NEW answer \in ToSet(reads[r].answers) \ {None}
      PROVE  /\ answer.header = answer.body
             /\ answer.header = 0 \/ writes[answer.header].key = reads[r].key
  <2>1. answer \in Range(reads[r].answers) \ {None}
    BY DEF ToSet, Range
  <2>2. answer.header \in Nat /\ answer.header = answer.body /\ IsFileOf(writes, answer.header, reads[r].key)
    BY <1>1, <2>1 DEF FoundInv
  <2> QED
    BY <2>2, BoundsAssumption DEF IsFileOf
<1> QED
  BY <1>1, <1>2 DEF AnswersAreWhole, FoundInv

(* Whatever the files have come to be, a completion handler runs at most   *)
(* once, and a record comes with its own body and for the key that was     *)
(* asked for (ReadOperation::cancel() and finish(), retrieveFromMemory()). *)
THEOREM AnswersAreWholeHolds == Spec => []AnswersAreWhole
  BY StorageInvariant, AnswersFollow, PTL

LEMMA OrderFollows == Inv => NoOlderWriteToCome
<1> SUFFICES ASSUME Inv, NEW k \in Keys, NEW n \in DOMAIN writes, records[k] = n,
                    NEW m \in ToSet(s.pendingWrites) \cup s.activeWrites
             PROVE  m >= n
  BY DEF NoOlderWriteToCome
<1>1. m \in Range(s.pendingWrites) \cup s.activeWrites
  BY DEF ToSet, Range
<1> QED
  BY <1>1 DEF Inv, WriteInv, RecordsInv

(* Once a store has reached its file no older one of the key is still to   *)
(* be written over it (dispatchPendingWriteOperations()).                  *)
THEOREM NoOlderWriteToComeHolds == Spec => []NoOlderWriteToCome
  BY StorageInvariant, OrderFollows, PTL

LEMMA FilterFollows == Inv => FilterCoversDisk
<1> SUFFICES ASSUME Inv, ~s.wiped, NEW k \in Keys
             PROVE  /\ Whole(records[k]) /\ s.recordFilter # None => k \in s.recordFilter
                    /\ bodies[k] # None /\ s.bodyFilter # None /\ (\A n \in s.activeWrites : writes[n].key # k)
                           => k \in s.bodyFilter
  BY DEF FilterCoversDisk
<1>1. FilterInv(s, writes, records, bodies) /\ ActiveInv(s, writes)
  BY DEF Inv, DiskInv, WriteInv
<1>2. Whole(records[k]) => HasRecord(writes, records, k)
  BY DEF Whole, HasRecord
<1>3. s.recordFilter # None /\ HasRecord(writes, records, k) => k \in s.recordFilter
  BY <1>1 DEF FilterInv, Covers
<1>4. s.bodyFilter # None /\ bodies[k] # None =>
          k \in s.bodyFilter \/ \E f \in Range(s.main) \cap BodyStoredFunctions : writes[f.n].key = k
  BY <1>1 DEF FilterInv, CoversBodies
<1>5. \A f \in Range(s.main) \cap BodyStoredFunctions : f.n \in s.activeWrites
  BY <1>1 DEF ActiveInv
<1> QED
  BY <1>2, <1>3, <1>4, <1>5

(* What is on the disk is in the filters, save from a clear() to the next  *)
(* synchronization (synchronize(), addToRecordFilter(), storeBodyAsBlob()). *)
THEOREM FilterCoversDiskHolds == Spec => []FilterCoversDisk
  BY StorageInvariant, FilterFollows, PTL
=============================================================================
