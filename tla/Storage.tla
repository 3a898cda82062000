------------------------------- MODULE Storage --------------------------------
(***************************************************************************)
(* NetworkCache::Storage (NetworkCacheStorage.cpp, with                    *)
(* NetworkCacheBlobStorage.cpp): the disk cache of the network process.    *)
(* The main thread keeps the queues of reads and writes and two filters    *)
(* that say what may be on the disk; three work queues (one thread each    *)
(* with GLib), a thread per read and the asynchronous writes of GIO touch  *)
(* the files. A record is one file; a large body is another one, a link to *)
(* a blob, so that the two can be out of step.                             *)
(*                                                                         *)
(* A record stored is known by its number; 0 stands for one that an        *)
(* earlier session has left. All bodies differ. Sizes are left out:        *)
(* whether the cache is too large is left open.                            *)
(***************************************************************************)
EXTENDS Naturals, Sequences, FiniteSets, SequencesExt

CONSTANTS
    Keys,
    maximumRetrievePriority,
    maximumActiveReadOperationCount,
    Large,          \* the stores whose body becomes a blob
    Faults,         \* which steps may fail: "map", "link", "create", "write"
    Calls,          \* what the client calls
    maxStores, maxRetrieves, maxCalls, maxShrinks,
    None, Partial

ASSUME BoundsAssumption ==
    /\ {maximumRetrievePriority, maximumActiveReadOperationCount, maxStores,
        maxRetrieves, maxCalls, maxShrinks} \subseteq Nat
    /\ Faults \subseteq {"map", "link", "create", "write"}
    /\ Calls \subseteq {"store", "retrieve", "remove", "clear", "setCapacity"}
    /\ None \notin Nat /\ Partial \notin Nat /\ None # Partial

VARIABLES
    s,          \* the members of Storage and the functions in its queues
    writes,     \* the WriteOperations, by number
    reads,      \* the ReadOperations, by number
    records,    \* the record file of each key
    bodies      \* the body link of each key

vars == <<s, writes, reads, records, bodies>>

(* The file of a record is known by the store that made it: it is whole    *)
(* once the asynchronous write has filled it, be it unlinked or not. 0 is  *)
(* a record, and Partial a file that is not whole, of an earlier session.  *)
(* How much there is in a file that is not whole is left open: the write   *)
(* fills it piece by piece, and may fail after any of them.                *)
Whole(file) == file = 0 \/ (file \in DOMAIN writes /\ writes[file].written)
MayBeEmpty(file) == file # None /\ ~Whole(file)
IsBodyInline(n) == n # 0 /\ writes[n].inline

(* The constructor begins to synchronize. The files may be what a session  *)
(* left that ended between any two steps.                                  *)
Init ==
    /\ s = [capacity |-> TRUE,              \* m_capacity is not 0
            recordFilter |-> None, bodyFilter |-> None,
            added |-> {}, addedBodies |-> {},   \* ...HashesAddedDuringSynchronization
            synchronizing |-> TRUE, shrinking |-> FALSE,
            pendingWrites |-> <<>>, activeWrites |-> {},
            pendingReads |-> [p \in 0 .. maximumRetrievePriority |-> <<>>], activeReads |-> {},
            writeTimer |-> FALSE, readTimer |-> FALSE,
            io |-> <<>>, background |-> <<[op |-> "synchronize"]>>, serial |-> <<>>, main |-> <<>>,
            wiped |-> FALSE,                \* history: cleared since the last synchronization
            removed |-> [k \in Keys |-> None],  \* history: the last store when it was removed
            calls |-> 0, shrinks |-> 0]
    /\ writes = <<>> /\ reads = <<>>
    /\ records \in [Keys -> {None, Partial, 0}]
    /\ bodies \in [Keys -> {None, 0}]
-----------------------------------------------------------------------------
(***************************************************************************)
(* What the handlers on the main thread do to the members.                 *)
(***************************************************************************)

Post(m, queue, function) == [m EXCEPT ![queue] = Append(@, function)]
At(queue, op) == s[queue] # <<>> /\ Head(s[queue]).op = op
Popped(queue) == [s EXCEPT ![queue] = Tail(@)]

Add(filter, k) == IF filter = None THEN None ELSE filter \cup {k}

AddToRecordFilter(m, k) ==
    [m EXCEPT !.recordFilter = Add(@, k),
              !.added = IF m.synchronizing THEN @ \cup {k} ELSE @]

(* The answers of mayContain(): a Bloom filter may err on one side.        *)
MayContain(m, k) ==
    IF m.recordFilter # None /\ k \notin m.recordFilter THEN BOOLEAN ELSE {TRUE}

(* Mutant: the latest write is dispatched first.                           *)
DispatchLatestWrite(m) ==
    IF m.pendingWrites = <<>> \/ m.activeWrites # {} THEN m
    ELSE LET n == Head(m.pendingWrites)
             active == [m EXCEPT !.pendingWrites = Tail(@), !.activeWrites = @ \cup {n}]
         IN  Post(AddToRecordFilter(active, writes[n].key), "background", [op |-> "write", n |-> n])

(* dispatchPendingWriteOperations() and dispatchWriteOperation(): one      *)
(* write at a time, the oldest first.                                      *)
DispatchPendingWrites(m) ==
    IF m.pendingWrites = <<>> \/ m.activeWrites # {} THEN m
    ELSE LET n == Last(m.pendingWrites)
             active == [m EXCEPT !.pendingWrites = Front(@), !.activeWrites = @ \cup {n}]
         IN  Post(AddToRecordFilter(active, writes[n].key), "background", [op |-> "write", n |-> n])

(* dispatchReadOperation(): what it dispatches. If the body filter errs    *)
(* the body is looked for in vain, which is the same as not looking.       *)
DispatchRead(m, rs, r) ==
    LET shouldGetBodyBlob == m.bodyFilter = None \/ rs[r].key \in m.bodyFilter
    IN  [op |-> "read", r |-> r, getBody |-> shouldGetBodyBlob]

(* dispatchPendingReadOperations(), with the reads rs: from the highest    *)
(* priority down, the oldest read of each priority that has one, as long   *)
(* as not too many are active.                                             *)
DispatchPendingReads(m, rs) ==
    LET waiting == {p \in DOMAIN m.pendingReads : m.pendingReads[p] # <<>>}
        Rank(p) == Cardinality({q \in waiting : q >= p})
        chosen == {p \in waiting :
                      Cardinality(m.activeReads) + Rank(p) <= maximumActiveReadOperationCount + 1}
        Chosen(i) == CHOOSE p \in chosen : Rank(p) = i
        Oldest(p) == Last(m.pendingReads[p])
    IN  [m EXCEPT !.pendingReads = [p \in DOMAIN @ |-> IF p \in chosen THEN Front(@[p]) ELSE @[p]],
                  !.activeReads = @ \cup {Oldest(p) : p \in chosen},
                  !.readTimer = @ \/ chosen # {},
                  !.io = @ \o [i \in 1 .. Cardinality(chosen) |-> DispatchRead(m, rs, Oldest(Chosen(i)))]]

(* remove(): only the latest pending write of the key goes, and a write    *)
(* that is under way goes on.                                              *)
RemoveRecord(m, k, mayContain) ==
    LET IsOfKey(n) == writes[n].key = k
        i == SelectInSeq(m.pendingWrites, IsOfKey)
        rest == IF i = 0 THEN m ELSE [m EXCEPT !.pendingWrites = RemoveAt(@, i)]
    IN  IF ~mayContain THEN m
        ELSE Post(Post(rest, "serial", [op |-> "deleteFile", k |-> k]), "serial", [op |-> "unlink", k |-> k])

Synchronize(m) ==
    IF m.synchronizing \/ m.shrinking THEN m
    ELSE Post([m EXCEPT !.synchronizing = TRUE], "background", [op |-> "synchronize"])

(* shrinkIfNeeded() when it is needed.                                     *)
Shrink(m) ==
    IF m.shrinking \/ m.synchronizing THEN m
    ELSE Post([m EXCEPT !.shrinking = TRUE, !.shrinks = @ + 1], "background", [op |-> "shrink"])

(* shrinkIfNeeded(), with the sizes left open.                             *)
ShrinkIfNeeded(m) == {m} \cup (IF m.shrinks < maxShrinks THEN {Shrink(m)} ELSE {})

(* What a completion handler is given.                                     *)
Answer(n, body) == [header |-> n, body |-> body]
Answered(r, answer) == [r EXCEPT !.answers = Append(@, answer)]
-----------------------------------------------------------------------------
(***************************************************************************)
(* The calls of the client.                                                *)
(***************************************************************************)

MayCall(call) == call \in Calls /\ Len(writes) + Len(reads) + s.calls < maxCalls
Called == [s EXCEPT !.calls = @ + 1]

Store(k) ==
    LET n == Len(writes) + 1 IN
    /\ MayCall("store") /\ n <= maxStores /\ s.capacity
    /\ writes' = Append(writes, [key |-> k, activeCount |-> 0, at |-> "memory",
                                 inline |-> FALSE, written |-> FALSE])
    /\ s' = AddToRecordFilter([s EXCEPT !.pendingWrites = Cons(n, @),
                                        !.writeTimer = @ \/ s.pendingWrites = <<>>], k)
    /\ UNCHANGED <<reads, records, bodies>>

(* retrieveFromMemory(): the latest write of the key that is pending, or   *)
(* else an active one.                                                     *)
InMemory(k) ==
    LET IsOfKey(n) == writes[n].key = k
        i == SelectInSeq(s.pendingWrites, IsOfKey)
    IN  IF i # 0 THEN {s.pendingWrites[i]} ELSE {n \in s.activeWrites : IsOfKey(n)}

Retrieve(k, priority) ==
    LET r == Len(reads) + 1
        read == [key |-> k, activeCount |-> 0, file |-> None, reading |-> FALSE,
                 record |-> None, body |-> None, canceled |-> FALSE, answers |-> <<>>]
        pending == [s EXCEPT !.pendingReads[priority] = Cons(r, @)]
    IN  /\ MayCall("retrieve") /\ r <= maxRetrieves
        /\ \/ /\ ~s.capacity \/ FALSE \in MayContain(s, k)
              /\ reads' = Append(reads, Answered(read, None))
              /\ UNCHANGED s
           \/ /\ s.capacity /\ TRUE \in MayContain(s, k)
              /\ reads' = Append(reads, read)
              /\ \/ \E n \in InMemory(k) : s' = Post(s, "main", [op |-> "answer", r |-> r, n |-> n])
                 \/ InMemory(k) = {} /\ s' = DispatchPendingReads(pending, reads')
        /\ UNCHANGED <<writes, records, bodies>>

RemoveKey(k) ==
    /\ MayCall("remove")
    /\ \E mayContain \in MayContain(s, k) :
           s' = RemoveRecord([Called EXCEPT !.removed[k] = Len(writes)], k, mayContain)
    /\ UNCHANGED <<writes, reads, records, bodies>>

Clear ==
    LET Wipe(filter) == IF filter = None THEN None ELSE {}
    IN  /\ MayCall("clear")
        /\ s' = Post([Called EXCEPT !.recordFilter = Wipe(@), !.bodyFilter = Wipe(@), !.wiped = TRUE],
                     "io", [op |-> "clear"])
        /\ UNCHANGED <<writes, reads, records, bodies>>

SetCapacity(some) ==
    /\ MayCall("setCapacity")
    /\ s' \in ShrinkIfNeeded([Called EXCEPT !.capacity = some])
    /\ UNCHANGED <<writes, reads, records, bodies>>
-----------------------------------------------------------------------------
(***************************************************************************)
(* The main thread: timers and the functions dispatched to it.             *)
(***************************************************************************)

WriteTimerFires ==
    /\ s.writeTimer
    /\ s' = DispatchPendingWrites([s EXCEPT !.writeTimer = FALSE])
    /\ UNCHANGED <<writes, reads, records, bodies>>

(* cancelAllReadOperations()                                               *)
ReadTimerFires ==
    LET pending == UNION {ToSet(s.pendingReads[p]) : p \in DOMAIN s.pendingReads}
        Cancel(r) == IF reads[r].canceled \/ r \notin s.activeReads \cup pending THEN reads[r]
                     ELSE [Answered(reads[r], None) EXCEPT !.canceled = TRUE]
    IN  /\ s.readTimer
        /\ reads' = [r \in DOMAIN reads |-> Cancel(r)]
        /\ s' = [s EXCEPT !.readTimer = FALSE, !.pendingReads = [p \in DOMAIN @ |-> <<>>]]
        /\ UNCHANGED <<writes, records, bodies>>

(* finishWriteOperation(), with the members m and the writes w before.     *)
FinishWrite(m, w, n) ==
    LET done == DispatchPendingWrites([m EXCEPT !.activeWrites = @ \ {n}])
    IN  /\ writes' = [w EXCEPT ![n].activeCount = @ - 1]
        /\ IF w[n].activeCount = 1 THEN s' \in ShrinkIfNeeded(done) ELSE s' = m
        /\ UNCHANGED <<reads, records, bodies>>

(* The function that storeBodyAsBlob() dispatches.                         *)
BodyStored ==
    /\ At("main", "bodyStored")
    /\ LET n == Head(s.main).n
           k == writes[n].key
       IN  FinishWrite([Popped("main") EXCEPT
                           !.bodyFilter = Add(@, k),
                           !.addedBodies = IF s.synchronizing THEN @ \cup {k} ELSE @], writes, n)

(* The completion of an asynchronous write comes by a source of its own.   *)
RecordWritten(n) ==
    /\ writes[n].at = "written"
    /\ FinishWrite(s, [writes EXCEPT ![n].at = "memory"], n)

RetrievedFromMemory ==
    /\ At("main", "answer")
    /\ LET answer == Head(s.main)
       IN  reads' = [reads EXCEPT ![answer.r] = Answered(@, Answer(answer.n, answer.n))]
    /\ s' = Popped("main")
    /\ UNCHANGED <<writes, records, bodies>>

(* Mutant: the body found is taken for the one of the record.              *)
ResultUnchecked(r) == IF r.record = None THEN None ELSE Answer(r.record, r.body)

(* ReadOperation::finish(): bodies are compared by their hashes.           *)
Result(r) ==
    IF r.record # None /\ (IsBodyInline(r.record) \/ r.body = r.record)
    THEN Answer(r.record, r.record) ELSE None

(* Mutant: the reads that wait are forgotten.                              *)
ReadFinishedAlone(m, rs, r) ==
    [m EXCEPT !.activeReads = @ \ {r}, !.readTimer = @ /\ m.activeReads # {r}]

ReadFinished(m, rs, r) ==
    DispatchPendingReads([m EXCEPT !.activeReads = @ \ {r}, !.readTimer = @ /\ m.activeReads # {r}], rs)

(* The function that finishReadOperation() dispatches. The client's        *)
(* handler refuses only a record that it cannot have.                      *)
FinishRead ==
    /\ At("main", "finishRead")
    /\ LET r == Head(s.main).r
           read == reads[r]
           result == IF read.canceled THEN None ELSE Result(read)
           failed == ~read.canceled /\ result = None
       IN  /\ reads' = IF read.canceled THEN reads ELSE [reads EXCEPT ![r] = Answered(@, result)]
           /\ \E mayContain \in IF failed THEN MayContain(s, read.key) ELSE {FALSE} :
                  s' = ReadFinished(RemoveRecord(Popped("main"), read.key, mayContain), reads, r)
    /\ UNCHANGED <<writes, records, bodies>>

(* The end of synchronize(): the new filters, with what was added since.   *)
Synchronized ==
    /\ At("main", "synchronized")
    /\ LET found == Head(s.main)
       IN  s' = [Popped("main") EXCEPT !.recordFilter = found.records \cup s.added,
                                       !.bodyFilter = found.bodies \cup s.addedBodies,
                                       !.added = {}, !.addedBodies = {},
                                       !.synchronizing = FALSE, !.wiped = FALSE]
    /\ UNCHANGED <<writes, reads, records, bodies>>

Shrunk ==
    /\ At("main", "shrunk")
    /\ s' = Synchronize([Popped("main") EXCEPT !.shrinking = FALSE])
    /\ UNCHANGED <<writes, reads, records, bodies>>
-----------------------------------------------------------------------------
(***************************************************************************)
(* m_backgroundIOQueue, and the asynchronous writes it starts.             *)
(***************************************************************************)

(* The function of dispatchWriteOperation() as far as storeBodyAsBlob()    *)
(* and BlobStorage::add(): a body that cannot be mapped becomes inline,    *)
(* whether the link could be made is not looked at.                        *)
StoreBody ==
    /\ At("background", "write")
    /\ LET n == Head(s.background).n
           k == writes[n].key
           next == [s EXCEPT !.background[1].op = "create"]
       IN  \/ /\ n \notin Large
              /\ writes' = [writes EXCEPT ![n].activeCount = 1, ![n].inline = TRUE]
              /\ s' = next
              /\ UNCHANGED bodies
           \/ /\ n \in Large /\ "map" \in Faults
              /\ writes' = [writes EXCEPT ![n].activeCount = 1, ![n].inline = TRUE]
              /\ s' = next
              /\ bodies' = [bodies EXCEPT ![k] = None]
           \/ /\ n \in Large
              /\ writes' = [writes EXCEPT ![n].activeCount = 2]
              /\ s' = Post(next, "main", [op |-> "bodyStored", n |-> n])
              /\ \E link \in {n} \cup (IF "link" \in Faults THEN {None} ELSE {}) :
                     bodies' = [bodies EXCEPT ![k] = link]
    /\ UNCHANGED <<reads, records>>

(* The rest of that function: IOChannel::open() deletes the file and makes *)
(* a new one, if it can.                                                   *)
CreateRecord ==
    /\ At("background", "create")
    /\ LET n == Head(s.background).n
       IN  /\ \E file \in {n} \cup (IF "create" \in Faults THEN {None} ELSE {}) :
                  records' = [records EXCEPT ![writes[n].key] = file]
           /\ writes' = [writes EXCEPT ![n].at = "created"]
    /\ s' = Popped("background")
    /\ UNCHANGED <<reads, bodies>>

(* The asynchronous write fills the file, which may be unlinked by then.   *)
WriteRecord(n) ==
    /\ writes[n].at = "created"
    /\ \E written \in {TRUE} \cup (IF "write" \in Faults THEN {FALSE} ELSE {}) :
           writes' = [writes EXCEPT ![n].at = "written", ![n].written = written]
    /\ UNCHANGED <<s, reads, records, bodies>>

(* Mutant: files without contents stay.                                    *)
KeepEmpty(k, empty) == records[k]

(* What synchronize() leaves of the file of a key.                         *)
DeleteEmpty(k, empty) == IF k \in empty THEN None ELSE records[k]

(* The function of synchronize(), which deletes the files without contents *)
(* and takes all others, whole or not, for records. Nothing else makes a   *)
(* file meanwhile, so that the order in which it finds them does not       *)
(* matter.                                                                 *)
SynchronizeFiles ==
    /\ At("background", "synchronize")
    /\ \E empty \in SUBSET {k \in Keys : MayBeEmpty(records[k])} :
           /\ records' = [k \in Keys |-> DeleteEmpty(k, empty)]
           /\ s' = Post(Popped("background"), "main",
                        [op |-> "synchronized",
                         records |-> {k \in Keys : records[k] # None} \ empty,
                         bodies |-> {k \in Keys : bodies[k] # None}])
    /\ UNCHANGED <<writes, reads, bodies>>

(* The function of shrink(), with the dice left open.                      *)
ShrinkFiles ==
    /\ At("background", "shrink")
    /\ \E deleted \in SUBSET {k \in Keys : records[k] # None} :
           /\ records' = [k \in Keys |-> IF k \in deleted THEN None ELSE records[k]]
           /\ bodies' = [k \in Keys |-> IF k \in deleted THEN None ELSE bodies[k]]
    /\ s' = Post(Popped("background"), "main", [op |-> "shrunk"])
    /\ UNCHANGED <<writes, reads>>
-----------------------------------------------------------------------------
(***************************************************************************)
(* m_ioQueue, the threads that read, and m_serialBackgroundIOQueue.        *)
(***************************************************************************)

(* The function of dispatchReadOperation() as far as IOChannel::read():    *)
(* a thread reads the file, if it could be opened.                         *)
OpenRecord ==
    /\ At("io", "read")
    /\ LET read == Head(s.io)
           file == records[reads[read.r].key]
           next == IF read.getBody THEN [s EXCEPT !.io[1].op = "getBody"] ELSE Popped("io")
       IN  /\ reads' = [reads EXCEPT ![read.r].activeCount = IF read.getBody THEN 2 ELSE 1,
                                     ![read.r].file = file, ![read.r].reading = file # None]
           /\ s' = IF file = None
                   THEN Post(next, "io", [op |-> "readRecord", r |-> read.r, record |-> None]) ELSE next
    /\ UNCHANGED <<writes, records, bodies>>

(* readSyncInThread()                                                      *)
ReadSync(r) ==
    /\ reads[r].reading
    /\ LET record == IF Whole(reads[r].file) THEN reads[r].file ELSE None
       IN  s' = Post(s, "io", [op |-> "readRecord", r |-> r, record |-> record])
    /\ reads' = [reads EXCEPT ![r].reading = FALSE]
    /\ UNCHANGED <<writes, records, bodies>>

(* finishReadOperation(), with the reads rs and their queue popped.        *)
FinishReadOperation(rs, r) ==
    /\ reads' = [rs EXCEPT ![r].activeCount = @ - 1]
    /\ s' = IF rs[r].activeCount = 1
            THEN Post(Popped("io"), "main", [op |-> "finishRead", r |-> r]) ELSE Popped("io")
    /\ UNCHANGED <<writes, records, bodies>>

(* The end of the function of dispatchReadOperation().                     *)
GetBody ==
    /\ At("io", "getBody")
    /\ LET r == Head(s.io).r
       IN  FinishReadOperation([reads EXCEPT ![r].body = bodies[reads[r].key]], r)

(* readRecord(): what is cut short or spoilt does not pass the checksums.  *)
ReadRecord ==
    /\ At("io", "readRecord")
    /\ LET r == Head(s.io).r
       IN  FinishReadOperation([reads EXCEPT ![r].record = Head(s.io).record], r)

(* The function of clear(), with the times of modification left open.      *)
ClearFiles ==
    /\ At("io", "clear")
    /\ \E kept, keptBodies \in SUBSET Keys :
           /\ records' = [k \in Keys |-> IF k \in kept THEN records[k] ELSE None]
           /\ bodies' = [k \in Keys |-> IF k \in keptBodies THEN bodies[k] ELSE None]
    /\ s' = Popped("io")
    /\ UNCHANGED <<writes, reads>>

(* The function of remove(), in its two steps.                             *)
DeleteFile ==
    /\ At("serial", "deleteFile")
    /\ records' = [records EXCEPT ![Head(s.serial).k] = None]
    /\ s' = Popped("serial")
    /\ UNCHANGED <<writes, reads, bodies>>

UnlinkBody ==
    /\ At("serial", "unlink")
    /\ bodies' = [bodies EXCEPT ![Head(s.serial).k] = None]
    /\ s' = Popped("serial")
    /\ UNCHANGED <<writes, reads, records>>
-----------------------------------------------------------------------------
Client ==
    \/ \E k \in Keys : Store(k) \/ RemoveKey(k)
    \/ \E k \in Keys, priority \in 0 .. maximumRetrievePriority : Retrieve(k, priority)
    \/ Clear
    \/ \E some \in BOOLEAN : SetCapacity(some)

MainFunction == BodyStored \/ RetrievedFromMemory \/ FinishRead \/ Synchronized \/ Shrunk
BackgroundFunction == StoreBody \/ CreateRecord \/ SynchronizeFiles \/ ShrinkFiles
IOFunction == OpenRecord \/ GetBody \/ ReadRecord \/ ClearFiles
SerialFunction == DeleteFile \/ UnlinkBody

Next ==
    \/ Client
    \/ WriteTimerFires \/ ReadTimerFires \/ MainFunction
    \/ BackgroundFunction \/ IOFunction \/ SerialFunction
    \/ \E n \in DOMAIN writes : WriteRecord(n) \/ RecordWritten(n)
    \/ \E r \in DOMAIN reads : ReadSync(r)

Spec == Init /\ [][Next]_vars

(* The run loop, the queues and the disk go on; the client need not call,  *)
(* and reads need not be slow.                                             *)
FairSpec ==
    /\ Spec
    /\ WF_vars(MainFunction) /\ WF_vars(WriteTimerFires)
    /\ WF_vars(BackgroundFunction) /\ WF_vars(IOFunction) /\ WF_vars(SerialFunction)
    /\ \A n \in 1 .. maxStores :
           /\ WF_vars(n \in DOMAIN writes /\ WriteRecord(n))
           /\ WF_vars(n \in DOMAIN writes /\ RecordWritten(n))
    /\ \A r \in 1 .. maxRetrieves : WF_vars(r \in DOMAIN reads /\ ReadSync(r))
-----------------------------------------------------------------------------
(* Whatever the files have come to be, a completion handler runs at most   *)
(* once, timeout or not, and a record comes with the body that was stored  *)
(* with it, for the key that was asked for (cancel(), finish(),            *)
(* retrieveFromMemory()).                                                  *)
AnswersAreWhole ==
    \A r \in DOMAIN reads :
        /\ Len(reads[r].answers) <= 1
        /\ \A answer \in ToSet(reads[r].answers) \ {None} :
               /\ answer.header = answer.body
               /\ answer.header = 0 \/ writes[answer.header].key = reads[r].key

(* Once a store has reached its file no older one of the key is still to   *)
(* be written over it (dispatchPendingWriteOperations(): the oldest first, *)
(* one at a time).                                                         *)
NoOlderWriteToCome ==
    \A k \in Keys, n \in DOMAIN writes :
        records[k] = n =>
            \A m \in ToSet(s.pendingWrites) \cup s.activeWrites : writes[m].key = k => m >= n

(* What is on the disk can be found: a record is in the filter, and so is  *)
(* a body once its write is over. This leaves out the time from a clear()  *)
(* to the next synchronization (synchronize(), addToRecordFilter() and     *)
(* storeBodyAsBlob()).                                                     *)
FilterCoversDisk ==
    s.wiped \/ \A k \in Keys :
        /\ Whole(records[k]) /\ s.recordFilter # None => k \in s.recordFilter
        /\ bodies[k] # None /\ s.bodyFilter # None /\ (\A n \in s.activeWrites : writes[n].key # k)
               => k \in s.bodyFilter

(* When the client has ceased to call, everything comes to an end: every   *)
(* retrieve is answered, every store has left the queues and the filters   *)
(* are up to date (dispatchPendingReadOperations(), the delayed start of   *)
(* writes in store(), synchronize() and shrink() that wait for each other). *)
OperationsFinish ==
    <>[](/\ \A r \in DOMAIN reads : reads[r].answers # <<>>
         /\ s.pendingWrites = <<>> /\ s.activeWrites = {} /\ s.activeReads = {}
         /\ ~s.synchronizing /\ ~s.shrinking)

(* NetworkCache.cpp:414 says of the call of remove(): "Make sure we don't  *)
(* keep a stale entry in the cache." When everything has been carried out, *)
(* what was stored before the key was removed is not on the disk.          *)
NoStaleEntry ==
    \/ s.main \o s.background \o s.io \o s.serial \o s.pendingWrites # <<>> \/ s.activeWrites # {}
    \/ \A k \in Keys : Whole(records[k]) /\ s.removed[k] # None => records[k] > s.removed[k]
===============================================================================
