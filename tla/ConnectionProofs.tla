-------------------------- MODULE ConnectionProofs ---------------------------
(***************************************************************************)
(* Proofs about Connection, for any processes and connections between      *)
(* them, any operations of their clients and any size of the sockets: the  *)
(* types, the stack of pending replies against the calls on the main       *)
(* thread's stack, and the wake-ups.                                       *)
(***************************************************************************)
EXTENDS Connection, SequenceFacts

(***************************************************************************)
(* Types.                                                                  *)
(***************************************************************************)

Tasks == {"sendOutgoingMessages", "platformInvalidate", "connectionDidClose"}
PendingReplies == [id : Nat, reply : BOOLEAN]
SecondaryReplies == [id : Nat, reply : BOOLEAN, signalled : BOOLEAN]

Connections ==
    [client : BOOLEAN, connected : BOOLEAN, shouldWait : BOOLEAN,
     incoming : Seq(Message), outgoing : Seq(Message),
     pending : Seq(PendingReplies), secondary : SUBSET SecondaryReplies,
     waiting : WaitForMessageState \cup {None}, lastID : Nat, tasks : Seq(Tasks),
     thread : {"idle", "sending", "closing"}, sent : Nat, told : Nat]

Mine(p) == {c \in Endpoints : processOf[c] = p}

(* Only messages that break into waits are ever listed to be dispatched    *)
(* while waiting.                                                          *)
FlaggedMessages == {m \in Message : m.flagged}
Entries(p) == [c : Mine(p), m : FlaggedMessages]
RunLoopFunctions(p) == [op : {"dispatchOneMessage", "dispatchMessages", "didClose"}, c : Mine(p)]

HandleFrames(p) == [op : {"handle"}, at : {""}, c : Mine(p), m : Message]
SyncFrames(p) ==
    [op : {"sync"}, at : {"dispatch", "check", "wait", "return"}, c : Mine(p), id : Nat, ok : BOOLEAN]
DispatchFrames(p) ==
    [op : {"dispatch"}, at : {""}, allowed : Mine(p) \cup {None}, rest : Seq(Entries(p)), back : Seq(Entries(p))]
ResetFrames(p) == [op : {"dispatchMessages"}, at : {""}, c : Mine(p)]
WaitFrames(p) ==
    [op : {"wait"}, at : {"register", "check", "asleep", "notified", "timedOut"}, c : Mine(p),
     name : Names, interrupt : BOOLEAN]
Frames(p) ==
    HandleFrames(p) \cup SyncFrames(p) \cup DispatchFrames(p) \cup ResetFrames(p) \cup WaitFrames(p)

States(p) ==
    [alive : BOOLEAN, stack : Seq(Frames(p)), runLoop : Seq(RunLoopFunctions(p)),
     toDispatch : Seq(Entries(p)), scheduled : SUBSET Mine(p), semaphore : BOOLEAN,
     done : 0 .. maxOperations[p]]

TypeInv ==
    /\ conn \in [Endpoints -> Connections]
    /\ DOMAIN proc = Processes /\ \A p \in Processes : proc[p] \in States(p)
    /\ socket \in [Endpoints -> Seq(Message)] /\ \A c \in Endpoints : Len(socket[c]) <= capacity
    /\ DOMAIN calls = Endpoints

LEMMA MineFacts ==
    /\ \A c \in Endpoints : processOf[c] \in Processes /\ c \in Mine(processOf[c])
                            /\ peerOf[c] \in Endpoints /\ peerOf[c] # c /\ peerOf[peerOf[c]] = c
    /\ \A p, c : c \in Mine(p) <=> c \in Endpoints /\ processOf[c] = p
    /\ \A p : None \notin Mine(p)
<1>1. ASSUME NEW c \in Endpoints
      PROVE  /\ processOf[c] \in Processes /\ c \in Mine(processOf[c])
             /\ peerOf[c] \in Endpoints /\ peerOf[c] # c /\ peerOf[peerOf[c]] = c
  BY TopologyAssumption DEF Mine
<1>2. \A p, c : c \in Mine(p) <=> c \in Endpoints /\ processOf[c] = p
  BY DEF Mine
<1>3. \A p : None \notin Mine(p)
  BY BoundsAssumption DEF Mine
<1> QED
  BY <1>1, <1>2, <1>3
-----------------------------------------------------------------------------
(***************************************************************************)
(* The inductive invariant, written for one connection, k, and the process *)
(* it belongs to, q.                                                       *)
(***************************************************************************)

IsSync(f, c) == f.op = "sync" /\ f.c = c

(* The calls on c that are under way on a stack, and the replies that are  *)
(* pending: the same requests, the latest on top.                          *)
CallsOn(stack, c) == {i \in DOMAIN stack : IsSync(stack[i], c)}
CallIDs(stack, c) == {stack[i].id : i \in CallsOn(stack, c)}
CallsNest(stack, c) == \A i, j \in CallsOn(stack, c) : i < j => stack[j].id < stack[i].id
PendingIDs(pending) == {pending[i].id : i \in DOMAIN pending}
PendingNest(pending) == \A i, j \in DOMAIN pending : i < j => pending[i].id < pending[j].id

Matches(pending, stack, c) ==
    /\ PendingNest(pending) /\ CallsNest(stack, c)
    /\ PendingIDs(pending) = CallIDs(stack, c)

IDsInv(k) ==
    /\ \A id \in PendingIDs(k.pending) : id \in 1 .. k.lastID
    /\ \A s \in k.secondary : s.id \in 1 .. k.lastID /\ s.id \notin PendingIDs(k.pending)
    /\ \A s, u \in k.secondary : s.id = u.id => s = u

(* A dispatch is scheduled once, and is in the set of those scheduled.     *)
DispatchesOf(c) == {[op |-> "dispatchMessages", c |-> c]}
ScheduleInv(q, c) ==
    /\ Once(q.runLoop, DispatchesOf(c))
    /\ Range(q.runLoop) \cap DispatchesOf(c) # {} => c \in q.scheduled

(* A main thread that waits for a message is the one that is registered.   *)
Registered(q, c) ==
    q.stack # <<>> /\ Head(q.stack).op = "wait" /\ Head(q.stack).c = c /\ Head(q.stack).at # "register"
Asleep(q, c) == Registered(q, c) /\ Head(q.stack).at = "asleep"
WaitInv(k, q, c) ==
    /\ k.waiting # None <=> Registered(q, c)
    /\ Asleep(q, c) => k.waiting.decoder = None

(* A main thread that sleeps without a signal to come has no reply and an  *)
(* open connection.                                                        *)
SleepsOn(q, c) ==
    q.stack # <<>> /\ IsSync(Head(q.stack), c) /\ Head(q.stack).at = "wait" /\ ~q.semaphore
WakeInv(k, q, c) == SleepsOn(q, c) => ~Last(k.pending).reply /\ k.shouldWait

SignalInv(k) == \A s \in k.secondary : s.reply \/ ~k.shouldWait => s.signalled
ToldInv(k) == k.told <= 1 /\ (k.client => k.told = 0)

LocalInv(k, q, c) ==
    /\ Matches(k.pending, q.stack, c) /\ IDsInv(k) /\ ScheduleInv(q, c)
    /\ WaitInv(k, q, c) /\ WakeInv(k, q, c) /\ SignalInv(k) /\ ToldInv(k)

(* Only these have another call on top of them.                            *)
Covered(f) == f.op \in {"handle", "dispatch"} \/ (f.op = "sync" /\ f.at = "check")

ProcessInv(q) ==
    /\ \A i \in DOMAIN q.stack : i # 1 => Covered(q.stack[i])
    /\ ~q.alive => q.stack = <<>> /\ q.runLoop = <<>>

Inv ==
    /\ TypeInv
    /\ \A c \in Endpoints : LocalInv(conn[c], proc[processOf[c]], c)
    /\ \A p \in Processes : ProcessInv(proc[p])
-----------------------------------------------------------------------------
(***************************************************************************)
(* Stacks.                                                                 *)
(***************************************************************************)

LEMMA FrameFacts ==
    ASSUME NEW p, NEW f \in Frames(p)
    PROVE  /\ f.op = "handle" => f \in HandleFrames(p)
           /\ f.op = "sync" => f \in SyncFrames(p) /\ f.id \in Nat
           /\ f.op = "dispatch" => f \in DispatchFrames(p)
           /\ f.op = "dispatchMessages" => f \in ResetFrames(p)
           /\ f.op = "wait" => f \in WaitFrames(p)
           /\ f.op \in {"handle", "sync", "dispatch", "dispatchMessages", "wait"}
           /\ f.op \in {"handle", "sync", "dispatchMessages", "wait"} => f.c \in Mine(p)
  BY DEF Frames, HandleFrames, SyncFrames, DispatchFrames, ResetFrames, WaitFrames

(* r is q with e on top.                                                   *)
Stacked(r, e, q) ==
    /\ r # <<>> /\ Head(r) = e
    /\ 1 \in DOMAIN r /\ r[1] = e
    /\ \A i \in DOMAIN q : i + 1 \in DOMAIN r \ {1} /\ r[i + 1] = q[i] /\ i \in Nat
    /\ \A i \in DOMAIN r : i \in Nat /\ i >= 1
    /\ \A i \in DOMAIN r \ {1} : i - 1 \in DOMAIN q /\ r[i] = q[i - 1]
    /\ Len(r) = Len(q) + 1 /\ Len(q) \in Nat

LEMMA ConsPlaces ==
    ASSUME NEW S, NEW q \in Seq(S), NEW e \in S
    PROVE  Cons(e, q) \in Seq(S) /\ Stacked(Cons(e, q), e, q) /\ Tail(Cons(e, q)) = q
<1> DEFINE r == Cons(e, q)
<1>1. <<e>> \in Seq(S) /\ Len(<<e>>) = 1 /\ <<e>>[1] = e
  OBVIOUS
<1>2. r = <<e>> \o q
  BY DEF Cons
<1>3. r \in Seq(S) /\ Len(r) = 1 + Len(q) /\ Len(q) \in Nat
  BY <1>1, <1>2, ConcatProperties, LenProperties
<1>4. \A i \in 1 .. 1 + Len(q) : r[i] = IF i <= 1 THEN e ELSE q[i - 1]
  BY <1>1, <1>2, ConcatProperties
<1>5. DOMAIN r = 1 .. 1 + Len(q) /\ DOMAIN q = 1 .. Len(q)
  BY <1>3, LenProperties
<1>6. r[1] = e /\ r # <<>> /\ Head(r) = e
  BY <1>3, <1>4
<1>7. Tail(r) = q
  <2>1. Tail(r) \in Seq(S) /\ Len(Tail(r)) = Len(q) /\ \A i \in 1 .. Len(q) : Tail(r)[i] = r[i + 1]
    BY <1>3, <1>6
  <2>2. \A i \in 1 .. Len(q) : Tail(r)[i] = q[i]
    BY <2>1, <1>3, <1>4
  <2> HIDE DEF r
  <2> QED
    BY <2>1, <2>2, SeqEqual
<1> HIDE DEF r
<1>8. /\ \A i \in DOMAIN q : i + 1 \in DOMAIN r \ {1} /\ r[i + 1] = q[i] /\ i \in Nat
      /\ \A i \in DOMAIN r : i \in Nat /\ i >= 1
      /\ \A i \in DOMAIN r \ {1} : i - 1 \in DOMAIN q /\ r[i] = q[i - 1]
  BY <1>3, <1>4, <1>5
<1>9. r \in Seq(S) /\ r # <<>> /\ Len(r) = Len(q) + 1 /\ Len(q) \in Nat /\ 1 \in DOMAIN r /\ r[1] = e /\ Head(r) = e
  BY <1>3, <1>5, <1>6
<1> QED
  BY <1>7, <1>8, <1>9 DEF r, Stacked

LEMMA TopPlaces ==
    ASSUME NEW S, NEW q \in Seq(S), q # <<>>, NEW e \in S
    PROVE  /\ [q EXCEPT ![1] = e] \in Seq(S) /\ [q EXCEPT ![1] = e] # <<>>
           /\ DOMAIN [q EXCEPT ![1] = e] = DOMAIN q /\ Len([q EXCEPT ![1] = e]) = Len(q)
           /\ Head([q EXCEPT ![1] = e]) = e
           /\ 1 \in DOMAIN q /\ Head(q) = q[1] /\ q[1] \in S
           /\ \A i \in DOMAIN q : [q EXCEPT ![1] = e][i] = IF i = 1 THEN e ELSE q[i]
<1> DEFINE r == [q EXCEPT ![1] = e]
<1>1. Len(q) \in Nat /\ Len(q) >= 1 /\ DOMAIN q = 1 .. Len(q) /\ 1 \in 1 .. Len(q)
  BY LenProperties, EmptySeq
<1>2. /\ r \in Seq(S) /\ Len(r) = Len(q)
      /\ \A j \in 1 .. Len(q) : r[j] = IF j = 1 THEN e ELSE q[j]
  BY <1>1, ExceptSeq
<1>3. Head(q) = q[1] /\ q[1] \in S
  BY <1>1
<1> HIDE DEF r
<1>4. DOMAIN r = DOMAIN q /\ r # <<>> /\ Head(r) = r[1]
  BY <1>1, <1>2, LenProperties
<1> QED
  BY <1>1, <1>2, <1>3, <1>4 DEF r

LEMMA Arithmetic ==
    /\ \A i \in Nat : i + 1 # 1 => 1 < i + 1
    /\ \A i, j \in Nat : i < j => i # j
  OBVIOUS

LEMMA CallsPush ==
    ASSUME NEW p, NEW st \in Seq(Frames(p)), NEW f \in Frames(p), NEW c, NEW r, r = Cons(f, st)
    PROVE  /\ ~IsSync(f, c) => CallIDs(r, c) = CallIDs(st, c) /\ (CallsNest(st, c) => CallsNest(r, c))
           /\ IsSync(f, c) => /\ CallIDs(r, c) = CallIDs(st, c) \cup {f.id}
                              /\ CallsNest(st, c) /\ (\A id \in CallIDs(st, c) : id < f.id) => CallsNest(r, c)
<1>1. /\ 1 \in DOMAIN r /\ r[1] = f
      /\ \A i \in DOMAIN st : i + 1 \in DOMAIN r \ {1} /\ r[i + 1] = st[i] /\ i \in Nat
      /\ \A i \in DOMAIN r : i \in Nat /\ i >= 1
      /\ \A i \in DOMAIN r \ {1} : i - 1 \in DOMAIN st /\ r[i] = st[i - 1]
  <2>1. Stacked(r, f, st)
    BY ConsPlaces
  <2> QED
    BY <2>1 DEF Stacked
<1>2. /\ \A i \in CallsOn(st, c) : i + 1 \in CallsOn(r, c) /\ r[i + 1] = st[i] /\ i \in Nat
      /\ \A i \in CallsOn(r, c) : i = 1 \/ (i - 1 \in CallsOn(st, c) /\ r[i] = st[i - 1])
      /\ \A i \in CallsOn(r, c) : i \in Nat /\ i >= 1
      /\ 1 \in CallsOn(r, c) <=> IsSync(f, c)
  BY <1>1 DEF CallsOn
<1>3. ASSUME NEW x PROVE x \in CallIDs(r, c) <=> x \in CallIDs(st, c) \/ (IsSync(f, c) /\ x = f.id)
  BY <1>1, <1>2 DEF CallIDs
<1>4. ASSUME CallsNest(st, c), IsSync(f, c) => \A id \in CallIDs(st, c) : id < f.id
      PROVE  CallsNest(r, c)
  <2> SUFFICES ASSUME NEW i \in CallsOn(r, c), NEW j \in CallsOn(r, c), i < j PROVE r[j].id < r[i].id
    BY DEF CallsNest
  <2>1. j # 1 /\ j - 1 \in CallsOn(st, c) /\ r[j] = st[j - 1]
    BY <1>2
  <2>2. CASE i = 1
    BY <2>1, <2>2, <1>1, <1>2, <1>4 DEF CallIDs
  <2>3. CASE i # 1
    <3>1. i - 1 \in CallsOn(st, c) /\ r[i] = st[i - 1] /\ i - 1 < j - 1
      BY <2>3, <1>2
    <3> QED
      BY <3>1, <2>1, <1>4 DEF CallsNest
  <2> QED
    BY <2>2, <2>3
<1> QED
  BY <1>3, <1>4

LEMMA CallsPop ==
    ASSUME NEW p, NEW st \in Seq(Frames(p)), st # <<>>, NEW c, NEW r, r = Tail(st)
    PROVE  /\ ~IsSync(Head(st), c) => CallIDs(r, c) = CallIDs(st, c)
           /\ CallsNest(st, c) => CallsNest(r, c)
           /\ IsSync(Head(st), c) /\ CallsNest(st, c) => CallIDs(r, c) = CallIDs(st, c) \ {Head(st).id}
<1>1. /\ \A i \in DOMAIN r : i + 1 \in DOMAIN st \ {1} /\ r[i] = st[i + 1] /\ i \in Nat
      /\ \A i \in DOMAIN st \ {1} : i - 1 \in DOMAIN r /\ r[i - 1] = st[i]
      /\ \A i \in DOMAIN st : i \in Nat
      /\ 1 \in DOMAIN st /\ Head(st) = st[1]
  BY TailPlaces
<1>2. /\ \A i \in CallsOn(r, c) : i + 1 \in CallsOn(st, c) \ {1} /\ r[i] = st[i + 1] /\ i \in Nat
      /\ \A i \in CallsOn(st, c) : i = 1 \/ (i - 1 \in CallsOn(r, c) /\ r[i - 1] = st[i])
      /\ 1 \in CallsOn(st, c) <=> IsSync(Head(st), c)
  BY <1>1 DEF CallsOn
<1>3. ~IsSync(Head(st), c) => CallIDs(r, c) = CallIDs(st, c)
  <2> SUFFICES ASSUME ~IsSync(Head(st), c) PROVE CallIDs(r, c) = CallIDs(st, c)
    OBVIOUS
  <2>1. ASSUME NEW x \in CallIDs(r, c) PROVE x \in CallIDs(st, c)
    <3>1. PICK i \in CallsOn(r, c) : x = r[i].id
      BY DEF CallIDs
    <3>2. i + 1 \in CallsOn(st, c) /\ x = st[i + 1].id
      BY <3>1, <1>2
    <3> QED
      BY <3>2 DEF CallIDs
  <2>2. ASSUME NEW x \in CallIDs(st, c) PROVE x \in CallIDs(r, c)
    <3>1. PICK i \in CallsOn(st, c) : x = st[i].id
      BY DEF CallIDs
    <3>2. i - 1 \in CallsOn(r, c) /\ x = r[i - 1].id
      BY <3>1, <1>2
    <3> QED
      BY <3>2 DEF CallIDs
  <2> QED
    BY <2>1, <2>2
<1>4. CallsNest(st, c) => CallsNest(r, c)
  <2> SUFFICES ASSUME CallsNest(st, c), NEW i \in CallsOn(r, c), NEW j \in CallsOn(r, c), i < j
               PROVE r[j].id < r[i].id
    BY DEF CallsNest
  <2>1. i + 1 < j + 1
    BY <1>2
  <2> QED
    BY <2>1, <1>2 DEF CallsNest
<1>5. ASSUME IsSync(Head(st), c), CallsNest(st, c) PROVE CallIDs(r, c) = CallIDs(st, c) \ {Head(st).id}
  <2>1. 1 \in CallsOn(st, c) /\ Head(st) = st[1]
    BY <1>1, <1>2, <1>5
  <2>2. ASSUME NEW i \in CallsOn(r, c) PROVE r[i].id # Head(st).id
    <3>0. i + 1 \in CallsOn(st, c) /\ i + 1 # 1 /\ r[i] = st[i + 1] /\ i \in Nat
      BY <1>2
    <3>1. i + 1 \in CallsOn(st, c) /\ 1 < i + 1 /\ r[i] = st[i + 1]
      BY <3>0, Arithmetic, Zenon
    <3>2. st[i + 1] \in Frames(p) /\ st[1] \in Frames(p) /\ st[i + 1].op = "sync" /\ st[1].op = "sync"
      BY <3>1, <2>1 DEF CallsOn, IsSync
    <3>3. st[i + 1].id \in Nat /\ st[1].id \in Nat
      BY <3>2, FrameFacts
    <3>4. st[i + 1].id < st[1].id
      BY <3>1, <2>1, <1>5 DEF CallsNest
    <3> QED
      BY <3>1, <3>3, <3>4, <2>1, Arithmetic, Zenon
  <2>3. ASSUME NEW x PROVE x \in CallIDs(r, c) <=> x \in CallIDs(st, c) /\ x # Head(st).id
    <3>1. ASSUME x \in CallIDs(r, c) PROVE x \in CallIDs(st, c) /\ x # Head(st).id
      <4>1. PICK i \in CallsOn(r, c) : x = r[i].id
        BY <3>1 DEF CallIDs
      <4>2. i + 1 \in CallsOn(st, c) /\ x = st[i + 1].id
        BY <4>1, <1>2
      <4> QED
        BY <4>1, <4>2, <2>2 DEF CallIDs
    <3>2. ASSUME x \in CallIDs(st, c), x # Head(st).id PROVE x \in CallIDs(r, c)
      <4>1. PICK i \in CallsOn(st, c) : x = st[i].id
        BY <3>2 DEF CallIDs
      <4>2. i - 1 \in CallsOn(r, c) /\ x = r[i - 1].id
        BY <4>1, <1>2, <2>1, <3>2
      <4> QED
        BY <4>2 DEF CallIDs
    <3> QED
      BY <3>1, <3>2
  <2> QED
    BY <2>3
<1> QED
  BY <1>3, <1>4, <1>5

LEMMA CallsGoOn ==
    ASSUME NEW p, NEW st \in Seq(Frames(p)), st # <<>>, NEW f \in Frames(p), NEW c, NEW r, r = [st EXCEPT ![1] = f],
           IsSync(f, c) <=> IsSync(Head(st), c), IsSync(f, c) => f.id = Head(st).id
    PROVE  CallIDs(r, c) = CallIDs(st, c) /\ (CallsNest(st, c) => CallsNest(r, c))
<1>1. /\ DOMAIN r = DOMAIN st /\ 1 \in DOMAIN st /\ Head(st) = st[1]
      /\ \A i \in DOMAIN st : r[i] = IF i = 1 THEN f ELSE st[i]
  BY TopPlaces
<1>2. CallsOn(r, c) = CallsOn(st, c)
  BY <1>1 DEF CallsOn
<1>3. \A i \in CallsOn(st, c) : r[i].id = st[i].id
  BY <1>1 DEF CallsOn
<1>4. CallIDs(r, c) = CallIDs(st, c)
  BY <1>2, <1>3 DEF CallIDs
<1> QED
  BY <1>2, <1>3, <1>4 DEF CallsNest

(* The request on top of the stack is the one whose reply is looked at.    *)
LEMMA TopCall ==
    ASSUME NEW p, NEW st \in Seq(Frames(p)), st # <<>>, NEW c, IsSync(Head(st), c),
           NEW pending \in Seq(PendingReplies), Matches(pending, st, c)
    PROVE  pending # <<>> /\ Last(pending) = pending[Len(pending)] /\ Len(pending) \in DOMAIN pending
           /\ Last(pending).id = Head(st).id /\ Last(pending) \in PendingReplies
<1> DEFINE n == Len(pending)
<1>1. /\ 1 \in DOMAIN st /\ Head(st) = st[1] /\ \A i \in DOMAIN st : i \in Nat /\ i >= 1
  BY TailPlaces, LenProperties
<1>2. 1 \in CallsOn(st, c) /\ Head(st).id \in CallIDs(st, c)
  BY <1>1 DEF CallsOn, CallIDs
<1>3. PICK i \in DOMAIN pending : pending[i].id = Head(st).id
  BY <1>2 DEF Matches, PendingIDs
<1>4. /\ DOMAIN pending = 1 .. n /\ n \in Nat /\ n \in DOMAIN pending /\ i \in 1 .. n
      /\ pending # <<>> /\ Last(pending) = pending[n] /\ Last(pending) \in PendingReplies
  <2>1. DOMAIN pending = 1 .. n /\ n \in Nat
    BY LenProperties
  <2>2. i \in 1 .. n /\ n \in 1 .. n
    BY <2>1
  <2> QED
    BY <2>1, <2>2 DEF Last
<1>5. pending[n].id \in CallIDs(st, c)
  BY <1>4 DEF Matches, PendingIDs
<1>6. PICK j \in CallsOn(st, c) : st[j].id = pending[n].id
  BY <1>5 DEF CallIDs
<1>7. pending[n].id \in Nat /\ pending[i].id \in Nat
  <2>1. pending[n] \in PendingReplies /\ pending[i] \in PendingReplies
    BY <1>4
  <2> QED
    BY <2>1 DEF PendingReplies
<1>8. pending[n].id <= Head(st).id
  BY <1>1, <1>2, <1>6, <1>7, <1>3 DEF Matches, CallsNest, CallsOn
<1>9. pending[i].id <= pending[n].id
  BY <1>4, <1>7 DEF Matches, PendingNest
<1> QED
  BY <1>3, <1>4, <1>7, <1>8, <1>9

LEMMA PendingPush ==
    ASSUME NEW pending \in Seq(PendingReplies), NEW x \in PendingReplies, NEW r, r = Append(pending, x)
    PROVE  /\ r \in Seq(PendingReplies) /\ PendingIDs(r) = PendingIDs(pending) \cup {x.id}
           /\ PendingNest(pending) /\ (\A id \in PendingIDs(pending) : id < x.id) => PendingNest(r)
<1>1. /\ DOMAIN r = DOMAIN pending \cup {Len(pending) + 1}
      /\ Len(pending) + 1 \notin DOMAIN pending
      /\ \A i \in DOMAIN pending : r[i] = pending[i] /\ i \in Nat /\ i <= Len(pending) + 1
      /\ r[Len(pending) + 1] = x
      /\ Len(pending) + 1 \in Nat
  BY AppendPlaces
<1>2. r \in Seq(PendingReplies)
  BY AppendFacts
<1>3. PendingIDs(r) = PendingIDs(pending) \cup {x.id}
  BY <1>1 DEF PendingIDs
<1> QED
  BY <1>1, <1>2, <1>3 DEF PendingNest, PendingIDs

LEMMA PendingPop ==
    ASSUME NEW pending \in Seq(PendingReplies), pending # <<>>, NEW r, r = Front(pending), PendingNest(pending)
    PROVE  /\ r \in Seq(PendingReplies) /\ PendingIDs(r) = PendingIDs(pending) \ {Last(pending).id}
           /\ PendingNest(r)
           /\ \A i \in DOMAIN r : i \in DOMAIN pending /\ r[i] = pending[i]
<1> DEFINE n == Len(pending)
<1>1. n \in Nat /\ n >= 1 /\ DOMAIN pending = 1 .. n /\ Last(pending) = pending[n]
  BY LenProperties, EmptySeq DEF Last
<1>2. r = SubSeq(pending, 1, n - 1)
  BY DEF Front
<1>3. r \in Seq(PendingReplies) /\ Len(r) = n - 1 /\ \A i \in 1 .. n - 1 : r[i] = pending[i]
  BY <1>1, <1>2
<1>4. DOMAIN r = 1 .. n - 1
  BY <1>3, LenProperties
<1>5. \A i \in DOMAIN r : i \in DOMAIN pending /\ r[i] = pending[i] /\ i < n
  BY <1>1, <1>3, <1>4
<1>6. ASSUME NEW i \in DOMAIN pending PROVE pending[i].id \in Nat
  <2>1. pending[i] \in PendingReplies
    OBVIOUS
  <2> QED
    BY <2>1 DEF PendingReplies
<1>7. ASSUME NEW x PROVE x \in PendingIDs(r) <=> x \in PendingIDs(pending) /\ x # Last(pending).id
  <2>1. ASSUME NEW i \in DOMAIN r PROVE r[i].id # pending[n].id
    BY <1>1, <1>5, <1>6 DEF PendingNest
  <2>2. \A i \in DOMAIN pending : i # n => i \in DOMAIN r
    BY <1>1, <1>4
  <2>3. x \in PendingIDs(r) => x \in PendingIDs(pending) /\ x # Last(pending).id
    BY <2>1, <1>1, <1>5 DEF PendingIDs
  <2>4. x \in PendingIDs(pending) /\ x # Last(pending).id => x \in PendingIDs(r)
    BY <2>2, <1>1, <1>5 DEF PendingIDs
  <2> QED
    BY <2>3, <2>4
<1>8. PendingNest(r)
  BY <1>5 DEF PendingNest
<1>9. PendingIDs(r) = PendingIDs(pending) \ {Last(pending).id}
  BY <1>7
<1> QED
  BY <1>3, <1>5, <1>8, <1>9

ReplyAt(pending, i) == [pending EXCEPT ![i].reply = TRUE]

LEMMA PendingReply ==
    ASSUME NEW pending \in Seq(PendingReplies), NEW i \in DOMAIN pending, NEW r, r = ReplyAt(pending, i)
    PROVE  /\ r \in Seq(PendingReplies) /\ PendingIDs(r) = PendingIDs(pending)
           /\ PendingNest(pending) => PendingNest(r)
           /\ DOMAIN r = DOMAIN pending /\ Len(r) = Len(pending)
           /\ \A j \in DOMAIN pending : r[j].id = pending[j].id /\ (j # i => r[j] = pending[j])
           /\ r[i].reply
<1> DEFINE e == [pending[i] EXCEPT !.reply = TRUE]
<1>1. pending[i] \in PendingReplies /\ DOMAIN pending = 1 .. Len(pending)
  BY LenProperties
<1>2. e \in PendingReplies /\ e.id = pending[i].id /\ e.reply
  BY <1>1 DEF PendingReplies
<1>3. r = [pending EXCEPT ![i] = e]
  BY DEF ReplyAt
<1> HIDE DEF e
<1>4. /\ r \in Seq(PendingReplies) /\ Len(r) = Len(pending)
      /\ \A j \in 1 .. Len(pending) : r[j] = IF j = i THEN e ELSE pending[j]
  <2>1. i \in 1 .. Len(pending)
    BY <1>1
  <2>2. /\ [pending EXCEPT ![i] = e] \in Seq(PendingReplies) /\ Len([pending EXCEPT ![i] = e]) = Len(pending)
        /\ \A j \in 1 .. Len(pending) : [pending EXCEPT ![i] = e][j] = IF j = i THEN e ELSE pending[j]
    BY <2>1, <1>2, ExceptSeq, SMTT(30)
  <2> QED
    BY <2>2, <1>3
<1>5. DOMAIN r = DOMAIN pending
  BY <1>1, <1>4, LenProperties
<1>6. \A j \in DOMAIN pending : r[j].id = pending[j].id /\ (j # i => r[j] = pending[j])
  BY <1>1, <1>2, <1>4
<1>7. PendingIDs(r) = PendingIDs(pending)
  BY <1>5, <1>6 DEF PendingIDs
<1>8. PendingNest(pending) => PendingNest(r)
  BY <1>5, <1>6 DEF PendingNest
<1> QED
  BY <1>1, <1>2, <1>4, <1>5, <1>6, <1>7, <1>8
-----------------------------------------------------------------------------
(***************************************************************************)
(* What the operators of Connection change.                                *)
(***************************************************************************)

SameButStack(q, t) ==
    /\ t.alive = q.alive /\ t.runLoop = q.runLoop /\ t.toDispatch = q.toDispatch
    /\ t.scheduled = q.scheduled /\ t.semaphore = q.semaphore /\ t.done = q.done

LEMMA PushEffect ==
    ASSUME NEW p, NEW q \in States(p), NEW f \in Frames(p), NEW t, t = Push(q, f)
    PROVE  t \in States(p) /\ t.stack = Cons(f, q.stack) /\ SameButStack(q, t)
<1>1. Cons(f, q.stack) \in Seq(Frames(p))
  BY ConsPlaces DEF States
<1> QED
  BY <1>1 DEF Push, States, SameButStack

LEMMA PopEffect ==
    ASSUME NEW p, NEW q \in States(p), q.stack # <<>>, NEW t, t = Pop(q)
    PROVE  t \in States(p) /\ t.stack = Tail(q.stack) /\ SameButStack(q, t)
<1>1. Tail(q.stack) \in Seq(Frames(p))
  BY TailFacts DEF States
<1> QED
  BY <1>1 DEF Pop, States, SameButStack

LEMMA GoOnEffect ==
    ASSUME NEW p, NEW q \in States(p), q.stack # <<>>, NEW at, NEW t, t = GoOn(q, at),
           NEW f \in Frames(p), f = [Head(q.stack) EXCEPT !.at = at]
    PROVE  t \in States(p) /\ t.stack = [q.stack EXCEPT ![1] = f] /\ SameButStack(q, t)
<1>1. q.stack \in Seq(Frames(p))
  BY DEF States
<1>2. [q.stack EXCEPT ![1] = f] \in Seq(Frames(p)) /\ Head(q.stack) = q.stack[1]
  BY <1>1, TopPlaces
<1>3. t = [q EXCEPT !.stack = [q.stack EXCEPT ![1] = f]]
  BY <1>2 DEF GoOn, States
<1> QED
  BY <1>2, <1>3 DEF States, SameButStack

-----------------------------------------------------------------------------
(***************************************************************************)
(* Steps that leave the invariant of a connection alone: of its process    *)
(* (Quiet), and of itself (Alike).                                         *)
(***************************************************************************)

Quiet(q, t, d) ==
    /\ CallIDs(t.stack, d) = CallIDs(q.stack, d)
    /\ CallsNest(q.stack, d) => CallsNest(t.stack, d)
    /\ Registered(t, d) <=> Registered(q, d)
    /\ Asleep(t, d) => Asleep(q, d)
    /\ SleepsOn(t, d) => SleepsOn(q, d)
    /\ ScheduleInv(q, d) => ScheduleInv(t, d)

Alike(k, j) ==
    /\ j.pending = k.pending /\ j.secondary = k.secondary /\ j.waiting = k.waiting
    /\ j.lastID = k.lastID /\ j.shouldWait = k.shouldWait
    /\ j.told = k.told /\ (j.client => k.client)

LEMMA QuietKeeps ==
    ASSUME NEW k, NEW j, NEW q, NEW t, NEW d, LocalInv(k, q, d), Quiet(q, t, d), Alike(k, j)
    PROVE  LocalInv(j, t, d)
<1>1. Matches(j.pending, t.stack, d)
  BY DEF LocalInv, Quiet, Alike, Matches
<1>2. IDsInv(j) /\ SignalInv(j) /\ ToldInv(j)
  BY DEF LocalInv, Alike, IDsInv, SignalInv, ToldInv
<1>3. WaitInv(j, t, d) /\ WakeInv(j, t, d) /\ ScheduleInv(t, d)
  BY DEF LocalInv, Quiet, Alike, WaitInv, WakeInv
<1> QED
  BY <1>1, <1>2, <1>3 DEF LocalInv

LEMMA AlikeItself == \A k : Alike(k, k)
  BY DEF Alike

LEMMA SameSchedule ==
    ASSUME NEW q, NEW t, t.runLoop = q.runLoop, t.scheduled = q.scheduled
    PROVE  \A d : ScheduleInv(q, d) => ScheduleInv(t, d)
  BY DEF ScheduleInv

LEMMA CoveredFacts == \A q, d :
    q.stack = <<>> \/ Covered(Head(q.stack)) => ~Registered(q, d) /\ ~Asleep(q, d) /\ ~SleepsOn(q, d)
  BY DEF Covered, Registered, Asleep, SleepsOn, IsSync

LEMMA QuietPush ==
    ASSUME NEW p, NEW q \in States(p), NEW t, NEW f \in Frames(p), t.stack = Cons(f, q.stack),
           q.stack = <<>> \/ Covered(Head(q.stack)), NEW d, ~IsSync(f, d), f.op = "wait" => f.at = "register",
           ScheduleInv(q, d) => ScheduleInv(t, d)
    PROVE  Quiet(q, t, d)
<1>1. q.stack \in Seq(Frames(p))
  BY DEF States
<1>2. CallIDs(t.stack, d) = CallIDs(q.stack, d) /\ (CallsNest(q.stack, d) => CallsNest(t.stack, d))
  BY <1>1, CallsPush
<1>3. Stacked(t.stack, f, q.stack)
  BY <1>1, ConsPlaces
<1>4. Head(t.stack) = f
  BY <1>3 DEF Stacked
<1>5. ~Registered(t, d) /\ ~Asleep(t, d) /\ ~SleepsOn(t, d)
  BY <1>4 DEF Registered, Asleep, SleepsOn
<1>6. ~Registered(q, d) /\ ~Asleep(q, d) /\ ~SleepsOn(q, d)
  BY CoveredFacts
<1> QED
  BY <1>2, <1>5, <1>6 DEF Quiet

LEMMA PoppedTop ==
    ASSUME NEW p, NEW q \in States(p), q.stack # <<>>, ProcessInv(q), NEW t, t.stack = Tail(q.stack)
    PROVE  /\ t.stack = <<>> \/ Covered(Head(t.stack))
           /\ \A i \in DOMAIN t.stack : Covered(t.stack[i])
<1>1. q.stack \in Seq(Frames(p))
  BY DEF States
<1>2. /\ \A i \in DOMAIN t.stack : i + 1 \in DOMAIN q.stack \ {1} /\ t.stack[i] = q.stack[i + 1]
      /\ t.stack \in Seq(Frames(p))
  BY <1>1, TailPlaces, TailFacts
<1>3. \A i \in DOMAIN t.stack : Covered(t.stack[i])
  BY <1>2 DEF ProcessInv
<1>4. t.stack # <<>> => 1 \in DOMAIN t.stack /\ Head(t.stack) = t.stack[1]
  BY <1>2, TailPlaces
<1> QED
  BY <1>3, <1>4

LEMMA QuietPop ==
    ASSUME NEW p, NEW q \in States(p), q.stack # <<>>, ProcessInv(q), NEW t, t.stack = Tail(q.stack),
           NEW d, ~IsSync(Head(q.stack), d), ~Registered(q, d),
           ScheduleInv(q, d) => ScheduleInv(t, d)
    PROVE  Quiet(q, t, d)
<1>1. q.stack \in Seq(Frames(p))
  BY DEF States
<1>2. CallIDs(t.stack, d) = CallIDs(q.stack, d) /\ (CallsNest(q.stack, d) => CallsNest(t.stack, d))
  BY <1>1, CallsPop
<1>3. t.stack = <<>> \/ Covered(Head(t.stack))
  BY PoppedTop
<1>4. ~Registered(t, d) /\ ~Asleep(t, d) /\ ~SleepsOn(t, d)
  BY <1>3, CoveredFacts
<1> QED
  BY <1>2, <1>4 DEF Quiet

(* The call on top goes on.                                                *)
LEMMA QuietTop ==
    ASSUME NEW p, NEW q \in States(p), q.stack # <<>>, NEW f \in Frames(p), NEW t,
           t.stack = [q.stack EXCEPT ![1] = f], f.op = Head(q.stack).op,
           f.op \in {"sync", "wait"} => f.c = Head(q.stack).c,
           f.op = "sync" => f.id = Head(q.stack).id,
           f.op = "wait" => (f.at = "register" <=> Head(q.stack).at = "register"),
           NEW d, Asleep(t, d) => Asleep(q, d), SleepsOn(t, d) => SleepsOn(q, d),
           ScheduleInv(q, d) => ScheduleInv(t, d)
    PROVE  Quiet(q, t, d)
<1>1. q.stack \in Seq(Frames(p))
  BY DEF States
<1>2. t.stack # <<>> /\ Head(t.stack) = f
  BY <1>1, TopPlaces
<1>3. IsSync(f, d) <=> IsSync(Head(q.stack), d)
  BY DEF IsSync
<1>4. IsSync(f, d) => f.id = Head(q.stack).id
  BY DEF IsSync
<1>5. CallIDs(t.stack, d) = CallIDs(q.stack, d) /\ (CallsNest(q.stack, d) => CallsNest(t.stack, d))
  BY <1>1, <1>3, <1>4, CallsGoOn
<1>6. Registered(t, d) <=> Registered(q, d)
  BY <1>2 DEF Registered
<1> QED
  BY <1>5, <1>6 DEF Quiet

LEMMA QuietSame ==
    ASSUME NEW q, NEW t, t.stack = q.stack, q.semaphore => t.semaphore, NEW d,
           ScheduleInv(q, d) => ScheduleInv(t, d)
    PROVE  Quiet(q, t, d)
  BY DEF Quiet, Registered, Asleep, SleepsOn

LEMMA ProcessPush ==
    ASSUME NEW p, NEW q \in States(p), ProcessInv(q), NEW t, NEW f \in Frames(p), t.stack = Cons(f, q.stack),
           q.stack = <<>> \/ Covered(Head(q.stack)), t.alive
    PROVE  ProcessInv(t)
<1>1. q.stack \in Seq(Frames(p))
  BY DEF States
<1>2. Stacked(t.stack, f, q.stack)
  BY <1>1, ConsPlaces
<1>3. \A i \in DOMAIN q.stack : Covered(q.stack[i])
  <2>1. q.stack # <<>> => Head(q.stack) = q.stack[1]
    BY <1>1, TailPlaces
  <2>2. \A i \in DOMAIN q.stack : q.stack # <<>>
    BY <1>1
  <2> QED
    BY <2>1, <2>2 DEF ProcessInv
<1>4. ASSUME NEW i \in DOMAIN t.stack, i # 1 PROVE Covered(t.stack[i])
  BY <1>2, <1>3, <1>4 DEF Stacked
<1> QED
  BY <1>4 DEF ProcessInv

LEMMA ProcessPop ==
    ASSUME NEW p, NEW q \in States(p), q.stack # <<>>, ProcessInv(q), NEW t, t.stack = Tail(q.stack), t.alive
    PROVE  ProcessInv(t)
  BY PoppedTop DEF ProcessInv

LEMMA ProcessTop ==
    ASSUME NEW p, NEW q \in States(p), q.stack # <<>>, ProcessInv(q), NEW t, NEW f \in Frames(p),
           t.stack = [q.stack EXCEPT ![1] = f], t.alive
    PROVE  ProcessInv(t)
<1>1. q.stack \in Seq(Frames(p))
  BY DEF States
<1>2. /\ DOMAIN t.stack = DOMAIN q.stack
      /\ \A i \in DOMAIN q.stack : t.stack[i] = IF i = 1 THEN f ELSE q.stack[i]
  BY <1>1, TopPlaces
<1> QED
  BY <1>2 DEF ProcessInv

LEMMA ProcessSame ==
    ASSUME NEW q, ProcessInv(q), NEW t, t.stack = q.stack, t.alive
    PROVE  ProcessInv(t)
  BY DEF ProcessInv
-----------------------------------------------------------------------------
(***************************************************************************)
(* Every step keeps the invariant.                                         *)
(***************************************************************************)

(* A step of the process of c that may change c.                           *)
LEMMA LocalStep ==
    ASSUME Inv, NEW c \in Endpoints, NEW k \in Connections, NEW t \in States(processOf[c]),
           conn' = [conn EXCEPT ![c] = k], proc' = [proc EXCEPT ![processOf[c]] = t],
           socket' \in [Endpoints -> Seq(Message)], \A d \in Endpoints : Len(socket'[d]) <= capacity,
           DOMAIN calls' = Endpoints,
           LocalInv(k, t, c), ProcessInv(t),
           \A d \in Mine(processOf[c]) : d # c => LocalInv(conn[d], t, d)
    PROVE  Inv'
<1>1. processOf[c] \in Processes
  BY MineFacts
<1>2. TypeInv'
  BY <1>1 DEF Inv, TypeInv
<1>3. ASSUME NEW d \in Endpoints PROVE LocalInv(conn'[d], proc'[processOf[d]], d)
  <2>1. CASE d = c
    BY <2>1, <1>1 DEF Inv, TypeInv
  <2>2. CASE d # c /\ processOf[d] = processOf[c]
    <3>1. d \in Mine(processOf[c])
      BY <2>2, MineFacts
    <3>2. conn'[d] = conn[d] /\ proc'[processOf[d]] = t
      BY <2>2, <1>1 DEF Inv, TypeInv
    <3> QED
      BY <3>1, <3>2, <2>2
  <2>3. CASE d # c /\ processOf[d] # processOf[c]
    <3>1. conn'[d] = conn[d] /\ proc'[processOf[d]] = proc[processOf[d]]
      BY <2>3, MineFacts DEF Inv, TypeInv
    <3> QED
      BY <3>1 DEF Inv
  <2> QED
    BY <2>1, <2>2, <2>3
<1>4. ASSUME NEW r \in Processes PROVE ProcessInv(proc'[r])
  BY <1>1 DEF Inv, TypeInv
<1> QED
  BY <1>2, <1>3, <1>4 DEF Inv

(* A step that changes a process only.                                     *)
LEMMA ProcessStep ==
    ASSUME Inv, NEW p \in Processes, NEW t \in States(p),
           UNCHANGED conn, proc' = [proc EXCEPT ![p] = t],
           socket' \in [Endpoints -> Seq(Message)], \A d \in Endpoints : Len(socket'[d]) <= capacity,
           DOMAIN calls' = Endpoints,
           ProcessInv(t), \A d \in Mine(p) : LocalInv(conn[d], t, d)
    PROVE  Inv'
<1>2. TypeInv'
  BY DEF Inv, TypeInv
<1>3. ASSUME NEW d \in Endpoints PROVE LocalInv(conn'[d], proc'[processOf[d]], d)
  <2>2. CASE processOf[d] = p
    <3>1. d \in Mine(p)
      BY <2>2, MineFacts
    <3>2. conn'[d] = conn[d] /\ proc'[processOf[d]] = t
      BY <2>2 DEF Inv, TypeInv
    <3> QED
      BY <3>1, <3>2
  <2>3. CASE processOf[d] # p
    <3>1. conn'[d] = conn[d] /\ proc'[processOf[d]] = proc[processOf[d]]
      BY <2>3, MineFacts DEF Inv, TypeInv
    <3> QED
      BY <3>1 DEF Inv
  <2> QED
    BY <2>2, <2>3
<1>4. ASSUME NEW r \in Processes PROVE ProcessInv(proc'[r])
  BY DEF Inv, TypeInv
<1> QED
  BY <1>2, <1>3, <1>4 DEF Inv

LEMMA Here ==
    ASSUME Inv, NEW c \in Endpoints
    PROVE  /\ processOf[c] \in Processes /\ conn[c] \in Connections
           /\ proc[processOf[c]] \in States(processOf[c])
           /\ LocalInv(conn[c], proc[processOf[c]], c) /\ ProcessInv(proc[processOf[c]])
           /\ \A d \in Mine(processOf[c]) : LocalInv(conn[d], proc[processOf[c]], d)
<1>1. processOf[c] \in Processes
  BY MineFacts
<1>2. \A d \in Mine(processOf[c]) : d \in Endpoints /\ processOf[d] = processOf[c]
  BY MineFacts
<1> QED
  BY <1>1, <1>2 DEF Inv, TypeInv

LEMMA There ==
    ASSUME Inv, NEW p \in Processes
    PROVE  /\ proc[p] \in States(p) /\ ProcessInv(proc[p])
           /\ \A d \in Mine(p) : d \in Endpoints /\ processOf[d] = p /\ conn[d] \in Connections
                                 /\ LocalInv(conn[d], proc[p], d)
<1>1. \A d \in Mine(p) : d \in Endpoints /\ processOf[d] = p
  BY MineFacts
<1> QED
  BY <1>1 DEF Inv, TypeInv

LEMMA SameSockets ==
    ASSUME Inv, UNCHANGED <<socket, calls>>
    PROVE  /\ socket' \in [Endpoints -> Seq(Message)] /\ \A d \in Endpoints : Len(socket'[d]) <= capacity
           /\ DOMAIN calls' = Endpoints
  BY DEF Inv, TypeInv

CanSpend(p, q) == q.done < maxOperations[p] /\ maxOperations[p] \in Nat

LEMMA SpendEffect ==
    ASSUME NEW p, NEW q \in States(p), CanSpend(p, q), NEW t, t = Spend(q)
    PROVE  /\ t \in States(p) /\ t.stack = q.stack /\ t.alive = q.alive /\ t.runLoop = q.runLoop
           /\ t.toDispatch = q.toDispatch /\ t.scheduled = q.scheduled /\ t.semaphore = q.semaphore
<1>1. q.done + 1 \in 0 .. maxOperations[p]
  BY DEF States, CanSpend
<1> QED
  BY <1>1 DEF Spend, States

LEMMA MayFacts ==
    ASSUME Inv, NEW c \in Endpoints, NEW op, May(c, op), NEW t, t = Spend(proc[processOf[c]])
    PROVE  /\ t \in States(processOf[c]) /\ t.stack = proc[processOf[c]].stack /\ t.alive
           /\ t.runLoop = proc[processOf[c]].runLoop /\ t.toDispatch = proc[processOf[c]].toDispatch
           /\ t.scheduled = proc[processOf[c]].scheduled /\ t.semaphore = proc[processOf[c]].semaphore
           /\ \A d : ScheduleInv(proc[processOf[c]], d) => ScheduleInv(t, d)
           /\ ProcessInv(t)
           /\ \A d : Quiet(proc[processOf[c]], t, d)
<1> DEFINE p == processOf[c]
           q == proc[p]
<1>1. /\ q \in States(p) /\ ProcessInv(q) /\ q.alive
      /\ CanSpend(p, q) /\ t = Spend(q)
  BY Here, BoundsAssumption DEF May, CanSpend
<1> HIDE DEF p, q
<1>2. /\ t \in States(p) /\ t.stack = q.stack /\ t.alive = q.alive /\ t.runLoop = q.runLoop
      /\ t.toDispatch = q.toDispatch /\ t.scheduled = q.scheduled /\ t.semaphore = q.semaphore
  BY <1>1, SpendEffect
<1>3. \A d : ScheduleInv(q, d) => ScheduleInv(t, d)
  BY <1>2, SameSchedule
<1>4. ProcessInv(t)
  BY <1>1, <1>2, ProcessSame
<1>5. \A d : Quiet(q, t, d)
  BY <1>2, <1>3, QuietSame
<1> QED
  BY <1>1, <1>2, <1>3, <1>4, <1>5 DEF p, q

LEMMA SendEffect ==
    ASSUME NEW k \in Connections, NEW name \in Names \cup {"sync", "SyncMessageReply"},
           NEW flagged \in BOOLEAN, NEW id \in Nat, NEW t, t = SendMessage(k, name, flagged, id)
    PROVE  /\ t \in Connections /\ Alike(k, t)
           /\ t.client = k.client /\ t.connected = k.connected /\ t.incoming = k.incoming /\ t.thread = k.thread
           /\ t.outgoing = Append(k.outgoing, [name |-> name, flagged |-> flagged, id |-> id, number |-> k.sent + 1])
           /\ [name |-> name, flagged |-> flagged, id |-> id, number |-> k.sent + 1] \in Message
<1> DEFINE m == [name |-> name, flagged |-> flagged, id |-> id, number |-> k.sent + 1]
           o == Append(k.outgoing, m)
           ts == IF k.tasks # <<>> /\ Last(k.tasks) = "sendOutgoingMessages" THEN k.tasks
                 ELSE Append(k.tasks, "sendOutgoingMessages")
<1>1. m \in Message /\ k.sent + 1 \in Nat
  BY DEF Message, Connections
<1>2. o \in Seq(Message)
  BY <1>1, AppendFacts DEF Connections
<1>3. ts \in Seq(Tasks)
  <2>1. k.tasks \in Seq(Tasks) /\ "sendOutgoingMessages" \in Tasks
    BY DEF Connections, Tasks
  <2> QED
    BY <2>1, AppendFacts
<1>4. t = [k EXCEPT !.outgoing = o, !.sent = k.sent + 1, !.tasks = ts]
  BY DEF SendMessage, Connections
<1> HIDE DEF m, o, ts
<1>5. /\ t \in Connections /\ Alike(k, t)
      /\ t.client = k.client /\ t.connected = k.connected /\ t.incoming = k.incoming /\ t.thread = k.thread
      /\ t.outgoing = o
  BY <1>1, <1>2, <1>3, <1>4, ZenonT(40) DEF Connections, Alike
<1> QED
  BY <1>1, <1>5 DEF m, o

SocketsOK ==
    /\ socket' \in [Endpoints -> Seq(Message)] /\ \A d \in Endpoints : Len(socket'[d]) <= capacity
    /\ DOMAIN calls' = Endpoints

LEMMA QuietStep ==
    ASSUME Inv, NEW c \in Endpoints, NEW k \in Connections, NEW t \in States(processOf[c]),
           conn' = [conn EXCEPT ![c] = k], proc' = [proc EXCEPT ![processOf[c]] = t], SocketsOK,
           Alike(conn[c], k), \A d \in Mine(processOf[c]) : Quiet(proc[processOf[c]], t, d), ProcessInv(t)
    PROVE  Inv'
<1>1. c \in Mine(processOf[c]) /\ LocalInv(conn[c], proc[processOf[c]], c)
  BY MineFacts, Here
<1>2. LocalInv(k, t, c)
  BY <1>1, QuietKeeps
<1>3. \A d \in Mine(processOf[c]) : LocalInv(conn[d], proc[processOf[c]], d)
  BY Here
<1>4. ASSUME NEW d \in Mine(processOf[c]) PROVE LocalInv(conn[d], t, d)
  BY <1>3, QuietKeeps, AlikeItself
<1> QED
  BY <1>2, <1>4, LocalStep DEF SocketsOK

LEMMA QuietProcess ==
    ASSUME Inv, NEW p \in Processes, NEW t \in States(p), UNCHANGED conn, proc' = [proc EXCEPT ![p] = t], SocketsOK,
           \A d \in Mine(p) : Quiet(proc[p], t, d), ProcessInv(t)
    PROVE  Inv'
<1>1. \A d \in Mine(p) : LocalInv(conn[d], proc[p], d)
  BY There
<1>2. ASSUME NEW d \in Mine(p) PROVE LocalInv(conn[d], t, d)
  BY <1>1, QuietKeeps, AlikeItself
<1> QED
  BY <1>2, ProcessStep DEF SocketsOK

LEMMA SameSocketsOK == Inv /\ UNCHANGED <<socket, calls>> => SocketsOK
  BY SameSockets DEF SocketsOK

LEMMA ClientFacts ==
    ASSUME NEW p, RunsClientCode(p)
    PROVE  proc[p].alive /\ (proc[p].stack = <<>> \/ Covered(Head(proc[p].stack)))
  BY DEF RunsClientCode, In, Top, Covered

LEMMA SendKeeps ==
    ASSUME Inv, NEW c \in Endpoints, NEW name \in Names, NEW flag \in BOOLEAN, Send(c, name, flag)
    PROVE  Inv'
<1> DEFINE k == SendMessage(conn[c], name, flag /\ Flagged(c), 0)
           t == Spend(proc[processOf[c]])
           b == flag /\ Flagged(c)
           z == 0
<1>1. conn' = [conn EXCEPT ![c] = k] /\ proc' = [proc EXCEPT ![processOf[c]] = t] /\ SocketsOK
  BY SameSocketsOK DEF Send
<1>2. k \in Connections /\ Alike(conn[c], k)
  <2>1. conn[c] \in Connections /\ name \in Names \cup {"sync", "SyncMessageReply"} /\ b \in BOOLEAN /\ z \in Nat
        /\ k = SendMessage(conn[c], name, b, z)
    BY Here
  <2> HIDE DEF k, b, z
  <2> QED
    BY <2>1, SendEffect
<1>3. t \in States(processOf[c]) /\ ProcessInv(t) /\ \A d : Quiet(proc[processOf[c]], t, d)
  BY MayFacts DEF Send, MainMay
<1> HIDE DEF k, t
<1> QED
  BY <1>1, <1>2, <1>3, QuietStep

LEMMA InvalidateKeeps ==
    ASSUME Inv, NEW c \in Endpoints, Invalidate(c)
    PROVE  Inv'
<1> DEFINE k == [conn[c] EXCEPT !.client = FALSE, !.tasks = Append(@, "platformInvalidate")]
           t == Spend(proc[processOf[c]])
<1>0. conn[c] \in Connections
  BY Here
<1>1. conn' = [conn EXCEPT ![c] = k] /\ proc' = [proc EXCEPT ![processOf[c]] = t] /\ SocketsOK
  <2>1. conn' = [conn EXCEPT ![c] = k]
    BY <1>0 DEF Invalidate, Inv, TypeInv
  <2> QED
    BY <2>1, SameSocketsOK DEF Invalidate
<1>2. k \in Connections /\ Alike(conn[c], k)
  <2>1. Append(conn[c].tasks, "platformInvalidate") \in Seq(Tasks)
    BY <1>0, AppendFacts DEF Connections, Tasks
  <2> QED
    BY <1>0, <2>1 DEF Connections, Alike
<1>3. t \in States(processOf[c]) /\ ProcessInv(t) /\ \A d : Quiet(proc[processOf[c]], t, d)
  BY MayFacts DEF Invalidate, MainMay
<1> HIDE DEF k, t
<1> QED
  BY <1>1, <1>2, <1>3, QuietStep

LEMMA EmptyFacts ==
    /\ \A S : <<>> \in Seq(S)
    /\ DOMAIN <<>> = {} /\ Range(<<>>) = {} /\ Len(<<>>) = 0
    /\ \A c : CallIDs(<<>>, c) = {} /\ CallsNest(<<>>, c)
    /\ PendingIDs(<<>>) = {} /\ PendingNest(<<>>)
    /\ \A C : Once(<<>>, C)
<1>1. /\ \A S : <<>> \in Seq(S)
      /\ DOMAIN <<>> = {} /\ Len(<<>>) = 0
  OBVIOUS
<1>2. \A c : CallsOn(<<>>, c) = {}
  BY <1>1 DEF CallsOn
<1>3. /\ \A c : CallIDs(<<>>, c) = {} /\ CallsNest(<<>>, c)
      /\ PendingIDs(<<>>) = {} /\ PendingNest(<<>>)
  BY <1>1, <1>2 DEF CallIDs, CallsNest, PendingIDs, PendingNest
<1>4. Range(<<>>) = {} /\ \A C : Once(<<>>, C)
  BY <1>1 DEF Range, Once
<1> QED
  BY <1>1, <1>3, <1>4

(* A connection with nothing under way, of a process with an empty stack.  *)
LEMMA AtRestInv ==
    ASSUME NEW k, NEW q, NEW c, k.pending = <<>>, k.secondary = {}, k.waiting = None, ToldInv(k),
           q.stack = <<>>, q.runLoop = <<>>
    PROVE  LocalInv(k, q, c)
<1>1. Matches(k.pending, q.stack, c)
  BY EmptyFacts DEF Matches
<1>2. IDsInv(k)
  BY EmptyFacts DEF IDsInv
<1>3. ScheduleInv(q, c)
  BY EmptyFacts DEF ScheduleInv
<1>4. WaitInv(k, q, c) /\ WakeInv(k, q, c) /\ SignalInv(k)
  BY DEF WaitInv, WakeInv, SignalInv, Registered, Asleep, SleepsOn
<1> QED
  BY <1>1, <1>2, <1>3, <1>4 DEF LocalInv

DeadProcess(q) == [NewProcess EXCEPT !.alive = FALSE, !.done = q.done]
DeadConnection(k) ==
    [NewConnection EXCEPT !.client = FALSE, !.connected = FALSE, !.shouldWait = FALSE, !.told = k.told]

LEMMA DeadFacts ==
    /\ \A p : \A q \in States(p) : LET t == DeadProcess(q) IN
           /\ t \in States(p) /\ t.stack = <<>> /\ t.runLoop = <<>> /\ ~t.alive /\ t.toDispatch = <<>>
    /\ \A k \in Connections : LET j == DeadConnection(k) IN
           /\ j \in Connections /\ j.pending = <<>> /\ j.secondary = {} /\ j.waiting = None
           /\ ~j.client /\ j.told = k.told /\ j.outgoing = <<>> /\ j.incoming = <<>> /\ j.lastID = 0
<1>1. ASSUME NEW p, NEW q \in States(p), NEW t, t = DeadProcess(q)
      PROVE  t \in States(p) /\ t.stack = <<>> /\ t.runLoop = <<>> /\ ~t.alive /\ t.toDispatch = <<>>
  BY <1>1, EmptyFacts DEF DeadProcess, NewProcess, States
<1>2. ASSUME NEW k \in Connections, NEW j, j = DeadConnection(k)
      PROVE  /\ j \in Connections /\ j.pending = <<>> /\ j.secondary = {} /\ j.waiting = None
             /\ ~j.client /\ j.told = k.told /\ j.outgoing = <<>> /\ j.incoming = <<>> /\ j.lastID = 0
  BY <1>2, EmptyFacts DEF DeadConnection, NewConnection, Connections
<1> QED
  BY <1>1, <1>2

LEMMA DieKeeps ==
    ASSUME Inv, NEW p \in Processes, Die(p), DOMAIN calls' = Endpoints
    PROVE  Inv'
<1>1. proc' = [proc EXCEPT ![p] = DeadProcess(proc[p])]
  BY DEF Die, DeadProcess
<1>2. conn' = [c \in Endpoints |-> IF processOf[c] # p THEN conn[c] ELSE DeadConnection(conn[c])]
  BY DEF Die, DeadConnection
<1>3. socket' = [c \in Endpoints |-> IF processOf[c] = p THEN <<>> ELSE socket[c]]
  BY DEF Die
<1>4. TypeInv'
  <2>1. socket' \in [Endpoints -> Seq(Message)] /\ \A c \in Endpoints : Len(socket'[c]) <= capacity
    BY <1>3, EmptyFacts, BoundsAssumption DEF Inv, TypeInv
  <2>2. conn' \in [Endpoints -> Connections]
    BY <1>2, DeadFacts DEF Inv, TypeInv
  <2>3. DOMAIN proc' = Processes /\ \A r \in Processes : proc'[r] \in States(r)
    BY <1>1, DeadFacts DEF Inv, TypeInv
  <2> QED
    BY <2>1, <2>2, <2>3 DEF TypeInv
<1>5. ASSUME NEW c \in Endpoints PROVE LocalInv(conn'[c], proc'[processOf[c]], c)
  <2>1. CASE processOf[c] # p
    <3>1. conn'[c] = conn[c] /\ proc'[processOf[c]] = proc[processOf[c]]
      BY <2>1, <1>1, <1>2, MineFacts DEF Inv, TypeInv
    <3> QED
      BY <3>1 DEF Inv
  <2>2. CASE processOf[c] = p
    <3> DEFINE k == DeadConnection(conn[c])
               q == DeadProcess(proc[p])
    <3>1. conn'[c] = k /\ proc'[processOf[c]] = q
      BY <2>2, <1>1, <1>2 DEF Inv, TypeInv
    <3>2. conn[c] \in Connections /\ proc[p] \in States(p) /\ ToldInv(conn[c])
      BY Here, There DEF LocalInv
    <3>3. /\ k.pending = <<>> /\ k.secondary = {} /\ k.waiting = None /\ q.stack = <<>> /\ q.runLoop = <<>>
          /\ ~k.client /\ k.told = conn[c].told
      BY <3>2, DeadFacts
    <3> HIDE DEF k, q
    <3>4. ToldInv(k)
      BY <3>2, <3>3 DEF ToldInv
    <3> QED
      BY <3>1, <3>3, <3>4, AtRestInv
  <2> QED
    BY <2>1, <2>2
<1>6. ASSUME NEW r \in Processes PROVE ProcessInv(proc'[r])
  <2>1. CASE r # p
    BY <2>1, <1>1 DEF Inv, TypeInv
  <2>2. CASE r = p
    <3> DEFINE q == DeadProcess(proc[p])
    <3>1. proc'[r] = q /\ proc[p] \in States(p)
      BY <2>2, <1>1 DEF Inv, TypeInv
    <3>2. q.stack = <<>> /\ q.runLoop = <<>>
      BY <3>1, DeadFacts
    <3> HIDE DEF q
    <3> QED
      BY <3>1, <3>2, EmptyFacts DEF ProcessInv
  <2> QED
    BY <2>1, <2>2
<1> QED
  BY <1>4, <1>5, <1>6 DEF Inv

(* A new request: its ID is above all others.                              *)
LEMMA CallLocal ==
    ASSUME NEW p, NEW q \in States(p), NEW k \in Connections, NEW c, LocalInv(k, q, c),
           q.stack = <<>> \/ Covered(Head(q.stack)),
           NEW f \in Frames(p), IsSync(f, c), f.id = k.lastID + 1, f.at = "dispatch",
           NEW t, t.stack = Cons(f, q.stack), ScheduleInv(q, c) => ScheduleInv(t, c),
           NEW x \in PendingReplies, x.id = k.lastID + 1,
           NEW j, j.pending = Append(k.pending, x), j.lastID = k.lastID + 1, j.secondary = k.secondary,
           j.waiting = k.waiting, j.shouldWait = k.shouldWait, j.told = k.told, j.client => k.client
    PROVE  LocalInv(j, t, c)
<1>1. q.stack \in Seq(Frames(p)) /\ k.pending \in Seq(PendingReplies) /\ k.lastID \in Nat
      /\ k.secondary \subseteq SecondaryReplies
  BY DEF States, Connections
<1>2. /\ Matches(k.pending, q.stack, c) /\ IDsInv(k) /\ ScheduleInv(q, c)
      /\ WaitInv(k, q, c) /\ WakeInv(k, q, c) /\ SignalInv(k) /\ ToldInv(k)
  BY DEF LocalInv
<1>3. \A id \in PendingIDs(k.pending) : id \in 1 .. k.lastID
  BY <1>2 DEF IDsInv
<1>4. \A id \in PendingIDs(k.pending) : id < f.id /\ id < x.id
  BY <1>1, <1>3
<1>5. CallIDs(t.stack, c) = CallIDs(q.stack, c) \cup {f.id} /\ CallsNest(t.stack, c)
  <2>1. \A id \in CallIDs(q.stack, c) : id < f.id
    BY <1>2, <1>4 DEF Matches
  <2>2. CallsNest(q.stack, c)
    BY <1>2 DEF Matches
  <2> QED
    BY <1>1, <2>1, <2>2, CallsPush
<1>6. PendingIDs(j.pending) = PendingIDs(k.pending) \cup {x.id} /\ PendingNest(j.pending)
  <2>1. PendingNest(k.pending)
    BY <1>2 DEF Matches
  <2> QED
    BY <1>1, <1>4, <2>1, PendingPush
<1>7. Matches(j.pending, t.stack, c)
  BY <1>2, <1>5, <1>6 DEF Matches
<1>8. IDsInv(j)
  <2>1. \A id \in PendingIDs(j.pending) : id \in 1 .. j.lastID
    BY <1>1, <1>3, <1>6
  <2>2. \A s \in k.secondary : s.id \in 1 .. k.lastID /\ s.id \notin PendingIDs(k.pending)
    BY <1>2 DEF IDsInv
  <2>3. \A s \in k.secondary : s.id \in 1 .. j.lastID /\ s.id \notin PendingIDs(j.pending)
    BY <1>1, <2>2, <1>6
  <2> QED
    BY <1>2, <2>1, <2>3 DEF IDsInv
<1>9. Stacked(t.stack, f, q.stack)
  BY <1>1, ConsPlaces
<1>10. Head(t.stack) = f
  BY <1>9 DEF Stacked
<1>11. ~Registered(t, c) /\ ~Asleep(t, c) /\ ~SleepsOn(t, c) /\ ~Registered(q, c)
  BY <1>10, CoveredFacts DEF Registered, Asleep, SleepsOn, IsSync
<1>12. WaitInv(j, t, c) /\ WakeInv(j, t, c)
  BY <1>2, <1>11 DEF WaitInv, WakeInv
<1>13. SignalInv(j) /\ ToldInv(j)
  BY <1>2 DEF SignalInv, ToldInv
<1> QED
  BY <1>2, <1>7, <1>8, <1>12, <1>13 DEF LocalInv

(* createSyncMessageEncoder() and the sending of the request, with what    *)
(* becomes of the replies waited for.                                      *)
IsNextID(k, id) == id = k.lastID + 1
WithRequest(k, b, id, x) ==
    [SendMessage(k, "sync", b, id) EXCEPT !.lastID = @ + 1, !.pending = Append(@, x)]

LEMMA RequestEffect ==
    ASSUME NEW k \in Connections, NEW b \in BOOLEAN, NEW id \in Nat, IsNextID(k, id),
           NEW x \in PendingReplies, NEW j,
           j = WithRequest(k, b, id, x)
    PROVE  /\ j \in Connections /\ j.pending = Append(k.pending, x) /\ j.lastID = id
           /\ j.secondary = k.secondary /\ j.waiting = k.waiting /\ j.shouldWait = k.shouldWait
           /\ j.told = k.told /\ j.client = k.client
<1> DEFINE i == SendMessage(k, "sync", b, id)
           n == "sync"
           m == [name |-> "sync", flagged |-> b, id |-> id, number |-> k.sent + 1]
<1>1. n \in Names \cup {"sync", "SyncMessageReply"}
  OBVIOUS
<1>2. /\ i \in Connections /\ Alike(k, i) /\ i.client = k.client /\ i.incoming = k.incoming
      /\ i.outgoing = Append(k.outgoing, m) /\ m \in Message
  <2>1. i = SendMessage(k, n, b, id) /\ m = [name |-> n, flagged |-> b, id |-> id, number |-> k.sent + 1]
    OBVIOUS
  <2> HIDE DEF i, n, m
  <2> QED
    BY <1>1, <2>1, SendEffect
<1>3. j = [i EXCEPT !.lastID = @ + 1, !.pending = Append(@, x)]
  BY DEF WithRequest
<1> HIDE DEF i, n, m
<1>4. Append(i.pending, x) \in Seq(PendingReplies) /\ i.lastID + 1 \in Nat
  BY <1>2, AppendFacts, SMTT(40) DEF Connections
<1>5. /\ j \in Connections /\ j.pending = Append(i.pending, x) /\ j.lastID = i.lastID + 1
      /\ j.secondary = i.secondary /\ j.waiting = i.waiting /\ j.shouldWait = i.shouldWait
      /\ j.told = i.told /\ j.client = i.client /\ j.incoming = i.incoming /\ j.outgoing = i.outgoing
  BY <1>2, <1>3, <1>4, ZenonT(40) DEF Connections
<1> QED
  BY <1>2, <1>5 DEF Alike, IsNextID

LEMMA SendSyncKeeps ==
    ASSUME Inv, NEW c \in Endpoints, SendSync(c)
    PROVE  Inv'
<1> DEFINE p == processOf[c]
           q == proc[p]
           id == conn[c].lastID + 1
           b == Flagged(c)
           x == [id |-> id, reply |-> FALSE]
           f == [op |-> "sync", at |-> "dispatch", c |-> c, id |-> id, ok |-> FALSE]
           k == conn[c]
           j == WithRequest(k, b, id, x)
           u == Spend(q)
           t == Push(u, f)
<1>1. /\ conn' = [conn EXCEPT ![c] = j] /\ proc' = [proc EXCEPT ![p] = t] /\ MainMay(c, "sync")
      /\ UNCHANGED socket /\ DOMAIN calls' = DOMAIN calls
  <2>1. conn' = [conn EXCEPT ![c] = j]
    BY Zenon DEF SendSync, NextID, WithRequest
  <2>2. proc' = [proc EXCEPT ![p] = t] /\ MainMay(c, "sync") /\ UNCHANGED socket
    BY Zenon DEF SendSync, NextID
  <2>3. DOMAIN calls' = DOMAIN calls
    BY DEF SendSync
  <2> QED
    BY <2>1, <2>2, <2>3
<1>2. /\ p \in Processes /\ k \in Connections /\ q \in States(p) /\ ProcessInv(q) /\ LocalInv(k, q, c)
      /\ \A d \in Mine(p) : LocalInv(conn[d], q, d)
  BY Here
<1>3. id \in Nat /\ b \in BOOLEAN /\ x \in PendingReplies /\ x.id = id
  BY <1>2 DEF Connections, PendingReplies, Flagged, InFlaggedMessage
<1>4. f \in Frames(p) /\ IsSync(f, c) /\ f.id = id /\ f.at = "dispatch" /\ f.op = "sync" /\ f.c = c
  BY <1>3, MineFacts DEF Frames, SyncFrames, IsSync
<1>5. q.stack = <<>> \/ Covered(Head(q.stack))
  BY <1>1, ClientFacts DEF MainMay
<1>6. /\ u \in States(p) /\ u.stack = q.stack /\ u.alive /\ u.runLoop = q.runLoop /\ u.scheduled = q.scheduled
  BY <1>1, MayFacts DEF MainMay
<1>7. /\ j \in Connections /\ j.pending = Append(k.pending, x) /\ j.lastID = id
      /\ j.secondary = k.secondary /\ j.waiting = k.waiting /\ j.shouldWait = k.shouldWait
      /\ j.told = k.told /\ j.client = k.client
  <2>1. IsNextID(k, id) /\ j = WithRequest(k, b, id, x)
    BY DEF IsNextID
  <2> HIDE DEF k, b, x, id, j
  <2> QED
    BY <1>2, <1>3, <2>1, RequestEffect
<1>8. id = k.lastID + 1 /\ t = Push(u, f)
  OBVIOUS
<1> HIDE DEF q, id, b, x, f, k, j, u, t
<1>9. t \in States(p) /\ t.stack = Cons(f, q.stack) /\ t.alive /\ t.runLoop = q.runLoop /\ t.scheduled = q.scheduled
  BY <1>4, <1>6, <1>8, PushEffect DEF SameButStack
<1>10. \A d : ScheduleInv(q, d) => ScheduleInv(t, d)
  BY <1>9, SameSchedule
<1>11. LocalInv(j, t, c)
  BY <1>2, <1>3, <1>4, <1>5, <1>7, <1>8, <1>9, <1>10, CallLocal
<1>12. ASSUME NEW d \in Mine(p), d # c PROVE LocalInv(conn[d], t, d)
  <2>1. ~IsSync(f, d)
    BY <1>4, <1>12 DEF IsSync
  <2>2. Quiet(q, t, d)
    BY <1>2, <1>4, <1>5, <1>9, <1>10, <2>1, QuietPush
  <2> QED
    BY <2>2, <1>2, QuietKeeps, AlikeItself
<1>13. ProcessInv(t)
  BY <1>2, <1>4, <1>5, <1>9, ProcessPush
<1>14. SocketsOK
  BY <1>1 DEF SocketsOK, Inv, TypeInv
<1> QED
  BY <1>1, <1>7, <1>9, <1>11, <1>12, <1>13, <1>14, LocalStep DEF SocketsOK, p

LEMMA SendSyncFailsKeeps ==
    ASSUME Inv, NEW c \in Endpoints, SendSyncFails(c)
    PROVE  Inv'
<1> DEFINE p == processOf[c]
           k == conn[c]
           j == [k EXCEPT !.lastID = @ + 1]
           t == Spend(proc[p])
<1>1. /\ MainMay(c, "sync") /\ DidFailToSendSyncMessage(c, t, j) /\ DOMAIN calls' = Endpoints
  BY DEF SendSyncFails, Inv, TypeInv
<1>2. CASE c \in ExitOnFailure
  BY <1>1, <1>2, DieKeeps, MineFacts DEF DidFailToSendSyncMessage
<1>3. CASE c \notin ExitOnFailure
  <2>1. conn' = [conn EXCEPT ![c] = j] /\ proc' = [proc EXCEPT ![p] = t] /\ UNCHANGED socket
    BY <1>1, <1>3 DEF DidFailToSendSyncMessage
  <2>2. k \in Connections /\ LocalInv(k, proc[p], c) /\ \A d \in Mine(p) : LocalInv(conn[d], proc[p], d)
    BY Here
  <2>3. /\ t \in States(p) /\ ProcessInv(t) /\ \A d : Quiet(proc[p], t, d)
    BY <1>1, MayFacts DEF MainMay
  <2>4. /\ j \in Connections /\ j.pending = k.pending /\ j.lastID = k.lastID + 1 /\ k.lastID \in Nat
        /\ j.secondary = k.secondary /\ j.waiting = k.waiting /\ j.shouldWait = k.shouldWait
        /\ j.told = k.told /\ j.client = k.client
    <3>1. k \in Connections /\ k.lastID + 1 \in Nat
      BY <2>2 DEF Connections
    <3> HIDE DEF k
    <3> QED
      BY <3>1 DEF Connections
  <2> HIDE DEF j, k, t
  <2>5. LocalInv(k, t, c)
    BY <2>2, <2>3, QuietKeeps, AlikeItself
  <2>6. IDsInv(j)
    <3>1. IDsInv(k)
      BY <2>2 DEF LocalInv
    <3>2. \A i \in 1 .. k.lastID : i \in 1 .. j.lastID
      BY <2>4
    <3> QED
      BY <3>1, <3>2, <2>4 DEF IDsInv
  <2>7. LocalInv(j, t, c)
    BY <2>4, <2>5, <2>6 DEF LocalInv, WaitInv, WakeInv, SignalInv, ToldInv
  <2>8. ASSUME NEW d \in Mine(p) PROVE LocalInv(conn[d], t, d)
    BY <2>2, <2>3, QuietKeeps, AlikeItself
  <2>9. SocketsOK
    BY <1>1, <2>1 DEF SocketsOK, Inv, TypeInv
  <2> QED
    BY <2>1, <2>3, <2>4, <2>7, <2>8, <2>9, LocalStep DEF SocketsOK, p
<1> QED
  BY <1>2, <1>3
-----------------------------------------------------------------------------
(* The call on top of the main thread's stack goes on, and nothing else    *)
(* becomes of the stack.                                                   *)
Topped(r, f, st) == r = [st EXCEPT ![1] = f]

SameCall(f, g) ==
    /\ f.op = g.op
    /\ f.op \in {"sync", "wait"} => f.c = g.c
    /\ f.op = "sync" => f.id = g.id
    /\ f.op = "wait" => (f.at = "register" <=> g.at = "register")

LEMMA LocalTop ==
    ASSUME NEW p, NEW q \in States(p), q.stack # <<>>, NEW f \in Frames(p), NEW t,
           Topped(t.stack, f, q.stack), SameCall(f, Head(q.stack)),
           NEW d, NEW k, LocalInv(k, q, d), ScheduleInv(t, d),
           SleepsOn(t, d) => ~Last(k.pending).reply /\ k.shouldWait,
           Asleep(t, d) => k.waiting.decoder = None
    PROVE  LocalInv(k, t, d)
<1>1. q.stack \in Seq(Frames(p)) /\ t.stack = [q.stack EXCEPT ![1] = f]
  BY DEF States, Topped
<1>2. t.stack # <<>> /\ Head(t.stack) = f
  BY <1>1, TopPlaces
<1>3. IsSync(f, d) <=> IsSync(Head(q.stack), d)
  BY DEF IsSync, SameCall
<1>4. IsSync(f, d) => f.id = Head(q.stack).id
  BY DEF IsSync, SameCall
<1>5. CallIDs(t.stack, d) = CallIDs(q.stack, d) /\ (CallsNest(q.stack, d) => CallsNest(t.stack, d))
  BY <1>1, <1>3, <1>4, CallsGoOn
<1>6. Registered(t, d) <=> Registered(q, d)
  BY <1>2 DEF Registered, SameCall
<1>7. Matches(k.pending, t.stack, d)
  BY <1>5 DEF LocalInv, Matches
<1>8. WaitInv(k, t, d) /\ WakeInv(k, t, d)
  BY <1>6 DEF LocalInv, WaitInv, WakeInv
<1> QED
  BY <1>7, <1>8 DEF LocalInv

LEMMA TopLocals ==
    ASSUME Inv, NEW p \in Processes, proc[p].stack # <<>>, NEW f \in Frames(p), NEW t \in States(p),
           Topped(t.stack, f, proc[p].stack), SameCall(f, Head(proc[p].stack)),
           t.alive = proc[p].alive, t.runLoop = proc[p].runLoop, t.scheduled = proc[p].scheduled,
           \A d \in Mine(p) : SleepsOn(t, d) => ~Last(conn[d].pending).reply /\ conn[d].shouldWait,
           \A d \in Mine(p) : Asleep(t, d) => conn[d].waiting.decoder = None
    PROVE  t.alive /\ ProcessInv(t) /\ \A d \in Mine(p) : LocalInv(conn[d], t, d)
<1>1. /\ proc[p] \in States(p) /\ ProcessInv(proc[p])
      /\ \A d \in Mine(p) : LocalInv(conn[d], proc[p], d)
  BY There
<1>2. t.alive
  BY <1>1 DEF ProcessInv
<1>3. ProcessInv(t)
  BY <1>1, <1>2, ProcessTop DEF Topped
<1>4. ASSUME NEW d \in Mine(p) PROVE LocalInv(conn[d], t, d)
  <2>1. ScheduleInv(t, d)
    BY <1>1, SameSchedule DEF LocalInv
  <2> QED
    BY <1>1, <2>1, LocalTop
<1> QED
  BY <1>2, <1>3, <1>4

LEMMA LocalsKeep ==
    ASSUME Inv, NEW p \in Processes, NEW t \in States(p), ProcessInv(t),
           \A d \in Mine(p) : LocalInv(conn[d], t, d),
           proc' = [proc EXCEPT ![p] = t], UNCHANGED conn, SocketsOK
    PROVE  Inv'
  BY ProcessStep DEF SocketsOK

(* A call other than sendSyncMessage() goes on top of those that are there. *)
LEMMA PushLocals ==
    ASSUME Inv, NEW p, NEW u \in States(p), ProcessInv(u), \A d \in Mine(p) : LocalInv(conn[d], u, d),
           u.stack = <<>> \/ Covered(Head(u.stack)),
           NEW f \in Frames(p), f.op # "sync", f.op = "wait" => f.at = "register",
           NEW t \in States(p), t.stack = Cons(f, u.stack), t.alive, t.runLoop = u.runLoop, t.scheduled = u.scheduled
    PROVE  ProcessInv(t) /\ \A d \in Mine(p) : LocalInv(conn[d], t, d)
<1>1. ProcessInv(t)
  BY ProcessPush
<1>2. ASSUME NEW d \in Mine(p) PROVE LocalInv(conn[d], t, d)
  <2>1. ScheduleInv(u, d) => ScheduleInv(t, d)
    BY SameSchedule
  <2>2. ~IsSync(f, d)
    BY DEF IsSync
  <2>3. Quiet(u, t, d)
    BY <2>1, <2>2, QuietPush
  <2> QED
    BY <2>3, QuietKeeps, AlikeItself
<1> QED
  BY <1>1, <1>2

DispatchFrame(allowed, rest) ==
    [op |-> "dispatch", at |-> "", allowed |-> allowed, rest |-> rest, back |-> <<>>]

LEMMA DispatchEffect ==
    ASSUME NEW p, NEW q \in States(p), NEW allowed \in Mine(p) \cup {None}, NEW t, t = DispatchMessages(q, allowed),
           NEW f, f = DispatchFrame(allowed, q.toDispatch)
    PROVE  /\ t \in States(p) /\ f \in Frames(p) /\ f.op = "dispatch" /\ t.stack = Cons(f, q.stack)
           /\ f.allowed = allowed /\ f.back = <<>> /\ f.rest = q.toDispatch
           /\ t.alive = q.alive /\ t.runLoop = q.runLoop /\ t.scheduled = q.scheduled
           /\ t.semaphore = q.semaphore /\ t.toDispatch = <<>>
<1> DEFINE u == [q EXCEPT !.toDispatch = <<>>]
<1>1. <<>> \in Seq(Entries(p)) /\ q.toDispatch \in Seq(Entries(p))
  BY EmptyFacts DEF States
<1>2. f \in DispatchFrames(p) /\ f.op = "dispatch" /\ f.allowed = allowed /\ f.back = <<>> /\ f.rest = q.toDispatch
  BY <1>1 DEF DispatchFrame, DispatchFrames
<1>3. f \in Frames(p)
  BY <1>2 DEF Frames
<1>4. /\ u \in States(p) /\ u.stack = q.stack /\ u.alive = q.alive /\ u.runLoop = q.runLoop
      /\ u.scheduled = q.scheduled /\ u.semaphore = q.semaphore /\ u.toDispatch = <<>>
  BY <1>1 DEF States
<1>5. t = Push(u, f)
  BY DEF DispatchMessages, DispatchFrame
<1> HIDE DEF u
<1>6. t \in States(p) /\ t.stack = Cons(f, u.stack) /\ SameButStack(u, t)
  BY <1>3, <1>4, <1>5, PushEffect
<1> QED
  BY <1>2, <1>3, <1>4, <1>6 DEF SameButStack

(* GoOn() on the call of sendSyncMessage() or waitForMessage().            *)
SyncPlaces == {"dispatch", "check", "wait", "return"}
WaitPlaces == {"register", "check", "asleep", "notified", "timedOut"}

Goes(p, q, t, at) ==
    /\ t \in States(p) /\ t.stack # <<>> /\ Head(t.stack) \in Frames(p)
    /\ Topped(t.stack, Head(t.stack), q.stack)
    /\ Head(t.stack).op = Head(q.stack).op /\ Head(t.stack).c = Head(q.stack).c
    /\ Head(t.stack).at = at
    /\ Head(t.stack).op = "sync" => Head(t.stack).id = Head(q.stack).id /\ Head(t.stack).ok = Head(q.stack).ok

CanGo(f, at) == (f.op = "sync" /\ at \in SyncPlaces) \/ (f.op = "wait" /\ at \in WaitPlaces)

LEMMA GoesOn ==
    ASSUME NEW p, NEW q \in States(p), q.stack # <<>>, NEW at, CanGo(Head(q.stack), at), NEW t, t = GoOn(q, at)
    PROVE  Goes(p, q, t, at) /\ SameButStack(q, t)
<1> DEFINE g == Head(q.stack)
           f == [g EXCEPT !.at = at]
<1>1. q.stack \in Seq(Frames(p)) /\ g \in Frames(p)
  BY TailFacts DEF States
<1>2. f \in Frames(p) /\ f.op = g.op /\ f.c = g.c /\ f.at = at /\ (g.op = "sync" => f.id = g.id /\ f.ok = g.ok)
  <2>0. g \in Frames(p) /\ CanGo(g, at)
    BY <1>1
  <2> HIDE DEF g
  <2>1. CASE g.op = "sync" /\ at \in SyncPlaces
    <3>1. g \in SyncFrames(p)
      BY <2>0, <2>1, FrameFacts
    <3>2. f \in SyncFrames(p) /\ f.op = g.op /\ f.c = g.c /\ f.at = at /\ f.id = g.id /\ f.ok = g.ok
      BY <2>1, <3>1 DEF SyncFrames, SyncPlaces
    <3> QED
      BY <3>2 DEF Frames
  <2>2. CASE g.op = "wait" /\ at \in WaitPlaces
    <3>1. g \in WaitFrames(p)
      BY <2>0, <2>2, FrameFacts
    <3>2. f \in WaitFrames(p) /\ f.op = g.op /\ f.c = g.c /\ f.at = at
      BY <2>2, <3>1 DEF WaitFrames, WaitPlaces
    <3> QED
      BY <2>2, <3>2 DEF Frames
  <2> QED
    BY <2>0, <2>1, <2>2 DEF CanGo
<1>3. t \in States(p) /\ t.stack = [q.stack EXCEPT ![1] = f] /\ SameButStack(q, t)
  BY <1>2, GoOnEffect
<1> HIDE DEF f
<1>4. t.stack # <<>> /\ Head(t.stack) = f
  BY <1>1, <1>2, <1>3, TopPlaces
<1> QED
  BY <1>2, <1>3, <1>4 DEF Goes, Topped

LEMMA GoesSame ==
    ASSUME NEW p, NEW q, NEW t, NEW at, Goes(p, q, t, at), CanGo(Head(q.stack), at),
           Head(q.stack).op = "wait" => (at = "register" <=> Head(q.stack).at = "register")
    PROVE  SameCall(Head(t.stack), Head(q.stack))
  BY DEF Goes, SameCall

(* What can be said of the top of a stack.                                 *)
LEMMA TopFacts ==
    ASSUME Inv, NEW p \in Processes, proc[p].stack # <<>>
    PROVE  /\ proc[p] \in States(p) /\ ProcessInv(proc[p]) /\ proc[p].alive
           /\ proc[p].stack \in Seq(Frames(p)) /\ Head(proc[p].stack) \in Frames(p)
<1>1. proc[p] \in States(p) /\ ProcessInv(proc[p])
  BY There
<1>2. proc[p].stack \in Seq(Frames(p)) /\ Head(proc[p].stack) \in Frames(p)
  BY <1>1, TailFacts DEF States
<1> QED
  BY <1>1, <1>2 DEF ProcessInv

LEMMA TopConnection ==
    ASSUME Inv, NEW p \in Processes, proc[p].stack # <<>>,
           Head(proc[p].stack).op \in {"handle", "sync", "dispatchMessages", "wait"},
           NEW c, c = Head(proc[p].stack).c
    PROVE  /\ c \in Mine(p) /\ c \in Endpoints /\ processOf[c] = p
           /\ conn[c] \in Connections /\ LocalInv(conn[c], proc[p], c)
<1>1. c \in Mine(p)
  BY TopFacts, FrameFacts
<1> QED
  BY <1>1, There

LEMMA AtFacts ==
    ASSUME NEW p, NEW op, NEW at, At(p, op, at)
    PROVE  /\ proc[p].stack # <<>> /\ Head(proc[p].stack).op = op /\ Head(proc[p].stack).at = at
           /\ Top(p) = Head(proc[p].stack)
  BY DEF At, In, Top

(* and is registered afterwards if it was before.                          *)
CanGoOn(f, at) == CanGo(f, at) /\ (f.op = "wait" => (at = "register" <=> f.at = "register"))

LEMMA GoOnFacts ==
    ASSUME Inv, NEW p \in Processes, proc[p].stack # <<>>, NEW at, CanGoOn(Head(proc[p].stack), at),
           NEW u, u = GoOn(proc[p], at)
    PROVE  /\ u \in States(p) /\ SameCall(Head(u.stack), Head(proc[p].stack)) /\ u.stack # <<>>
           /\ Head(u.stack) \in Frames(p) /\ Topped(u.stack, Head(u.stack), proc[p].stack)
           /\ Head(u.stack).op = Head(proc[p].stack).op /\ Head(u.stack).c = Head(proc[p].stack).c
           /\ Head(u.stack).at = at /\ u.alive = proc[p].alive /\ u.runLoop = proc[p].runLoop
           /\ u.scheduled = proc[p].scheduled /\ u.semaphore = proc[p].semaphore
           /\ u.toDispatch = proc[p].toDispatch
<1>1. proc[p] \in States(p)
  BY TopFacts
<1>2. Goes(p, proc[p], u, at) /\ SameButStack(proc[p], u)
  BY <1>1, GoesOn DEF CanGoOn
<1>3. SameCall(Head(u.stack), Head(proc[p].stack))
  BY <1>2, GoesSame DEF CanGoOn
<1> QED
  BY <1>2, <1>3 DEF Goes, SameButStack
-----------------------------------------------------------------------------
LEMMA SyncDispatchKeeps ==
    ASSUME Inv, NEW p \in Processes, SyncDispatch(p)
    PROVE  Inv'
<1> DEFINE q == proc[p]
           a == "check"
           u == GoOn(q, a)
           n == None
           t == DispatchMessages(u, n)
           f == DispatchFrame(n, u.toDispatch)
<1>1. q.stack # <<>> /\ Head(q.stack).op = "sync"
  BY AtFacts DEF SyncDispatch
<1>2. proc' = [proc EXCEPT ![p] = IF q.toDispatch = <<>> THEN u ELSE t] /\ UNCHANGED conn /\ SocketsOK
  BY SameSocketsOK DEF SyncDispatch
<1>3. q \in States(p)
  BY <1>1, TopFacts
<1>4. CanGo(Head(q.stack), a) /\ u = GoOn(q, a)
  BY <1>1 DEF CanGo, SyncPlaces
<1>5. a = "check" /\ n \in Mine(p) \cup {None} /\ t = DispatchMessages(u, n) /\ f = DispatchFrame(n, u.toDispatch)
  OBVIOUS
<1> HIDE DEF a, u, n, t, f
<1>6. Goes(p, q, u, a) /\ SameButStack(q, u)
  BY <1>1, <1>3, <1>4, GoesOn
<1>7. SameCall(Head(u.stack), Head(q.stack))
  BY <1>1, <1>4, <1>6, GoesSame
<1>8. Covered(Head(u.stack)) /\ u \in States(p) /\ Head(u.stack) \in Frames(p) /\ Topped(u.stack, Head(u.stack), q.stack)
  BY <1>1, <1>5, <1>6 DEF Covered, Goes
<1>9. \A d : ~SleepsOn(u, d) /\ ~Asleep(u, d)
  BY <1>8, CoveredFacts
<1>10. u.alive = q.alive /\ u.runLoop = q.runLoop /\ u.scheduled = q.scheduled
  BY <1>6 DEF SameButStack
<1>11. u.alive /\ ProcessInv(u) /\ \A d \in Mine(p) : LocalInv(conn[d], u, d)
  BY <1>1, <1>7, <1>8, <1>9, <1>10, TopLocals
<1>12. CASE q.toDispatch = <<>>
  <2>1. proc' = [proc EXCEPT ![p] = u]
    BY <1>2, <1>12
  <2> QED
    BY <2>1, <1>2, <1>8, <1>11, LocalsKeep
<1>13. CASE q.toDispatch # <<>>
  <2>1. proc' = [proc EXCEPT ![p] = t]
    BY <1>2, <1>13
  <2>2. /\ t \in States(p) /\ f \in Frames(p) /\ f.op = "dispatch" /\ t.stack = Cons(f, u.stack)
        /\ t.alive = u.alive /\ t.runLoop = u.runLoop /\ t.scheduled = u.scheduled
    BY <1>5, <1>8, DispatchEffect
  <2>3. ProcessInv(t) /\ \A d \in Mine(p) : LocalInv(conn[d], t, d)
    BY <1>8, <1>11, <2>2, PushLocals
  <2> QED
    BY <2>1, <2>2, <2>3, <1>2, LocalsKeep
<1> QED
  BY <1>12, <1>13

LEMMA SyncWakesKeeps ==
    ASSUME Inv, NEW p \in Processes, SyncWakes(p)
    PROVE  Inv'
<1> DEFINE q == proc[p]
           a == "dispatch"
           u == GoOn(q, a)
           t == [u EXCEPT !.semaphore = FALSE]
<1>1. q.stack # <<>> /\ Head(q.stack).op = "sync"
  BY AtFacts DEF SyncWakes
<1>2. proc' = [proc EXCEPT ![p] = t] /\ UNCHANGED conn /\ SocketsOK
  BY SameSocketsOK DEF SyncWakes
<1>3. q \in States(p)
  BY <1>1, TopFacts
<1>4. CanGo(Head(q.stack), a) /\ u = GoOn(q, a) /\ a = "dispatch"
  BY <1>1 DEF CanGo, SyncPlaces
<1> HIDE DEF a, u
<1>6. Goes(p, q, u, a) /\ SameButStack(q, u)
  BY <1>1, <1>3, <1>4, GoesOn
<1>7. SameCall(Head(u.stack), Head(q.stack))
  BY <1>1, <1>4, <1>6, GoesSame
<1>8. u \in States(p) /\ Head(u.stack) \in Frames(p) /\ Topped(u.stack, Head(u.stack), q.stack)
      /\ Head(u.stack).op = "sync" /\ Head(u.stack).at = "dispatch"
  BY <1>1, <1>4, <1>6 DEF Goes
<1>9. /\ t \in States(p) /\ t.stack = u.stack /\ t.alive = u.alive /\ t.runLoop = u.runLoop
      /\ t.scheduled = u.scheduled
  BY <1>8 DEF States
<1> HIDE DEF t
<1>10. \A d : ~SleepsOn(t, d) /\ ~Asleep(t, d)
  BY <1>8, <1>9 DEF SleepsOn, Asleep, Registered
<1>11. t.alive = q.alive /\ t.runLoop = q.runLoop /\ t.scheduled = q.scheduled
  BY <1>6, <1>9 DEF SameButStack
<1>12. ProcessInv(t) /\ \A d \in Mine(p) : LocalInv(conn[d], t, d)
  BY <1>1, <1>7, <1>8, <1>9, <1>10, <1>11, TopLocals
<1> QED
  BY <1>2, <1>9, <1>12, LocalsKeep

LEMMA SyncTimesOutKeeps ==
    ASSUME Inv, NEW p \in Processes, SyncTimesOut(p)
    PROVE  Inv'
<1> DEFINE q == proc[p]
           a == "return"
           u == GoOn(q, a)
<1>1. q.stack # <<>> /\ Head(q.stack).op = "sync"
  BY AtFacts DEF SyncTimesOut
<1>2. proc' = [proc EXCEPT ![p] = u] /\ UNCHANGED conn /\ SocketsOK
  BY SameSocketsOK DEF SyncTimesOut
<1>3. q \in States(p)
  BY <1>1, TopFacts
<1>4. CanGo(Head(q.stack), a) /\ u = GoOn(q, a) /\ a = "return"
  BY <1>1 DEF CanGo, SyncPlaces
<1> HIDE DEF a, u
<1>6. Goes(p, q, u, a) /\ SameButStack(q, u)
  BY <1>1, <1>3, <1>4, GoesOn
<1>7. SameCall(Head(u.stack), Head(q.stack))
  BY <1>1, <1>4, <1>6, GoesSame
<1>8. u \in States(p) /\ Head(u.stack) \in Frames(p) /\ Topped(u.stack, Head(u.stack), q.stack)
      /\ Head(u.stack).op = "sync" /\ Head(u.stack).at = "return"
  BY <1>1, <1>4, <1>6 DEF Goes
<1>10. \A d : ~SleepsOn(u, d) /\ ~Asleep(u, d)
  BY <1>8 DEF SleepsOn, Asleep, Registered
<1>11. u.alive = q.alive /\ u.runLoop = q.runLoop /\ u.scheduled = q.scheduled
  BY <1>6 DEF SameButStack
<1>12. ProcessInv(u) /\ \A d \in Mine(p) : LocalInv(conn[d], u, d)
  BY <1>1, <1>7, <1>8, <1>10, <1>11, TopLocals
<1> QED
  BY <1>2, <1>8, <1>12, LocalsKeep

LEMMA SyncCheckKeeps ==
    ASSUME Inv, NEW p \in Processes, SyncCheck(p)
    PROVE  Inv'
<1> DEFINE q == proc[p]
           c == Head(q.stack).c
           k == conn[c]
           reply == Last(k.pending).reply
           a == "return"
           b == "wait"
           u == GoOn(q, a)
           v == GoOn(q, b)
           t == [u EXCEPT !.stack[1].ok = reply]
           stop == reply \/ ~k.shouldWait \/ ~k.client
<1>1. q.stack # <<>> /\ Head(q.stack).op = "sync" /\ Top(p) = Head(q.stack)
  BY AtFacts DEF SyncCheck
<1>2. proc' = [proc EXCEPT ![p] = IF stop THEN t ELSE v] /\ UNCHANGED conn /\ SocketsOK
  BY <1>1, SameSocketsOK DEF SyncCheck
<1>3. q \in States(p) /\ q.stack \in Seq(Frames(p))
  BY <1>1, TopFacts
<1>4. c \in Mine(p) /\ LocalInv(k, q, c) /\ k \in Connections
  BY <1>1, TopConnection
<1>5. reply \in BOOLEAN
  <2>1. IsSync(Head(q.stack), c) /\ k.pending \in Seq(PendingReplies) /\ Matches(k.pending, q.stack, c)
    BY <1>1, <1>4 DEF IsSync, LocalInv, Connections
  <2>2. Last(k.pending) \in PendingReplies
    BY <1>1, <1>3, <2>1, TopCall
  <2> QED
    BY <2>2 DEF PendingReplies
<1>6. CanGoOn(Head(q.stack), a) /\ u = GoOn(q, a) /\ CanGoOn(Head(q.stack), b) /\ v = GoOn(q, b) /\ a = "return" /\ b = "wait"
  BY <1>1 DEF CanGoOn, CanGo, SyncPlaces
<1>7. CASE ~stop
  <2>1. proc' = [proc EXCEPT ![p] = v]
    BY <1>2, <1>7
  <2> HIDE DEF b, v
  <2>2. /\ v \in States(p) /\ SameCall(Head(v.stack), Head(q.stack)) /\ Head(v.stack) \in Frames(p)
        /\ Topped(v.stack, Head(v.stack), q.stack)
        /\ Head(v.stack).op = "sync" /\ Head(v.stack).c = c
        /\ v.alive = q.alive /\ v.runLoop = q.runLoop /\ v.scheduled = q.scheduled
    BY <1>1, <1>6, GoOnFacts
  <2>3. \A d \in Mine(p) : SleepsOn(v, d) => ~Last(conn[d].pending).reply /\ conn[d].shouldWait
    BY <1>7, <2>2 DEF SleepsOn, IsSync
  <2>4. \A d \in Mine(p) : ~Asleep(v, d)
    BY <2>2 DEF Asleep, Registered
  <2>5. ProcessInv(v) /\ \A d \in Mine(p) : LocalInv(conn[d], v, d)
    BY <1>1, <2>2, <2>3, <2>4, TopLocals
  <2> QED
    BY <2>1, <2>2, <2>5, <1>2, LocalsKeep
<1>8. CASE stop
  <2>1. proc' = [proc EXCEPT ![p] = t]
    BY <1>2, <1>8
  <2>0. t = [u EXCEPT !.stack[1].ok = reply]
    OBVIOUS
  <2> HIDE DEF a, u, t, reply
  <2>2. /\ u \in States(p) /\ SameCall(Head(u.stack), Head(q.stack)) /\ Head(u.stack) \in Frames(p)
        /\ Topped(u.stack, Head(u.stack), q.stack) /\ u.stack # <<>>
        /\ Head(u.stack).op = "sync" /\ Head(u.stack).c = c /\ Head(u.stack).at = a
        /\ u.alive = q.alive /\ u.runLoop = q.runLoop /\ u.scheduled = q.scheduled
    BY <1>1, <1>6, GoOnFacts
  <2> DEFINE g == Head(u.stack)
             f == [g EXCEPT !.ok = reply]
  <2>3. f \in Frames(p) /\ f.op = "sync" /\ f.c = g.c /\ f.id = g.id /\ f.at = "return"
    <3>1. g \in SyncFrames(p)
      BY <2>2, FrameFacts
    <3>2. f \in SyncFrames(p) /\ f.op = "sync" /\ f.c = g.c /\ f.id = g.id /\ f.at = "return"
      BY <3>1, <1>5, <1>6, <2>2 DEF SyncFrames
    <3> QED
      BY <3>2 DEF Frames
  <2>4. u.stack \in Seq(Frames(p)) /\ g = u.stack[1] /\ 1 \in DOMAIN u.stack /\ q.stack \in Seq(Frames(p))
        /\ 1 \in DOMAIN q.stack
    BY <2>2, <1>1, <1>3, TailPlaces DEF States
  <2>5. t = [u EXCEPT !.stack = [u.stack EXCEPT ![1] = f]]
    BY <2>0, <2>2, <2>4 DEF States
  <2> HIDE DEF f
  <2>6. [u.stack EXCEPT ![1] = f] \in Seq(Frames(p))
    BY <2>2, <2>3, <2>4, TopPlaces
  <2>7. /\ t \in States(p) /\ t.stack = [u.stack EXCEPT ![1] = f]
        /\ t.alive = u.alive /\ t.runLoop = u.runLoop /\ t.scheduled = u.scheduled
    BY <2>2, <2>5, <2>6 DEF States
  <2>8. Topped(t.stack, f, q.stack)
    BY <2>2, <2>4, <2>7 DEF Topped
  <2>9. Head(t.stack) = f
    BY <2>2, <2>3, <2>4, <2>7, TopPlaces
  <2>10. SameCall(f, Head(q.stack))
    BY <2>2, <2>3 DEF SameCall
  <2>11. \A d : ~SleepsOn(t, d) /\ ~Asleep(t, d)
    BY <2>3, <2>9 DEF SleepsOn, Asleep, Registered
  <2>12. t.alive = q.alive /\ t.runLoop = q.runLoop /\ t.scheduled = q.scheduled
    BY <2>2, <2>7
  <2>13. ProcessInv(t) /\ \A d \in Mine(p) : LocalInv(conn[d], t, d)
    BY <1>1, <2>3, <2>7, <2>8, <2>10, <2>11, <2>12, TopLocals
  <2> QED
    BY <2>1, <2>7, <2>13, <1>2, LocalsKeep
<1> QED
  BY <1>7, <1>8

(* The end of sendSyncMessage(): its request is the one popped.            *)
LEMMA CallEnds ==
    ASSUME NEW p, NEW q \in States(p), q.stack # <<>>, ProcessInv(q), NEW k \in Connections, NEW c, LocalInv(k, q, c),
           IsSync(Head(q.stack), c), NEW t, t.stack = Tail(q.stack), ScheduleInv(q, c) => ScheduleInv(t, c),
           NEW j, j.pending = Front(k.pending), j.lastID = k.lastID, j.secondary = k.secondary,
           j.waiting = k.waiting, j.shouldWait = k.shouldWait, j.told = k.told, j.client = k.client
    PROVE  LocalInv(j, t, c)
<1>1. q.stack \in Seq(Frames(p)) /\ k.pending \in Seq(PendingReplies)
  BY DEF States, Connections
<1>2. /\ Matches(k.pending, q.stack, c) /\ IDsInv(k) /\ ScheduleInv(q, c)
      /\ WaitInv(k, q, c) /\ WakeInv(k, q, c) /\ SignalInv(k) /\ ToldInv(k)
  BY DEF LocalInv
<1>3. k.pending # <<>> /\ Last(k.pending).id = Head(q.stack).id
  BY <1>1, <1>2, TopCall
<1>4. PendingNest(k.pending) /\ CallsNest(q.stack, c) /\ PendingIDs(k.pending) = CallIDs(q.stack, c)
  BY <1>2 DEF Matches
<1>5. PendingIDs(j.pending) = PendingIDs(k.pending) \ {Last(k.pending).id} /\ PendingNest(j.pending)
  BY <1>1, <1>3, <1>4, PendingPop
<1>6. CallIDs(t.stack, c) = CallIDs(q.stack, c) \ {Head(q.stack).id} /\ CallsNest(t.stack, c)
  BY <1>1, <1>4, CallsPop
<1>7. Matches(j.pending, t.stack, c)
  BY <1>3, <1>4, <1>5, <1>6 DEF Matches
<1>8. IDsInv(j)
  BY <1>2, <1>5 DEF IDsInv
<1>9. t.stack = <<>> \/ Covered(Head(t.stack))
  BY PoppedTop
<1>10. ~Registered(t, c) /\ ~Asleep(t, c) /\ ~SleepsOn(t, c)
  BY <1>9, CoveredFacts
<1>11. ~Registered(q, c)
  BY DEF Registered, IsSync
<1>12. WaitInv(j, t, c) /\ WakeInv(j, t, c)
  BY <1>2, <1>10, <1>11 DEF WaitInv, WakeInv
<1>13. SignalInv(j) /\ ToldInv(j) /\ ScheduleInv(t, c)
  BY <1>2 DEF SignalInv, ToldInv
<1> QED
  BY <1>7, <1>8, <1>12, <1>13 DEF LocalInv

LEMMA SyncReturnsKeeps ==
    ASSUME Inv, NEW p \in Processes, SyncReturns(p)
    PROVE  Inv'
<1> DEFINE q == proc[p]
           c == Head(q.stack).c
           k == conn[c]
           j == [k EXCEPT !.pending = Front(@)]
           t == Pop(q)
<1>1. q.stack # <<>> /\ Head(q.stack).op = "sync" /\ Top(p) = Head(q.stack)
  BY AtFacts DEF SyncReturns
<1>2. c \in Mine(p) /\ LocalInv(k, q, c) /\ k \in Connections /\ c \in Endpoints /\ processOf[c] = p
  BY <1>1, TopConnection
<1>3. q \in States(p) /\ q.stack \in Seq(Frames(p)) /\ ProcessInv(q) /\ q.alive
      /\ \A d \in Mine(p) : LocalInv(conn[d], q, d)
  BY <1>1, TopFacts, There
<1>4. \/ DidFailToSendSyncMessage(c, t, j)
      \/ proc' = [proc EXCEPT ![p] = t] /\ conn' = [conn EXCEPT ![c] = j] /\ UNCHANGED socket
  BY <1>1 DEF SyncReturns
<1>5. DOMAIN calls' = Endpoints
  BY DEF SyncReturns, Inv, TypeInv
<1>6. CASE Die(p)
  BY <1>5, <1>6, DieKeeps
<1>7. CASE proc' = [proc EXCEPT ![p] = t] /\ conn' = [conn EXCEPT ![c] = j] /\ UNCHANGED socket
  <2>1. t \in States(p) /\ t.stack = Tail(q.stack) /\ SameButStack(q, t)
    BY <1>1, <1>3, PopEffect
  <2>2. t.alive /\ t.runLoop = q.runLoop /\ t.scheduled = q.scheduled
    BY <2>1, <1>3 DEF SameButStack
  <2>3. \A d : ScheduleInv(q, d) => ScheduleInv(t, d)
    BY <2>2, SameSchedule
  <2>4. ProcessInv(t)
    BY <1>1, <1>3, <2>1, <2>2, ProcessPop
  <2>5. IsSync(Head(q.stack), c)
    BY <1>1 DEF IsSync
  <2>6. k.pending \in Seq(PendingReplies) /\ k.pending # <<>>
    <3>1. Matches(k.pending, q.stack, c) /\ k.pending \in Seq(PendingReplies)
      BY <1>2 DEF LocalInv, Connections
    <3> QED
      BY <3>1, <1>1, <1>3, <2>5, TopCall
  <2>7. Front(k.pending) \in Seq(PendingReplies)
    BY <2>6, FrontFacts
  <2>8. /\ j \in Connections /\ j.pending = Front(k.pending) /\ j.lastID = k.lastID
        /\ j.secondary = k.secondary /\ j.waiting = k.waiting /\ j.shouldWait = k.shouldWait
        /\ j.told = k.told /\ j.client = k.client
    <3> HIDE DEF k
    <3> QED
      BY <1>2, <2>7 DEF Connections
  <2> HIDE DEF j, k, t, c
  <2>9. LocalInv(j, t, c)
    BY <1>1, <1>2, <1>3, <2>1, <2>3, <2>5, <2>8, CallEnds
  <2>10. ASSUME NEW d \in Mine(p), d # c PROVE LocalInv(conn[d], t, d)
    <3>1. ~IsSync(Head(q.stack), d) /\ ~Registered(q, d)
      BY <1>1, <2>5, <2>10 DEF IsSync, Registered
    <3>2. Quiet(q, t, d)
      BY <1>1, <1>3, <2>1, <2>3, <3>1, QuietPop
    <3> QED
      BY <3>2, <1>3, QuietKeeps, AlikeItself
  <2>11. SocketsOK
    BY <1>5, <1>7 DEF SocketsOK, Inv, TypeInv
  <2> QED
    BY <1>2, <1>7, <2>1, <2>4, <2>8, <2>9, <2>10, <2>11, LocalStep DEF SocketsOK
<1> QED
  BY <1>2, <1>4, <1>6, <1>7 DEF DidFailToSendSyncMessage

(* A step of the process p and its connections.                            *)
LEMMA MineStep ==
    ASSUME Inv, NEW p \in Processes, NEW t \in States(p), proc' = [proc EXCEPT ![p] = t],
           conn' \in [Endpoints -> Connections], \A d \in Endpoints : d \notin Mine(p) => conn'[d] = conn[d],
           SocketsOK, ProcessInv(t), \A d \in Mine(p) : LocalInv(conn'[d], t, d)
    PROVE  Inv'
<1>1. TypeInv'
  BY DEF Inv, TypeInv, SocketsOK
<1>2. ASSUME NEW d \in Endpoints PROVE LocalInv(conn'[d], proc'[processOf[d]], d)
  <2>1. CASE d \in Mine(p)
    <3>1. proc'[processOf[d]] = t
      BY <2>1, MineFacts DEF Inv, TypeInv
    <3> QED
      BY <2>1, <3>1
  <2>2. CASE d \notin Mine(p)
    <3>1. conn'[d] = conn[d] /\ proc'[processOf[d]] = proc[processOf[d]]
      BY <2>2, MineFacts DEF Inv, TypeInv
    <3> QED
      BY <3>1 DEF Inv
  <2> QED
    BY <2>1, <2>2
<1>3. ASSUME NEW r \in Processes PROVE ProcessInv(proc'[r])
  BY DEF Inv, TypeInv
<1> QED
  BY <1>1, <1>2, <1>3 DEF Inv

(* A handler starts when the process has become u.                         *)
LEMMA HandlerKeeps ==
    ASSUME Inv, NEW p \in Processes, NEW c \in Mine(p), NEW m \in Message, NEW u \in States(p),
           u.alive, ProcessInv(u), u.stack = <<>> \/ Covered(Head(u.stack)),
           conn' \in [Endpoints -> Connections], \A d \in Endpoints : d \notin Mine(p) => conn'[d] = conn[d],
           \A d \in Mine(p) : LocalInv(conn'[d], u, d),
           NEW t, t = Push(u, Handler(c, m)), proc' = [proc EXCEPT ![p] = t], SocketsOK
    PROVE  Inv'
<1> DEFINE f == Handler(c, m)
<1>1. f \in Frames(p) /\ f.op = "handle" /\ t = Push(u, f)
  <2>1. f \in HandleFrames(p) /\ f.op = "handle"
    BY DEF HandleFrames, Handler
  <2> QED
    BY <2>1 DEF Frames
<1> HIDE DEF f
<1>2. t \in States(p) /\ t.stack = Cons(f, u.stack) /\ SameButStack(u, t)
  BY <1>1, PushEffect
<1>3. t.alive /\ t.runLoop = u.runLoop /\ t.scheduled = u.scheduled
  BY <1>2 DEF SameButStack
<1>4. ProcessInv(t)
  BY <1>1, <1>2, <1>3, ProcessPush
<1>5. ASSUME NEW d \in Mine(p) PROVE LocalInv(conn'[d], t, d)
  <2>1. ScheduleInv(u, d) => ScheduleInv(t, d)
    BY <1>3, SameSchedule
  <2>2. ~IsSync(f, d) /\ f.op # "wait"
    BY <1>1 DEF IsSync
  <2>3. Quiet(u, t, d)
    BY <1>1, <1>2, <2>1, <2>2, QuietPush
  <2> QED
    BY <2>3, QuietKeeps, AlikeItself
<1> QED
  BY <1>2, <1>4, <1>5, MineStep

(* dispatchMessage(), when the process has become u.                       *)
LEMMA DispatchMessageKeeps ==
    ASSUME Inv, NEW p \in Processes, NEW c \in Mine(p), NEW m \in Message, NEW u \in States(p),
           u.alive, ProcessInv(u), u.stack = <<>> \/ Covered(Head(u.stack)),
           conn' \in [Endpoints -> Connections], \A d \in Endpoints : d \notin Mine(p) => conn'[d] = conn[d],
           \A d \in Mine(p) : LocalInv(conn'[d], u, d),
           DispatchMessage(c, m, u), UNCHANGED socket
    PROVE  Inv'
<1> DEFINE t == Push(u, Handler(c, m))
<1>1. processOf[c] = p
  BY MineFacts
<1>2. SocketsOK
  BY DEF SocketsOK, DispatchMessage, Inv, TypeInv
<1>3. CASE ~conn[c].client
  <2>1. proc' = [proc EXCEPT ![p] = u]
    BY <1>1, <1>3 DEF DispatchMessage
  <2> QED
    BY <1>2, <2>1, MineStep
<1>4. CASE conn[c].client
  <2>1. proc' = [proc EXCEPT ![p] = t] /\ t = Push(u, Handler(c, m))
    BY <1>1, <1>4 DEF DispatchMessage
  <2> HIDE DEF t
  <2> QED
    BY <1>2, <2>1, HandlerKeeps
<1> QED
  BY <1>3, <1>4

LEMMA HandlerReturnsKeeps ==
    ASSUME Inv, NEW p \in Processes, HandlerReturns(p)
    PROVE  Inv'
<1> DEFINE q == proc[p]
           c == Head(q.stack).c
           m == Head(q.stack).m
           t == Pop(q)
           n == "SyncMessageReply"
           b == FALSE
           id == m.id
           k == SendMessage(conn[c], n, b, id)
<1>1. q.stack # <<>> /\ Head(q.stack).op = "handle" /\ Top(p) = Head(q.stack)
  BY AtFacts DEF HandlerReturns
<1>2. c \in Mine(p) /\ conn[c] \in Connections /\ c \in Endpoints /\ processOf[c] = p
  BY <1>1, TopConnection
<1>3. q \in States(p) /\ ProcessInv(q) /\ q.alive /\ Head(q.stack) \in Frames(p)
  BY <1>1, TopFacts
<1>4. id \in Nat /\ n \in Names \cup {"sync", "SyncMessageReply"} /\ b \in BOOLEAN
  <2>1. Head(q.stack) \in HandleFrames(p)
    BY <1>1, <1>3, FrameFacts
  <2>2. m \in Message
    BY <2>1 DEF HandleFrames
  <2> QED
    BY <2>2 DEF Message
<1>5. proc' = [proc EXCEPT ![p] = t] /\ (UNCHANGED conn \/ conn' = [conn EXCEPT ![c] = k])
  BY <1>1 DEF HandlerReturns
<1>6. SocketsOK
  BY DEF HandlerReturns, SocketsOK, Inv, TypeInv
<1>7. k = SendMessage(conn[c], n, b, id)
  OBVIOUS
<1> HIDE DEF c, m, n, b, id, k
<1>8. t \in States(p) /\ t.stack = Tail(q.stack) /\ SameButStack(q, t)
  BY <1>1, <1>3, PopEffect
<1> HIDE DEF t
<1>9. t.alive /\ t.runLoop = q.runLoop /\ t.scheduled = q.scheduled
  BY <1>8, <1>3 DEF SameButStack
<1>10. ProcessInv(t)
  BY <1>1, <1>3, <1>8, <1>9, ProcessPop
<1>11. ASSUME NEW d \in Mine(p) PROVE Quiet(q, t, d)
  <2>1. ~IsSync(Head(q.stack), d) /\ ~Registered(q, d)
    BY <1>1 DEF IsSync, Registered
  <2>2. ScheduleInv(q, d) => ScheduleInv(t, d)
    BY <1>9, SameSchedule
  <2> QED
    BY <1>1, <1>3, <1>8, <2>1, <2>2, QuietPop
<1>12. k \in Connections /\ Alike(conn[c], k)
  BY <1>2, <1>4, <1>7, SendEffect
<1>13. CASE UNCHANGED conn
  BY <1>5, <1>6, <1>8, <1>10, <1>11, <1>13, QuietProcess
<1>14. CASE conn' = [conn EXCEPT ![c] = k]
  BY <1>2, <1>5, <1>6, <1>8, <1>10, <1>11, <1>12, <1>14, QuietStep
<1> QED
  BY <1>5, <1>13, <1>14

(* A turn of the loop of dispatchMessages().                               *)
Turn(q) == [q EXCEPT !.stack[1].rest = Tail(@)]
PutBack(q, e) == [q EXCEPT !.stack[1].back = Append(@, e)]
TurnedFrame(g) == [g EXCEPT !.rest = Tail(@)]
BackFrame(g, e) == [g EXCEPT !.back = Append(@, e)]

LEMMA TurnEffect ==
    ASSUME NEW p, NEW q \in States(p), q.stack # <<>>, NEW g, g = Head(q.stack), g \in DispatchFrames(p),
           g.rest # <<>>, NEW u, u = Turn(q)
    PROVE  /\ u \in States(p) /\ SameButStack(q, u)
           /\ TurnedFrame(g) \in DispatchFrames(p) /\ Head(u.stack) = TurnedFrame(g) /\ u.stack # <<>>
           /\ Topped(u.stack, TurnedFrame(g), q.stack)
           /\ TurnedFrame(g).rest = Tail(g.rest) /\ TurnedFrame(g).back = g.back
           /\ TurnedFrame(g).allowed = g.allowed
<1> DEFINE f == TurnedFrame(g)
<1>1. g.rest \in Seq(Entries(p)) /\ Tail(g.rest) \in Seq(Entries(p))
  BY TailFacts DEF DispatchFrames
<1>2. f \in DispatchFrames(p) /\ f.rest = Tail(g.rest) /\ f.back = g.back /\ f.allowed = g.allowed
  BY <1>1 DEF DispatchFrames, TurnedFrame
<1>3. f \in Frames(p) /\ q.stack \in Seq(Frames(p))
  BY <1>2 DEF Frames, States
<1>4. g = q.stack[1] /\ 1 \in DOMAIN q.stack
  BY <1>3, TailPlaces
<1>5. u = [q EXCEPT !.stack = [q.stack EXCEPT ![1] = f]]
  BY <1>4 DEF Turn, TurnedFrame, States
<1> HIDE DEF f
<1>6. [q.stack EXCEPT ![1] = f] \in Seq(Frames(p)) /\ [q.stack EXCEPT ![1] = f] # <<>>
      /\ Head([q.stack EXCEPT ![1] = f]) = f
  BY <1>3, TopPlaces
<1>7. u \in States(p) /\ u.stack = [q.stack EXCEPT ![1] = f] /\ SameButStack(q, u)
  BY <1>5, <1>6 DEF States, SameButStack
<1> QED
  BY <1>2, <1>6, <1>7 DEF f, Topped

LEMMA PutBackEffect ==
    ASSUME NEW p, NEW q \in States(p), q.stack # <<>>, NEW g, g = Head(q.stack), g \in DispatchFrames(p),
           NEW e \in Entries(p), NEW u, u = PutBack(q, e)
    PROVE  /\ u \in States(p) /\ SameButStack(q, u)
           /\ BackFrame(g, e) \in DispatchFrames(p) /\ Head(u.stack) = BackFrame(g, e) /\ u.stack # <<>>
           /\ Topped(u.stack, BackFrame(g, e), q.stack)
           /\ BackFrame(g, e).rest = g.rest /\ BackFrame(g, e).back = Append(g.back, e)
           /\ BackFrame(g, e).allowed = g.allowed
<1> DEFINE f == BackFrame(g, e)
<1>1. Append(g.back, e) \in Seq(Entries(p))
  BY AppendFacts DEF DispatchFrames
<1>2. f \in DispatchFrames(p) /\ f.rest = g.rest /\ f.back = Append(g.back, e) /\ f.allowed = g.allowed
  BY <1>1 DEF DispatchFrames, BackFrame
<1>3. f \in Frames(p) /\ q.stack \in Seq(Frames(p))
  BY <1>2 DEF Frames, States
<1>4. g = q.stack[1] /\ 1 \in DOMAIN q.stack
  BY <1>3, TailPlaces
<1>5. u = [q EXCEPT !.stack = [q.stack EXCEPT ![1] = f]]
  BY <1>4 DEF PutBack, BackFrame, States
<1> HIDE DEF f
<1>6. [q.stack EXCEPT ![1] = f] \in Seq(Frames(p)) /\ [q.stack EXCEPT ![1] = f] # <<>>
      /\ Head([q.stack EXCEPT ![1] = f]) = f
  BY <1>3, TopPlaces
<1>7. u \in States(p) /\ u.stack = [q.stack EXCEPT ![1] = f] /\ SameButStack(q, u)
  BY <1>5, <1>6 DEF States, SameButStack
<1> QED
  BY <1>2, <1>6, <1>7 DEF f, Topped

LEMMA ToppedTwice ==
    ASSUME NEW p, NEW st \in Seq(Frames(p)), st # <<>>, NEW r, NEW s, NEW f \in Frames(p), NEW g \in Frames(p),
           Topped(r, f, st), Topped(s, g, r)
    PROVE  Topped(s, g, st)
<1>1. 1 \in DOMAIN st
  BY TailPlaces
<1> QED
  BY <1>1 DEF Topped

(* What DispatchNext does, in these words.                                 *)
LEMMA DispatchNextFacts ==
    ASSUME Inv, NEW p \in Processes, DispatchNext(p), NEW g, g = Head(proc[p].stack)
    PROVE  /\ proc[p].stack # <<>> /\ g.op = "dispatch" /\ g \in DispatchFrames(p)
           /\ UNCHANGED <<conn, socket>>
           /\ \/ /\ g.rest = <<>> /\ UNCHANGED calls
                 /\ proc' = [proc EXCEPT ![p] = [Pop(proc[p]) EXCEPT !.toDispatch = @ \o g.back]]
              \/ /\ g.rest # <<>> /\ g.allowed \in {None, Head(g.rest).c}
                 /\ DispatchMessage(Head(g.rest).c, Head(g.rest).m, Turn(proc[p]))
              \/ /\ g.rest # <<>> /\ g.allowed \notin {None, Head(g.rest).c} /\ UNCHANGED calls
                 /\ proc' = [proc EXCEPT ![p] = PutBack(Turn(proc[p]), Head(g.rest))]
<1>1. proc[p].stack # <<>> /\ g.op = "dispatch" /\ Top(p) = g
  BY AtFacts DEF DispatchNext
<1>2. g \in DispatchFrames(p)
  BY <1>1, TopFacts, FrameFacts
<1>3. \/ /\ g.rest = <<>> /\ UNCHANGED calls
         /\ proc' = [proc EXCEPT ![p] = [Pop(proc[p]) EXCEPT !.toDispatch = @ \o g.back]]
      \/ /\ g.rest # <<>> /\ g.allowed \in {None, Head(g.rest).c}
         /\ DispatchMessage(Head(g.rest).c, Head(g.rest).m, Turn(proc[p]))
      \/ /\ g.rest # <<>> /\ g.allowed \notin {None, Head(g.rest).c} /\ UNCHANGED calls
         /\ proc' = [proc EXCEPT ![p] = PutBack(Turn(proc[p]), Head(g.rest))]
  BY <1>1, Zenon DEF DispatchNext, Turn, PutBack
<1>4. UNCHANGED <<conn, socket>>
  BY DEF DispatchNext
<1> QED
  BY <1>1, <1>2, <1>3, <1>4, Zenon

LEMMA DispatchNextKeeps ==
    ASSUME Inv, NEW p \in Processes, DispatchNext(p)
    PROVE  Inv'
<1> DEFINE q == proc[p]
           g == Head(q.stack)
           e == Head(g.rest)
           u == Turn(q)
           t == PutBack(u, e)
           v == Pop(q)
           w == [v EXCEPT !.toDispatch = @ \o g.back]
<1>1. q.stack # <<>> /\ g.op = "dispatch" /\ g \in DispatchFrames(p) /\ UNCHANGED <<conn, socket>>
  BY DispatchNextFacts
<1>2. \/ /\ g.rest = <<>> /\ UNCHANGED calls
         /\ proc' = [proc EXCEPT ![p] = w]
      \/ /\ g.rest # <<>> /\ DispatchMessage(e.c, e.m, u)
      \/ /\ g.rest # <<>> /\ UNCHANGED calls /\ proc' = [proc EXCEPT ![p] = t]
  BY DispatchNextFacts, Zenon
<1>3. q \in States(p) /\ ProcessInv(q) /\ q.alive /\ q.stack \in Seq(Frames(p)) /\ g \in Frames(p)
      /\ \A d \in Mine(p) : LocalInv(conn[d], q, d)
  BY <1>1, TopFacts, There
<1>4. CASE g.rest = <<>> /\ UNCHANGED calls /\ proc' = [proc EXCEPT ![p] = w]
  <2>1. v \in States(p) /\ v.stack = Tail(q.stack) /\ SameButStack(q, v)
    BY <1>1, <1>3, PopEffect
  <2>2. v.toDispatch \o g.back \in Seq(Entries(p))
    BY <1>1, <2>1, ConcatFacts DEF DispatchFrames, States
  <2> HIDE DEF v
  <2>3. /\ w \in States(p) /\ w.stack = v.stack /\ w.alive = v.alive /\ w.runLoop = v.runLoop
        /\ w.scheduled = v.scheduled
    BY <2>1, <2>2 DEF States
  <2> HIDE DEF w
  <2>4. w.stack = Tail(q.stack) /\ w.alive /\ w.runLoop = q.runLoop /\ w.scheduled = q.scheduled
    BY <1>3, <2>1, <2>3 DEF SameButStack
  <2>5. ProcessInv(w)
    BY <1>1, <1>3, <2>4, ProcessPop
  <2>6. ASSUME NEW d \in Mine(p) PROVE Quiet(q, w, d)
    <3>1. ~IsSync(g, d) /\ ~Registered(q, d)
      BY <1>1 DEF IsSync, Registered
    <3>2. ScheduleInv(q, d) => ScheduleInv(w, d)
      BY <2>4, SameSchedule
    <3> QED
      BY <1>1, <1>3, <2>4, <3>1, <3>2, QuietPop
  <2>7. SocketsOK
    BY <1>1, <1>4, SameSocketsOK
  <2> QED
    BY <1>1, <1>4, <2>3, <2>5, <2>6, <2>7, QuietProcess
<1>5. ASSUME g.rest # <<>>
      PROVE  /\ u \in States(p) /\ u.alive /\ ProcessInv(u) /\ Covered(Head(u.stack)) /\ e \in Entries(p)
             /\ \A d \in Mine(p) : LocalInv(conn[d], u, d)
             /\ u.runLoop = q.runLoop /\ u.scheduled = q.scheduled /\ u.stack # <<>>
             /\ Head(u.stack) \in DispatchFrames(p) /\ Topped(u.stack, Head(u.stack), q.stack)
  <2>1. g = Head(q.stack) /\ u = Turn(q)
    OBVIOUS
  <2> HIDE DEF g, u
  <2>2. /\ u \in States(p) /\ SameButStack(q, u)
        /\ Head(u.stack) \in DispatchFrames(p) /\ u.stack # <<>> /\ Topped(u.stack, Head(u.stack), q.stack)
    BY <1>1, <1>3, <1>5, <2>1, TurnEffect
  <2>3. Head(u.stack) \in Frames(p) /\ Head(u.stack).op = "dispatch"
    BY <2>2 DEF Frames, DispatchFrames
  <2>4. Covered(Head(u.stack))
    BY <2>3 DEF Covered
  <2>5. \A d : ~SleepsOn(u, d) /\ ~Asleep(u, d)
    BY <2>4, CoveredFacts
  <2>6. SameCall(Head(u.stack), g)
    BY <1>1, <2>3 DEF SameCall
  <2>7. u.alive = q.alive /\ u.runLoop = q.runLoop /\ u.scheduled = q.scheduled
    BY <2>2 DEF SameButStack
  <2>8. u.alive /\ ProcessInv(u) /\ \A d \in Mine(p) : LocalInv(conn[d], u, d)
    BY <1>1, <2>1, <2>2, <2>3, <2>5, <2>6, <2>7, TopLocals
  <2>9. e \in Entries(p)
    BY <1>1, <1>5, TailFacts DEF DispatchFrames
  <2> QED
    BY <2>2, <2>4, <2>7, <2>8, <2>9
<1>6. CASE g.rest # <<>> /\ DispatchMessage(e.c, e.m, u)
  <2> DEFINE c == e.c
             m == e.m
  <2>1. c \in Mine(p) /\ m \in Message /\ DispatchMessage(c, m, u)
    BY <1>5, <1>6 DEF Entries, FlaggedMessages
  <2>2. conn' \in [Endpoints -> Connections] /\ conn' = conn /\ UNCHANGED socket
    BY <1>1 DEF Inv, TypeInv
  <2> HIDE DEF c, m, u
  <2>3. \A d \in Mine(p) : LocalInv(conn'[d], u, d)
    BY <1>5, <1>6, <2>2
  <2> QED
    BY <1>5, <1>6, <2>1, <2>2, <2>3, DispatchMessageKeeps
<1>7. CASE g.rest # <<>> /\ UNCHANGED calls /\ proc' = [proc EXCEPT ![p] = t]
  <2>1. t = PutBack(u, e)
    OBVIOUS
  <2> DEFINE h == Head(u.stack)
             f == BackFrame(h, e)
  <2>2. h = Head(u.stack) /\ f = BackFrame(h, e)
    OBVIOUS
  <2> HIDE DEF u, t, e, h, f
  <2>3. u \in States(p) /\ u.stack # <<>> /\ h \in DispatchFrames(p) /\ e \in Entries(p)
    BY <1>5, <1>7, <2>2
  <2>4. t \in States(p) /\ SameButStack(u, t) /\ f \in DispatchFrames(p) /\ Head(t.stack) = f /\ Topped(t.stack, f, u.stack)
    BY <2>1, <2>2, <2>3, PutBackEffect
  <2>5. f \in Frames(p) /\ h \in Frames(p) /\ f.op = "dispatch"
    BY <2>3, <2>4 DEF Frames, DispatchFrames
  <2>6. Topped(u.stack, h, q.stack)
    BY <1>5, <1>7, <2>2
  <2>7. Topped(t.stack, f, q.stack)
    BY <1>1, <1>3, <2>4, <2>5, <2>6, ToppedTwice
  <2>8. \A d : ~SleepsOn(t, d) /\ ~Asleep(t, d)
    BY <2>4, <2>5 DEF SleepsOn, Asleep, Registered, IsSync
  <2>9. SameCall(f, Head(q.stack))
    BY <1>1, <2>5 DEF SameCall
  <2>10. t.alive = q.alive /\ t.runLoop = q.runLoop /\ t.scheduled = q.scheduled
    BY <1>3, <1>5, <1>7, <2>4 DEF SameButStack
  <2>11. ProcessInv(t) /\ \A d \in Mine(p) : LocalInv(conn[d], t, d)
    BY <1>1, <2>4, <2>5, <2>7, <2>8, <2>9, <2>10, TopLocals
  <2>12. SocketsOK
    BY <1>1, <1>7, SameSocketsOK
  <2> QED
    BY <1>1, <1>7, <2>4, <2>11, <2>12, LocalsKeep
<1> QED
  BY <1>2, <1>4, <1>6, <1>7
-----------------------------------------------------------------------------
(* waitForMessage()                                                        *)
PlacesOf(s, name) == {j \in 1 .. Len(s) : s[j].name = name}

LEMMA SelectedPlace ==
    ASSUME NEW s, NEW name, NEW i, i = IF PlacesOf(s, name) # {} THEN Min(PlacesOf(s, name)) ELSE 0
    PROVE  i \in Nat /\ (i > 0 => i \in 1 .. Len(s) /\ s[i].name = name)
<1> DEFINE I == PlacesOf(s, name)
<1>1. I \subseteq Nat
  BY DEF PlacesOf
<1>2. I # {} => Min(I) \in I
  <2> HIDE DEF I
  <2> QED
    BY <1>1, LeastNatural
<1> QED
  BY <1>2 DEF PlacesOf

WithoutMessage(k, i) == [k EXCEPT !.incoming = RemoveAt(@, i)]
WaitFrame(c, name, interrupt) ==
    [op |-> "wait", at |-> "register", c |-> c, name |-> name, interrupt |-> interrupt]

LEMMA WithoutMessageEffect ==
    ASSUME NEW k \in Connections, NEW i \in 1 .. Len(k.incoming), NEW j, j = WithoutMessage(k, i)
    PROVE  j \in Connections /\ Alike(k, j) /\ k.incoming[i] \in Message /\ j.incoming = RemoveAt(k.incoming, i)
           /\ j.outgoing = k.outgoing
<1>1. k.incoming \in Seq(Message)
  BY DEF Connections
<1>2. RemoveAt(k.incoming, i) \in Seq(Message) /\ k.incoming[i] \in Message
  BY <1>1, RemoveAtFacts
<1> QED
  BY <1>2 DEF WithoutMessage, Connections, Alike

LEMMA WaitForMessageKeeps ==
    ASSUME Inv, NEW c \in Endpoints, NEW name \in Names, NEW interrupt \in BOOLEAN, WaitForMessage(c, name, interrupt)
    PROVE  Inv'
<1> DEFINE p == processOf[c]
           q == proc[p]
           k == conn[c]
           Awaited(m) == m.name = name
           i == SelectInSeq(k.incoming, Awaited)
           m == k.incoming[i]
           j == WithoutMessage(k, i)
           f == WaitFrame(c, name, interrupt)
           u == Spend(q)
           t == Push(u, f)
           v == Push(u, Handler(c, m))
           op == IF interrupt THEN "waitInterruptibly" ELSE "wait"
<1>1. MainMay(c, op) /\ SocketsOK
  BY SameSocketsOK DEF WaitForMessage
<1>2. \/ i > 0 /\ conn' = [conn EXCEPT ![c] = j] /\ proc' = [proc EXCEPT ![p] = v]
      \/ proc' = [proc EXCEPT ![p] = u] /\ UNCHANGED conn
      \/ proc' = [proc EXCEPT ![p] = t] /\ UNCHANGED conn
  BY DEF WaitForMessage, WithoutMessage, WaitFrame, Inv, TypeInv
<1>3. /\ p \in Processes /\ k \in Connections /\ q \in States(p) /\ ProcessInv(q) /\ LocalInv(k, q, c)
      /\ \A d \in Mine(p) : LocalInv(conn[d], q, d)
  BY Here
<1>4. i > 0 => i \in 1 .. Len(k.incoming)
  <2>1. i = IF PlacesOf(k.incoming, name) # {} THEN Min(PlacesOf(k.incoming, name)) ELSE 0
    BY DEF SelectInSeq, PlacesOf
  <2> HIDE DEF i, k
  <2> QED
    BY <2>1, SelectedPlace
<1>5. j = WithoutMessage(k, i) /\ v = Push(u, Handler(c, m)) /\ t = Push(u, f) /\ m = k.incoming[i]
  OBVIOUS
<1>6. q.stack = <<>> \/ Covered(Head(q.stack))
  BY <1>1, ClientFacts DEF MainMay
<1>7. /\ u \in States(p) /\ u.stack = q.stack /\ u.alive /\ u.runLoop = q.runLoop /\ u.scheduled = q.scheduled
      /\ ProcessInv(u) /\ \A d : Quiet(q, u, d)
  <2> HIDE DEF op
  <2> QED
    BY <1>1, MayFacts DEF MainMay
<1>8. f \in Frames(p) /\ f.op = "wait" /\ f.at = "register"
  <2>1. f \in WaitFrames(p) /\ f.op = "wait" /\ f.at = "register"
    BY MineFacts DEF WaitFrames, WaitFrame
  <2> QED
    BY <2>1 DEF Frames
<1> HIDE DEF i, k, j, u, t, v, m, f, op
<1>9. CASE i > 0 /\ conn' = [conn EXCEPT ![c] = j] /\ proc' = [proc EXCEPT ![p] = v]
  <2>1. j \in Connections /\ Alike(k, j) /\ m \in Message
    BY <1>3, <1>4, <1>5, <1>9, WithoutMessageEffect
  <2>2. c \in Mine(p)
    BY MineFacts
  <2>3. conn' \in [Endpoints -> Connections] /\ \A d \in Endpoints : d # c => conn'[d] = conn[d]
    BY <1>9, <2>1 DEF Inv, TypeInv
  <2>4. conn'[c] = j
    BY <1>9 DEF Inv, TypeInv
  <2>5. ASSUME NEW d \in Mine(p) PROVE LocalInv(conn'[d], u, d)
    <3>1. CASE d = c
      BY <3>1, <2>1, <2>4, <1>3, <1>7, QuietKeeps
    <3>2. CASE d # c
      <4>1. conn'[d] = conn[d]
        BY <3>2, <2>3, MineFacts
      <4> QED
        BY <4>1, <1>3, <1>7, QuietKeeps, AlikeItself
    <3> QED
      BY <3>1, <3>2
  <2>6. \A d \in Endpoints : d \notin Mine(p) => conn'[d] = conn[d]
    BY <2>2, <2>3
  <2>7. u.stack = <<>> \/ Covered(Head(u.stack))
    BY <1>6, <1>7
  <2> QED
    BY <1>1, <1>3, <1>5, <1>7, <1>9, <2>1, <2>2, <2>3, <2>5, <2>6, <2>7, HandlerKeeps
<1>10. CASE proc' = [proc EXCEPT ![p] = u] /\ UNCHANGED conn
  BY <1>1, <1>3, <1>7, <1>10, QuietProcess
<1>11. CASE proc' = [proc EXCEPT ![p] = t] /\ UNCHANGED conn
  <2>1. t \in States(p) /\ t.stack = Cons(f, u.stack) /\ SameButStack(u, t)
    BY <1>5, <1>7, <1>8, PushEffect
  <2>2. t.alive /\ t.runLoop = u.runLoop /\ t.scheduled = u.scheduled
    BY <2>1, <1>7 DEF SameButStack
  <2>3. \A d \in Mine(p) : LocalInv(conn[d], u, d)
    BY <1>3, <1>7, QuietKeeps, AlikeItself
  <2>4. ProcessInv(t) /\ \A d \in Mine(p) : LocalInv(conn[d], t, d)
    BY <1>6, <1>7, <1>8, <2>1, <2>2, <2>3, PushLocals
  <2> QED
    BY <1>1, <1>3, <1>11, <2>1, <2>4, LocalsKeep
<1> QED
  BY <1>2, <1>9, <1>10, <1>11

AlikeButWaiting(k, j) ==
    /\ j.pending = k.pending /\ j.secondary = k.secondary
    /\ j.lastID = k.lastID /\ j.shouldWait = k.shouldWait
    /\ j.told = k.told /\ (j.client => k.client)

WithWaiting(k, w) == [k EXCEPT !.waiting = w]

LEMMA WithWaitingEffect ==
    ASSUME NEW k \in Connections, NEW w \in WaitForMessageState \cup {None}, NEW j, j = WithWaiting(k, w)
    PROVE  /\ j \in Connections /\ AlikeButWaiting(k, j) /\ j.waiting = w
           /\ j.incoming = k.incoming /\ j.outgoing = k.outgoing /\ j.client = k.client
  BY DEF WithWaiting, Connections, AlikeButWaiting

LEMMA OneConnection ==
    ASSUME Inv, NEW c \in Endpoints, NEW j \in Connections, conn' = [conn EXCEPT ![c] = j]
    PROVE  /\ conn' \in [Endpoints -> Connections] /\ conn'[c] = j
           /\ \A d \in Endpoints : d # c => conn'[d] = conn[d]
  BY DEF Inv, TypeInv

(* A thread that waits registers itself or looks up.                       *)
LEMMA WaitTop ==
    ASSUME NEW p, NEW q \in States(p), q.stack # <<>>, NEW f \in Frames(p), NEW t, Topped(t.stack, f, q.stack),
           f.op = "wait", Head(q.stack).op = "wait",
           NEW d, NEW k, NEW j, LocalInv(k, q, d), AlikeButWaiting(k, j), ScheduleInv(t, d), WaitInv(j, t, d)
    PROVE  LocalInv(j, t, d)
<1>1. q.stack \in Seq(Frames(p)) /\ t.stack = [q.stack EXCEPT ![1] = f]
  BY DEF States, Topped
<1>2. t.stack # <<>> /\ Head(t.stack) = f
  BY <1>1, TopPlaces
<1>3. ~IsSync(f, d) /\ ~IsSync(Head(q.stack), d)
  BY DEF IsSync
<1>4. CallIDs(t.stack, d) = CallIDs(q.stack, d) /\ (CallsNest(q.stack, d) => CallsNest(t.stack, d))
  BY <1>1, <1>3, CallsGoOn
<1>5. Matches(j.pending, t.stack, d)
  BY <1>4 DEF LocalInv, Matches, AlikeButWaiting
<1>6. IDsInv(j) /\ SignalInv(j) /\ ToldInv(j)
  BY DEF LocalInv, AlikeButWaiting, IDsInv, SignalInv, ToldInv
<1>7. WakeInv(j, t, d)
  BY <1>2, <1>3 DEF WakeInv, SleepsOn
<1> QED
  BY <1>5, <1>6, <1>7 DEF LocalInv

(* waitForMessage() ends, and nobody is registered any more.               *)
LEMMA WaitOver ==
    ASSUME NEW p, NEW q \in States(p), q.stack # <<>>, ProcessInv(q), NEW c,
           Head(q.stack).op = "wait", NEW k, NEW j, LocalInv(k, q, c), AlikeButWaiting(k, j), j.waiting = None,
           NEW t, t.stack = Tail(q.stack), ScheduleInv(t, c)
    PROVE  LocalInv(j, t, c)
<1>1. q.stack \in Seq(Frames(p))
  BY DEF States
<1>2. ~IsSync(Head(q.stack), c)
  BY DEF IsSync
<1>3. CallIDs(t.stack, c) = CallIDs(q.stack, c) /\ (CallsNest(q.stack, c) => CallsNest(t.stack, c))
  BY <1>1, <1>2, CallsPop
<1>4. t.stack = <<>> \/ Covered(Head(t.stack))
  BY PoppedTop
<1>5. ~Registered(t, c) /\ ~Asleep(t, c) /\ ~SleepsOn(t, c)
  BY <1>4, CoveredFacts
<1>6. Matches(j.pending, t.stack, c)
  BY <1>3 DEF LocalInv, Matches, AlikeButWaiting
<1>7. IDsInv(j) /\ SignalInv(j) /\ ToldInv(j)
  BY DEF LocalInv, AlikeButWaiting, IDsInv, SignalInv, ToldInv
<1>8. WaitInv(j, t, c) /\ WakeInv(j, t, c)
  BY <1>5 DEF WaitInv, WakeInv
<1> QED
  BY <1>6, <1>7, <1>8 DEF LocalInv

(* The effect of WaitOver on all connections of the process.               *)
LEMMA WaitOverLocals ==
    ASSUME Inv, NEW p \in Processes, proc[p].stack # <<>>, Head(proc[p].stack).op = "wait",
           NEW c, c = Head(proc[p].stack).c, NEW j, j = WithWaiting(conn[c], None),
           conn' = [conn EXCEPT ![c] = j], NEW t, t = Pop(proc[p])
    PROVE  /\ t \in States(p) /\ t.alive /\ ProcessInv(t) /\ (t.stack = <<>> \/ Covered(Head(t.stack)))
           /\ c \in Mine(p) /\ conn' \in [Endpoints -> Connections]
           /\ \A d \in Endpoints : d \notin Mine(p) => conn'[d] = conn[d]
           /\ \A d \in Mine(p) : LocalInv(conn'[d], t, d)
<1> DEFINE q == proc[p]
           n == None
<1>1. c \in Mine(p) /\ c \in Endpoints /\ conn[c] \in Connections /\ LocalInv(conn[c], q, c)
  BY TopConnection
<1>2. q \in States(p) /\ ProcessInv(q) /\ q.alive /\ \A d \in Mine(p) : LocalInv(conn[d], q, d)
  BY TopFacts, There
<1>3. j \in Connections /\ AlikeButWaiting(conn[c], j) /\ j.waiting = None
  <2>1. n \in WaitForMessageState \cup {None} /\ n = None /\ j = WithWaiting(conn[c], n)
    OBVIOUS
  <2> HIDE DEF n
  <2> QED
    BY <2>1, <1>1, WithWaitingEffect, SMTT(40)
<1>4. /\ conn' \in [Endpoints -> Connections] /\ conn'[c] = j
      /\ \A d \in Endpoints : d # c => conn'[d] = conn[d]
  BY <1>1, <1>3, OneConnection
<1>5. t \in States(p) /\ t.stack = Tail(q.stack) /\ SameButStack(q, t)
  BY <1>2, PopEffect
<1>6. t.alive /\ t.runLoop = q.runLoop /\ t.scheduled = q.scheduled
  BY <1>2, <1>5 DEF SameButStack
<1>7. \A d : ScheduleInv(q, d) => ScheduleInv(t, d)
  BY <1>6, SameSchedule
<1>8. ProcessInv(t) /\ (t.stack = <<>> \/ Covered(Head(t.stack)))
  BY <1>2, <1>5, <1>6, ProcessPop, PoppedTop
<1>9. ASSUME NEW d \in Mine(p) PROVE LocalInv(conn'[d], t, d)
  <2>1. CASE d = c
    <3>1. ScheduleInv(t, c)
      BY <1>1, <1>7 DEF LocalInv
    <3>2. LocalInv(j, t, c)
      BY <1>1, <1>2, <1>3, <1>5, <3>1, WaitOver, SMTT(40)
    <3> QED
      BY <2>1, <3>2, <1>4
  <2>2. CASE d # c
    <3>1. ~IsSync(Head(q.stack), d) /\ ~Registered(q, d)
      BY <2>2 DEF IsSync, Registered
    <3>2. Quiet(q, t, d)
      BY <1>2, <1>5, <1>7, <3>1, QuietPop
    <3>3. conn'[d] = conn[d]
      BY <2>2, <1>4, MineFacts
    <3> QED
      BY <3>2, <3>3, <1>2, QuietKeeps, AlikeItself
  <2> QED
    BY <2>1, <2>2
<1> QED
  BY <1>1, <1>4, <1>5, <1>6, <1>8, <1>9

LEMMA WaitEndsKeeps ==
    ASSUME Inv, NEW p \in Processes, proc[p].stack # <<>>, Head(proc[p].stack).op = "wait", WaitEnds(p),
           UNCHANGED <<socket, calls>>
    PROVE  Inv'
<1> DEFINE c == Head(proc[p].stack).c
           j == WithWaiting(conn[c], None)
           t == Pop(proc[p])
<1>1. conn' = [conn EXCEPT ![c] = j] /\ proc' = [proc EXCEPT ![p] = t] /\ SocketsOK
  <2>1. conn' = [conn EXCEPT ![c].waiting = None] /\ proc' = [proc EXCEPT ![p] = t]
    BY DEF WaitEnds, Top
  <2>2. conn' = [conn EXCEPT ![c] = j]
    BY <2>1, TopConnection DEF WithWaiting, Inv, TypeInv
  <2> QED
    BY <2>1, <2>2, SameSocketsOK
<1> HIDE DEF j, t
<1>2. /\ t \in States(p) /\ t.alive /\ ProcessInv(t)
      /\ conn' \in [Endpoints -> Connections]
      /\ \A d \in Endpoints : d \notin Mine(p) => conn'[d] = conn[d]
      /\ \A d \in Mine(p) : LocalInv(conn'[d], t, d)
  BY <1>1, WaitOverLocals DEF j, t
<1> QED
  BY <1>1, <1>2, MineStep

LEMMA WaitWakesKeeps ==
    ASSUME Inv, NEW p \in Processes, WaitWakes(p)
    PROVE  Inv'
<1> DEFINE q == proc[p]
           a == "check"
           u == GoOn(q, a)
<1>1. q.stack # <<>> /\ Head(q.stack).op = "wait" /\ Head(q.stack).at \in {"notified", "timedOut"}
  BY AtFacts DEF WaitWakes
<1>2. UNCHANGED <<socket, calls>> /\ SocketsOK /\ (WaitEnds(p) \/ (proc' = [proc EXCEPT ![p] = u] /\ UNCHANGED conn))
  BY SameSocketsOK DEF WaitWakes
<1>3. CanGoOn(Head(q.stack), a) /\ u = GoOn(q, a) /\ a = "check"
  BY <1>1 DEF CanGoOn, CanGo, WaitPlaces
<1>4. CASE WaitEnds(p)
  BY <1>1, <1>2, <1>4, WaitEndsKeeps
<1>5. CASE proc' = [proc EXCEPT ![p] = u] /\ UNCHANGED conn
  <2> HIDE DEF a, u
  <2>1. /\ u \in States(p) /\ SameCall(Head(u.stack), Head(q.stack)) /\ Head(u.stack) \in Frames(p)
        /\ Topped(u.stack, Head(u.stack), q.stack) /\ Head(u.stack).op = "wait" /\ Head(u.stack).at = a
        /\ u.alive = q.alive /\ u.runLoop = q.runLoop /\ u.scheduled = q.scheduled
    BY <1>1, <1>3, GoOnFacts
  <2>2. \A d : ~SleepsOn(u, d) /\ ~Asleep(u, d)
    BY <1>3, <2>1 DEF SleepsOn, Asleep, IsSync
  <2>3. ProcessInv(u) /\ \A d \in Mine(p) : LocalInv(conn[d], u, d)
    BY <1>1, <2>1, <2>2, TopLocals
  <2> QED
    BY <1>2, <1>5, <2>1, <2>3, LocalsKeep
<1> QED
  BY <1>2, <1>4, <1>5

LEMMA WaitTimesOutKeeps ==
    ASSUME Inv, NEW p \in Processes, WaitTimesOut(p)
    PROVE  Inv'
<1> DEFINE q == proc[p]
           a == "timedOut"
           u == GoOn(q, a)
<1>1. q.stack # <<>> /\ Head(q.stack).op = "wait" /\ Head(q.stack).at = "asleep"
  BY AtFacts DEF WaitTimesOut
<1>2. SocketsOK /\ proc' = [proc EXCEPT ![p] = u] /\ UNCHANGED conn
  BY SameSocketsOK DEF WaitTimesOut
<1>3. CanGoOn(Head(q.stack), a) /\ u = GoOn(q, a) /\ a = "timedOut"
  BY <1>1 DEF CanGoOn, CanGo, WaitPlaces
<1> HIDE DEF a, u
<1>4. /\ u \in States(p) /\ SameCall(Head(u.stack), Head(q.stack)) /\ Head(u.stack) \in Frames(p)
      /\ Topped(u.stack, Head(u.stack), q.stack) /\ Head(u.stack).op = "wait" /\ Head(u.stack).at = a
      /\ u.alive = q.alive /\ u.runLoop = q.runLoop /\ u.scheduled = q.scheduled
  BY <1>1, <1>3, GoOnFacts
<1>5. \A d : ~SleepsOn(u, d) /\ ~Asleep(u, d)
  BY <1>3, <1>4 DEF SleepsOn, Asleep, IsSync
<1>6. ProcessInv(u) /\ \A d \in Mine(p) : LocalInv(conn[d], u, d)
  BY <1>1, <1>4, <1>5, TopLocals
<1> QED
  BY <1>2, <1>4, <1>6, LocalsKeep

LEMMA WaitChecksKeeps ==
    ASSUME Inv, NEW p \in Processes, WaitChecks(p)
    PROVE  Inv'
<1> DEFINE q == proc[p]
           c == Head(q.stack).c
           k == conn[c]
           m == k.waiting.decoder
           a == "asleep"
           u == GoOn(q, a)
           j == WithWaiting(k, None)
           v == Pop(q)
           t == Push(v, Handler(c, m))
<1>1. q.stack # <<>> /\ Head(q.stack).op = "wait" /\ Head(q.stack).at = "check" /\ Top(p) = Head(q.stack)
  BY AtFacts DEF WaitChecks
<1>2. c \in Mine(p) /\ c \in Endpoints /\ k \in Connections /\ LocalInv(k, q, c)
  BY <1>1, TopConnection
<1>3. SocketsOK /\ \/ m = None /\ proc' = [proc EXCEPT ![p] = u] /\ UNCHANGED conn
                   \/ m # None /\ conn' = [conn EXCEPT ![c] = j] /\ proc' = [proc EXCEPT ![p] = t]
  <2>1. \/ m = None /\ proc' = [proc EXCEPT ![p] = u] /\ UNCHANGED conn
        \/ m # None /\ conn' = [conn EXCEPT ![c].waiting = None] /\ proc' = [proc EXCEPT ![p] = t]
    BY <1>1 DEF WaitChecks
  <2>2. [conn EXCEPT ![c].waiting = None] = [conn EXCEPT ![c] = j]
    BY <1>2 DEF WithWaiting, Inv, TypeInv
  <2>3. SocketsOK
    BY SameSocketsOK DEF WaitChecks
  <2> QED
    BY <2>1, <2>2, <2>3
<1>4. m \in Message \cup {None}
  <2>1. Registered(q, c)
    BY <1>1 DEF Registered
  <2>2. k.waiting # None /\ k.waiting \in WaitForMessageState \cup {None}
    BY <1>2, <2>1 DEF LocalInv, WaitInv, Connections
  <2> QED
    BY <2>2 DEF WaitForMessageState
<1>5. CanGoOn(Head(q.stack), a) /\ u = GoOn(q, a) /\ a = "asleep"
  BY <1>1 DEF CanGoOn, CanGo, WaitPlaces
<1>6. v = Pop(q) /\ t = Push(v, Handler(c, m)) /\ j = WithWaiting(k, None)
  OBVIOUS
<1>7. CASE m = None /\ proc' = [proc EXCEPT ![p] = u] /\ UNCHANGED conn
  <2> HIDE DEF a, u
  <2>1. /\ u \in States(p) /\ SameCall(Head(u.stack), Head(q.stack)) /\ Head(u.stack) \in Frames(p)
        /\ Topped(u.stack, Head(u.stack), q.stack) /\ Head(u.stack).op = "wait" /\ Head(u.stack).c = c
        /\ u.alive = q.alive /\ u.runLoop = q.runLoop /\ u.scheduled = q.scheduled
    BY <1>1, <1>5, GoOnFacts
  <2>2. \A d : ~SleepsOn(u, d)
    BY <2>1 DEF SleepsOn, IsSync
  <2>3. \A d \in Mine(p) : Asleep(u, d) => conn[d].waiting.decoder = None
    BY <1>7, <2>1 DEF Asleep, Registered
  <2>4. ProcessInv(u) /\ \A d \in Mine(p) : LocalInv(conn[d], u, d)
    BY <1>1, <2>1, <2>2, <2>3, TopLocals
  <2> QED
    BY <1>3, <1>7, <2>1, <2>4, LocalsKeep
<1>8. CASE m # None /\ conn' = [conn EXCEPT ![c] = j] /\ proc' = [proc EXCEPT ![p] = t]
  <2> HIDE DEF m, j, v, t
  <2>1. /\ v \in States(p) /\ v.alive /\ ProcessInv(v) /\ (v.stack = <<>> \/ Covered(Head(v.stack)))
        /\ conn' \in [Endpoints -> Connections]
        /\ \A d \in Endpoints : d \notin Mine(p) => conn'[d] = conn[d]
        /\ \A d \in Mine(p) : LocalInv(conn'[d], v, d)
    BY <1>1, <1>8, WaitOverLocals DEF j, v
  <2>2. m \in Message
    BY <1>4, <1>8
  <2> QED
    BY <1>2, <1>3, <1>6, <1>8, <2>1, <2>2, HandlerKeeps
<1> QED
  BY <1>3, <1>7, <1>8

LEMMA WaitRegistersKeeps ==
    ASSUME Inv, NEW p \in Processes, WaitRegisters(p)
    PROVE  Inv'
<1> DEFINE q == proc[p]
           g == Head(q.stack)
           c == g.c
           k == conn[c]
           w == [name |-> g.name, interrupt |-> g.interrupt, interrupted |-> FALSE, decoder |-> None]
           j == WithWaiting(k, w)
           a == "check"
           u == GoOn(q, a)
<1>1. q.stack # <<>> /\ g.op = "wait" /\ g.at = "register" /\ Top(p) = g
  BY AtFacts DEF WaitRegisters
<1>2. c \in Mine(p) /\ c \in Endpoints /\ k \in Connections /\ LocalInv(k, q, c)
  BY <1>1, TopConnection
<1>3. SocketsOK /\ conn' = [conn EXCEPT ![c] = j] /\ proc' = [proc EXCEPT ![p] = u]
  <2>1. conn' = [conn EXCEPT ![c].waiting = w] /\ proc' = [proc EXCEPT ![p] = u]
    BY <1>1 DEF WaitRegisters
  <2>2. [conn EXCEPT ![c].waiting = w] = [conn EXCEPT ![c] = j]
    BY <1>2 DEF WithWaiting, Inv, TypeInv
  <2>3. SocketsOK
    BY SameSocketsOK DEF WaitRegisters
  <2> QED
    BY <2>1, <2>2, <2>3
<1>4. q \in States(p) /\ ProcessInv(q) /\ q.alive /\ g \in Frames(p) /\ \A d \in Mine(p) : LocalInv(conn[d], q, d)
  BY <1>1, TopFacts, There
<1>5. w \in WaitForMessageState /\ w # None /\ w.decoder = None
  <2>1. g \in WaitFrames(p)
    BY <1>1, <1>4, FrameFacts
  <2>2. w \in WaitForMessageState /\ w.decoder = None
    BY <2>1 DEF WaitFrames, WaitForMessageState
  <2> QED
    BY <2>2, BoundsAssumption
<1>6. CanGo(g, a) /\ u = GoOn(q, a) /\ a = "check" /\ j = WithWaiting(k, w) /\ w \in WaitForMessageState \cup {None}
  BY <1>1, <1>5 DEF CanGo, WaitPlaces
<1> HIDE DEF a, u, j, w, k
<1>7. Goes(p, q, u, a) /\ SameButStack(q, u)
  BY <1>1, <1>4, <1>6, GoesOn
<1> DEFINE f == Head(u.stack)
<1>8. u \in States(p) /\ u.stack # <<>> /\ f \in Frames(p) /\ Topped(u.stack, f, q.stack)
      /\ f.op = "wait" /\ f.c = c /\ f.at = "check"
  BY <1>1, <1>6, <1>7 DEF Goes
<1>9. u.alive /\ u.runLoop = q.runLoop /\ u.scheduled = q.scheduled
  BY <1>4, <1>7 DEF SameButStack
<1>10. ProcessInv(u)
  BY <1>1, <1>4, <1>8, <1>9, ProcessTop DEF Topped
<1>11. j \in Connections /\ AlikeButWaiting(k, j) /\ j.waiting = w
  BY <1>2, <1>6, WithWaitingEffect
<1>12. ASSUME NEW d \in Mine(p) PROVE ScheduleInv(u, d)
  BY <1>4, <1>9, SameSchedule DEF LocalInv
<1>13. LocalInv(j, u, c)
  <2>1. Registered(u, c) /\ ~Asleep(u, c)
    BY <1>8 DEF Registered, Asleep
  <2>2. WaitInv(j, u, c)
    BY <1>5, <1>11, <2>1 DEF WaitInv
  <2> QED
    BY <1>1, <1>2, <1>4, <1>8, <1>11, <1>12, <2>2, WaitTop
<1>14. ASSUME NEW d \in Mine(p), d # c PROVE LocalInv(conn[d], u, d)
  <2>1. ~Registered(u, d) /\ ~Asleep(u, d) /\ ~Registered(q, d)
    BY <1>1, <1>8, <1>14 DEF Registered, Asleep
  <2>2. WaitInv(conn[d], u, d)
    BY <1>4, <2>1 DEF LocalInv, WaitInv
  <2>3. AlikeButWaiting(conn[d], conn[d])
    BY DEF AlikeButWaiting
  <2> QED
    BY <1>1, <1>4, <1>8, <1>12, <2>2, <2>3, WaitTop
<1>15. processOf[c] = p
  BY <1>2, MineFacts
<1> HIDE DEF c
<1> QED
  BY <1>2, <1>3, <1>8, <1>10, <1>11, <1>13, <1>14, <1>15, LocalStep DEF SocketsOK
-----------------------------------------------------------------------------
(* The functions of the run loop.                                          *)
LEMMA TailSchedule ==
    ASSUME NEW p, NEW q \in States(p), q.runLoop # <<>>, NEW t, t.runLoop = Tail(q.runLoop), NEW d,
           ScheduleInv(q, d)
    PROVE  /\ t.scheduled = q.scheduled => ScheduleInv(t, d)
           /\ Head(q.runLoop) \in DispatchesOf(d) => ScheduleInv(t, d)
           /\ t.scheduled = q.scheduled \ {Head(q.runLoop).c} /\ d # Head(q.runLoop).c => ScheduleInv(t, d)
<1>1. q.runLoop \in Seq(RunLoopFunctions(p))
  BY DEF States
<1>2. /\ Range(q.runLoop) = Range(t.runLoop) \cup {Head(q.runLoop)}
      /\ \A C : Once(q.runLoop, C) => /\ Once(t.runLoop, C)
                                      /\ Head(q.runLoop) \in C => Range(t.runLoop) \cap C = {}
  BY <1>1, TailKeeps
<1>3. Once(q.runLoop, DispatchesOf(d)) /\ (Range(q.runLoop) \cap DispatchesOf(d) # {} => d \in q.scheduled)
  BY DEF ScheduleInv
<1>4. Once(t.runLoop, DispatchesOf(d)) /\ (Head(q.runLoop) \in DispatchesOf(d) => Range(t.runLoop) \cap DispatchesOf(d) = {})
  BY <1>2, <1>3
<1>5. Range(t.runLoop) \cap DispatchesOf(d) # {} => d \in q.scheduled
  BY <1>2, <1>3
<1> QED
  BY <1>4, <1>5 DEF ScheduleInv

LEMMA TurnedFacts ==
    ASSUME Inv, NEW p \in Processes, NEW op, RunLoopTurn(p, op), NEW t, t = Turned(p)
    PROVE  /\ proc[p] \in States(p) /\ ProcessInv(proc[p]) /\ proc[p].runLoop # <<>>
           /\ \A d \in Mine(p) : LocalInv(conn[d], proc[p], d)
           /\ Head(proc[p].runLoop) \in RunLoopFunctions(p) /\ Head(proc[p].runLoop).op = op
           /\ Head(proc[p].runLoop).c \in Mine(p)
           /\ proc[p].stack = <<>> \/ Covered(Head(proc[p].stack))
           /\ t \in States(p) /\ t.stack = proc[p].stack /\ t.alive /\ t.runLoop = Tail(proc[p].runLoop)
           /\ t.scheduled = proc[p].scheduled /\ t.semaphore = proc[p].semaphore
           /\ t.toDispatch = proc[p].toDispatch
           /\ ProcessInv(t) /\ \A d \in Mine(p) : Quiet(proc[p], t, d)
<1> DEFINE q == proc[p]
<1>1. /\ q \in States(p) /\ ProcessInv(q)
      /\ \A d \in Mine(p) : LocalInv(conn[d], q, d)
  BY There
<1>2. q.runLoop # <<>> /\ Head(q.runLoop).op = op /\ (q.stack = <<>> \/ Covered(Head(q.stack)))
  BY DEF RunLoopTurn, In, Top, Covered
<1>3. q.runLoop \in Seq(RunLoopFunctions(p))
  BY <1>1 DEF States
<1>4. Tail(q.runLoop) \in Seq(RunLoopFunctions(p)) /\ Head(q.runLoop) \in RunLoopFunctions(p)
  BY <1>2, <1>3, TailFacts
<1>5. Head(q.runLoop).c \in Mine(p)
  BY <1>4 DEF RunLoopFunctions
<1>6. /\ t \in States(p) /\ t.stack = q.stack /\ t.alive = q.alive /\ t.runLoop = Tail(q.runLoop)
      /\ t.scheduled = q.scheduled /\ t.semaphore = q.semaphore /\ t.toDispatch = q.toDispatch
  BY <1>1, <1>4 DEF Turned, States
<1> HIDE DEF q
<1>7. t.alive
  BY <1>1, <1>2, <1>6 DEF ProcessInv
<1>8. ProcessInv(t)
  BY <1>1, <1>6, <1>7, ProcessSame
<1>9. ASSUME NEW d \in Mine(p) PROVE Quiet(q, t, d)
  <2>1. ScheduleInv(q, d) => ScheduleInv(t, d)
    BY <1>1, <1>2, <1>6, TailSchedule
  <2> QED
    BY <1>6, <2>1, QuietSame
<1> QED
  BY <1>1, <1>2, <1>4, <1>5, <1>6, <1>7, <1>8, <1>9 DEF q

WithoutFirst(k) == [k EXCEPT !.incoming = Tail(@)]

LEMMA DispatchOneMessageKeeps ==
    ASSUME Inv, NEW p \in Processes, DispatchOneMessage(p)
    PROVE  Inv'
<1> DEFINE q == proc[p]
           c == Head(q.runLoop).c
           k == conn[c]
           j == WithoutFirst(k)
           m == Head(k.incoming)
           t == Turned(p)
           op == "dispatchOneMessage"
<1>1. RunLoopTurn(p, op) /\ t = Turned(p) /\ UNCHANGED socket
  BY DEF DispatchOneMessage
<1>2. /\ q \in States(p) /\ c \in Mine(p) /\ (q.stack = <<>> \/ Covered(Head(q.stack)))
      /\ \A d \in Mine(p) : LocalInv(conn[d], q, d)
      /\ t \in States(p) /\ t.stack = q.stack /\ t.alive
      /\ ProcessInv(t) /\ \A d \in Mine(p) : Quiet(q, t, d)
  <2> HIDE DEF t, op
  <2> QED
    BY <1>1, TurnedFacts
<1>3. k \in Connections /\ c \in Endpoints /\ processOf[c] = p
  BY <1>2, MineFacts, Here
<1>4. \/ proc' = [proc EXCEPT ![p] = t] /\ UNCHANGED <<conn, calls>>
      \/ k.incoming # <<>> /\ conn' = [conn EXCEPT ![c] = j] /\ DispatchMessage(c, m, t)
  <2>1. [conn EXCEPT ![c].incoming = Tail(@)] = [conn EXCEPT ![c] = j]
    BY <1>3 DEF WithoutFirst, Inv, TypeInv
  <2> QED
    BY <2>1 DEF DispatchOneMessage
<1>5. CASE proc' = [proc EXCEPT ![p] = t] /\ UNCHANGED <<conn, calls>>
  <2>1. SocketsOK /\ UNCHANGED conn
    BY <1>1, <1>5, SameSocketsOK
  <2> HIDE DEF t
  <2> QED
    BY <1>2, <1>5, <2>1, QuietProcess
<1>6. CASE k.incoming # <<>> /\ conn' = [conn EXCEPT ![c] = j] /\ DispatchMessage(c, m, t)
  <2>1. Tail(k.incoming) \in Seq(Message) /\ m \in Message
    BY <1>3, <1>6, TailFacts DEF Connections
  <2> HIDE DEF k, m, t, c
  <2>2. j \in Connections /\ Alike(k, j)
    BY <1>3, <2>1 DEF WithoutFirst, Connections, Alike
  <2> HIDE DEF j
  <2>3. /\ conn' \in [Endpoints -> Connections] /\ conn'[c] = j
        /\ \A d \in Endpoints : d # c => conn'[d] = conn[d]
    BY <1>3, <1>6, <2>2, OneConnection
  <2>4. ASSUME NEW d \in Mine(p) PROVE LocalInv(conn'[d], t, d)
    <3>1. CASE d = c
      BY <3>1, <2>2, <2>3, <1>2, QuietKeeps DEF k
    <3>2. CASE d # c
      <4>1. conn'[d] = conn[d]
        BY <3>2, <2>3, MineFacts
      <4> QED
        BY <4>1, <1>2, QuietKeeps, AlikeItself
    <3> QED
      BY <3>1, <3>2
  <2>5. \A d \in Endpoints : d \notin Mine(p) => conn'[d] = conn[d]
    BY <1>2, <2>3
  <2>6. t.stack = <<>> \/ Covered(Head(t.stack))
    BY <1>2
  <2> QED
    BY <1>1, <1>2, <1>6, <2>1, <2>3, <2>4, <2>5, <2>6, DispatchMessageKeeps
<1> QED
  BY <1>4, <1>5, <1>6

Told(k) == [k EXCEPT !.client = FALSE, !.told = @ + 1]

LEMMA DidCloseKeeps ==
    ASSUME Inv, NEW p \in Processes, DidClose(p)
    PROVE  Inv'
<1> DEFINE q == proc[p]
           c == Head(q.runLoop).c
           k == conn[c]
           j == Told(k)
           t == Turned(p)
           op == "didClose"
<1>1. RunLoopTurn(p, op) /\ t = Turned(p) /\ UNCHANGED socket /\ SocketsOK /\ proc' = [proc EXCEPT ![p] = t]
  BY SameSocketsOK DEF DidClose
<1>2. /\ q \in States(p) /\ c \in Mine(p)
      /\ \A d \in Mine(p) : LocalInv(conn[d], q, d)
      /\ t \in States(p)
      /\ ProcessInv(t) /\ \A d \in Mine(p) : Quiet(q, t, d)
  <2> HIDE DEF t, op
  <2> QED
    BY <1>1, TurnedFacts
<1>3. k \in Connections /\ c \in Endpoints /\ processOf[c] = p
  BY <1>2, MineFacts, Here
<1>4. UNCHANGED conn \/ (k.client /\ conn' = [conn EXCEPT ![c] = j])
  <2>1. [conn EXCEPT ![c].client = FALSE, ![c].told = @ + 1] = [conn EXCEPT ![c] = j]
    BY <1>3 DEF Told, Inv, TypeInv
  <2> QED
    BY <2>1 DEF DidClose
<1>5. CASE UNCHANGED conn
  <2> HIDE DEF t
  <2> QED
    BY <1>1, <1>2, <1>5, QuietProcess
<1>6. CASE k.client /\ conn' = [conn EXCEPT ![c] = j]
  <2> HIDE DEF k, t, c
  <2>1. k.told + 1 \in Nat
    <3>1. k.told \in Nat
      BY <1>3 DEF Connections
    <3> QED
      BY <3>1
  <2>2. /\ j \in Connections /\ j.pending = k.pending /\ j.lastID = k.lastID
        /\ j.secondary = k.secondary /\ j.waiting = k.waiting /\ j.shouldWait = k.shouldWait
        /\ j.told = k.told + 1 /\ ~j.client
    BY <1>3, <2>1 DEF Told, Connections
  <2> HIDE DEF j
  <2>3. LocalInv(k, t, c)
    BY <1>2, QuietKeeps, AlikeItself DEF k
  <2>4. ToldInv(j)
    <3>1. k.told = 0
      BY <1>6, <2>3 DEF LocalInv, ToldInv
    <3> QED
      BY <3>1, <2>2 DEF ToldInv
  <2>5. LocalInv(j, t, c)
    BY <2>2, <2>3, <2>4 DEF LocalInv, IDsInv, WaitInv, WakeInv, SignalInv
  <2>6. ASSUME NEW d \in Mine(p) PROVE LocalInv(conn[d], t, d)
    BY <1>2, QuietKeeps, AlikeItself
  <2> QED
    BY <1>1, <1>2, <1>3, <1>6, <2>2, <2>5, <2>6, LocalStep DEF SocketsOK
<1> QED
  BY <1>4, <1>5, <1>6

ResetFrame(c) == [op |-> "dispatchMessages", at |-> "", c |-> c]
Unscheduled(q, c) == [q EXCEPT !.scheduled = @ \ {c}]

LEMMA ResetDidScheduleKeeps ==
    ASSUME Inv, NEW p \in Processes, ResetDidSchedule(p)
    PROVE  Inv'
<1> DEFINE q == proc[p]
           c == Head(q.runLoop).c
           v == Turned(p)
           u == Unscheduled(v, c)
           f == ResetFrame(c)
           t == Push(u, f)
           op == "dispatchMessages"
<1>1. RunLoopTurn(p, op) /\ v = Turned(p) /\ SocketsOK /\ UNCHANGED conn
  BY SameSocketsOK DEF ResetDidSchedule
<1>2. proc' = [proc EXCEPT ![p] = t]
  BY DEF ResetDidSchedule, ResetFrame, Unscheduled
<1>3. /\ q \in States(p) /\ c \in Mine(p) /\ q.runLoop # <<>> /\ ProcessInv(q)
      /\ (q.stack = <<>> \/ Covered(Head(q.stack)))
      /\ \A d \in Mine(p) : LocalInv(conn[d], q, d)
      /\ v \in States(p) /\ v.stack = q.stack /\ v.alive /\ v.runLoop = Tail(q.runLoop)
      /\ v.scheduled = q.scheduled /\ v.semaphore = q.semaphore
      /\ Head(q.runLoop) \in RunLoopFunctions(p) /\ Head(q.runLoop).op = op
  <2> HIDE DEF v, op
  <2> QED
    BY <1>1, TurnedFacts
<1>4. Head(q.runLoop) \in DispatchesOf(c)
  BY <1>3 DEF RunLoopFunctions, DispatchesOf
<1>5. t = Push(u, f) /\ c = Head(q.runLoop).c
  OBVIOUS
<1> HIDE DEF v, c, t, op
<1>6. /\ u \in States(p) /\ u.stack = q.stack /\ u.alive /\ u.runLoop = Tail(q.runLoop)
      /\ u.scheduled = q.scheduled \ {c} /\ u.semaphore = q.semaphore
  BY <1>3 DEF Unscheduled, States
<1> HIDE DEF u
<1>7. f \in Frames(p) /\ f.op = "dispatchMessages"
  BY <1>3 DEF Frames, ResetFrame, ResetFrames
<1> HIDE DEF f
<1>8. ProcessInv(u)
  BY <1>3, <1>6, ProcessSame
<1>9. ASSUME NEW d \in Mine(p) PROVE LocalInv(conn[d], u, d)
  <2>1. ScheduleInv(q, d)
    BY <1>3 DEF LocalInv
  <2>2. ScheduleInv(u, d)
    BY <1>3, <1>4, <1>5, <1>6, <2>1, TailSchedule
  <2>3. Quiet(q, u, d)
    BY <1>6, <2>2, QuietSame
  <2> QED
    BY <1>3, <2>3, QuietKeeps, AlikeItself
<1>10. t \in States(p) /\ t.stack = Cons(f, u.stack) /\ SameButStack(u, t)
  BY <1>5, <1>6, <1>7, PushEffect
<1>11. t.alive /\ t.runLoop = u.runLoop /\ t.scheduled = u.scheduled
  BY <1>6, <1>10 DEF SameButStack
<1>12. ProcessInv(t) /\ \A d \in Mine(p) : LocalInv(conn[d], t, d)
  BY <1>3, <1>6, <1>7, <1>8, <1>9, <1>10, <1>11, PushLocals
<1> QED
  BY <1>1, <1>2, <1>10, <1>12, LocalsKeep

LEMMA DispatchAllowedKeeps ==
    ASSUME Inv, NEW p \in Processes, DispatchAllowed(p)
    PROVE  Inv'
<1> DEFINE q == proc[p]
           c == Head(q.stack).c
           u == Pop(q)
           t == DispatchMessages(u, c)
           f == DispatchFrame(c, u.toDispatch)
<1>1. q.stack # <<>> /\ Head(q.stack).op = "dispatchMessages" /\ Top(p) = Head(q.stack)
  BY AtFacts DEF DispatchAllowed
<1>2. proc' = [proc EXCEPT ![p] = t] /\ SocketsOK /\ UNCHANGED conn
  BY <1>1, SameSocketsOK DEF DispatchAllowed
<1>3. c \in Mine(p) \cup {None}
  BY <1>1, TopConnection
<1>4. q \in States(p) /\ ProcessInv(q) /\ q.alive /\ \A d \in Mine(p) : LocalInv(conn[d], q, d)
  BY <1>1, TopFacts, There
<1>5. u \in States(p) /\ u.stack = Tail(q.stack) /\ SameButStack(q, u)
  BY <1>1, <1>4, PopEffect
<1>6. t = DispatchMessages(u, c) /\ f = DispatchFrame(c, u.toDispatch)
  OBVIOUS
<1> HIDE DEF u, c, t, f
<1>7. u.alive /\ u.runLoop = q.runLoop /\ u.scheduled = q.scheduled
  BY <1>4, <1>5 DEF SameButStack
<1>8. ProcessInv(u) /\ (u.stack = <<>> \/ Covered(Head(u.stack)))
  BY <1>1, <1>4, <1>5, <1>7, ProcessPop, PoppedTop
<1>9. ASSUME NEW d \in Mine(p) PROVE LocalInv(conn[d], u, d)
  <2>1. ~IsSync(Head(q.stack), d) /\ ~Registered(q, d)
    BY <1>1 DEF IsSync, Registered
  <2>2. ScheduleInv(q, d) => ScheduleInv(u, d)
    BY <1>7, SameSchedule
  <2>3. Quiet(q, u, d)
    BY <1>1, <1>4, <1>5, <2>1, <2>2, QuietPop
  <2> QED
    BY <1>4, <2>3, QuietKeeps, AlikeItself
<1>10. /\ t \in States(p) /\ f \in Frames(p) /\ f.op = "dispatch" /\ t.stack = Cons(f, u.stack)
       /\ t.alive = u.alive /\ t.runLoop = u.runLoop /\ t.scheduled = u.scheduled
  BY <1>3, <1>5, <1>6, DispatchEffect
<1>11. ProcessInv(t) /\ \A d \in Mine(p) : LocalInv(conn[d], t, d)
  BY <1>5, <1>7, <1>8, <1>9, <1>10, PushLocals
<1> QED
  BY <1>2, <1>10, <1>11, LocalsKeep
-----------------------------------------------------------------------------
(***************************************************************************)
(* The thread of the connection's work queue.                              *)
(***************************************************************************)

(* A step of the connection c only.                                        *)
LEMMA ConnectionStep ==
    ASSUME Inv, NEW c \in Endpoints, NEW k \in Connections, conn' = [conn EXCEPT ![c] = k], UNCHANGED proc, SocketsOK,
           LocalInv(k, proc[processOf[c]], c)
    PROVE  Inv'
<1>1. /\ conn' \in [Endpoints -> Connections] /\ conn'[c] = k
      /\ \A d \in Endpoints : d # c => conn'[d] = conn[d]
  BY OneConnection
<1>2. TypeInv'
  BY <1>1 DEF Inv, TypeInv, SocketsOK
<1>3. ASSUME NEW d \in Endpoints PROVE LocalInv(conn'[d], proc'[processOf[d]], d)
  BY <1>1 DEF Inv
<1>4. ASSUME NEW r \in Processes PROVE ProcessInv(proc'[r])
  BY DEF Inv
<1> QED
  BY <1>2, <1>3, <1>4 DEF Inv

LEMMA AlikeStep ==
    ASSUME Inv, NEW c \in Endpoints, NEW k \in Connections, conn' = [conn EXCEPT ![c] = k], UNCHANGED proc, SocketsOK,
           Alike(conn[c], k)
    PROVE  Inv'
<1>1. LocalInv(conn[c], proc[processOf[c]], c)
  BY Here
<1>2. Quiet(proc[processOf[c]], proc[processOf[c]], c)
  BY QuietSame
<1>3. LocalInv(k, proc[processOf[c]], c)
  BY <1>1, <1>2, QuietKeeps
<1> QED
  BY <1>3, ConnectionStep

LEMMA MinOfTwo ==
    ASSUME NEW a \in Nat, NEW b \in Nat, NEW n, n = Min({a, b})
    PROVE  n \in Nat /\ n <= a /\ n <= b
<1>1. \E x \in {a, b} : \A y \in {a, b} : x <= y
  OBVIOUS
<1>2. n \in {a, b} /\ \A y \in {a, b} : n <= y
  BY <1>1 DEF Min
<1> QED
  BY <1>2

LEMMA SendOutgoingMessagesKeeps ==
    ASSUME Inv, NEW c \in Endpoints, SendOutgoingMessages(c)
    PROVE  Inv'
<1> DEFINE k == conn[c]
           e == peerOf[c]
           room == capacity - Len(socket[e])
           n == Min({room, Len(k.outgoing)})
           open == conn[e].connected
           ts == IF k.thread = "idle" THEN Tail(k.tasks) ELSE k.tasks
           o == IF ~k.connected \/ k.outgoing = <<>> THEN k.outgoing
                ELSE IF open THEN SubSeq(k.outgoing, n + 1, Len(k.outgoing)) ELSE Tail(k.outgoing)
           th == IF k.connected /\ open /\ n < Len(k.outgoing) THEN "sending" ELSE "idle"
           j == [k EXCEPT !.tasks = ts, !.outgoing = o, !.thread = th]
           s == SubSeq(k.outgoing, 1, n)
<1>1. k \in Connections /\ e \in Endpoints /\ k.outgoing \in Seq(Message) /\ k.tasks \in Seq(Tasks)
  BY Here, MineFacts DEF Connections
<1>2. socket[e] \in Seq(Message) /\ Len(socket[e]) <= capacity /\ capacity \in Nat
  BY <1>1, BoundsAssumption DEF Inv, TypeInv
<1>3. room \in Nat /\ Len(k.outgoing) \in Nat /\ Len(socket[e]) \in Nat
  BY <1>1, <1>2, LenProperties
<1>4. n \in Nat /\ n <= room /\ n <= Len(k.outgoing)
  <2> HIDE DEF room
  <2> QED
    BY <1>3, MinOfTwo
<1>5. conn' = [conn EXCEPT ![c] = j] /\ UNCHANGED <<proc, calls>>
      /\ (UNCHANGED socket \/ socket' = [socket EXCEPT ![e] = socket[e] \o s])
  BY DEF SendOutgoingMessages
<1>6. k.thread = "idle" => k.tasks # <<>>
  BY DEF SendOutgoingMessages, QueueTask, IsAt
<1>7. ts \in Seq(Tasks)
  BY <1>1, <1>6, TailFacts
<1>8. o \in Seq(Message)
  <2>1. SubSeq(k.outgoing, n + 1, Len(k.outgoing)) \in Seq(Message)
    <3> HIDE DEF n
    <3>1. n + 1 \in Nat /\ n + 1 >= 1
      BY <1>4
    <3> QED
      BY <1>1, <1>3, <1>4, <3>1
  <2>2. k.outgoing # <<>> => Tail(k.outgoing) \in Seq(Message)
    BY <1>1, TailFacts
  <2> HIDE DEF n, open
  <2> QED
    BY <1>1, <2>1, <2>2
<1>9. s \in Seq(Message) /\ Len(s) = n
  <2> HIDE DEF n
  <2> QED
    BY <1>1, <1>3, <1>4
<1>10. socket[e] \o s \in Seq(Message) /\ Len(socket[e] \o s) <= capacity
  <2> HIDE DEF s, n
  <2> QED
    BY <1>2, <1>3, <1>4, <1>9
<1>11. SocketsOK
  <2> HIDE DEF s, n, e
  <2> QED
    BY <1>1, <1>5, <1>10 DEF SocketsOK, Inv, TypeInv
<1>12. th \in {"idle", "sending", "closing"}
  OBVIOUS
<1> HIDE DEF ts, o, th, k
<1>13. j \in Connections /\ Alike(k, j)
  BY <1>1, <1>7, <1>8, <1>12 DEF Connections, Alike
<1> HIDE DEF j
<1> QED
  BY <1>5, <1>11, <1>13, AlikeStep DEF k

LEMMA InvalidateTaskKeeps ==
    ASSUME Inv, NEW c \in Endpoints, InvalidateTask(c)
    PROVE  Inv'
<1> DEFINE k == conn[c]
           j == PlatformInvalidate([k EXCEPT !.tasks = Tail(@)])
<1>1. conn' = [conn EXCEPT ![c] = j] /\ UNCHANGED <<proc, calls>> /\ socket' = [socket EXCEPT ![c] = <<>>]
      /\ k.tasks # <<>>
  BY DEF InvalidateTask, QueueTask
<1>2. k \in Connections
  BY Here
<1>3. Tail(k.tasks) \in Seq(Tasks)
  BY <1>1, <1>2, TailFacts DEF Connections
<1>4. SocketsOK
  BY <1>1, EmptyFacts, BoundsAssumption DEF SocketsOK, Inv, TypeInv
<1>5. j \in Connections /\ Alike(k, j)
  <2> HIDE DEF k
  <2> QED
    BY <1>2, <1>3 DEF Connections, Alike, PlatformInvalidate
<1> HIDE DEF j
<1> QED
  BY <1>1, <1>4, <1>5, AlikeStep

(* readyReadHandler() takes the first message.                             *)
LEMMA ReadsFacts ==
    ASSUME Inv, NEW c \in Endpoints, NEW m, NEW k, NEW q, Reads(c, m, k, q)
    PROVE  /\ m \in Message /\ SocketsOK /\ conn' = [conn EXCEPT ![c] = k]
           /\ proc' = [proc EXCEPT ![processOf[c]] = q] /\ proc[processOf[c]].alive
<1>1. socket[c] \in Seq(Message) /\ Len(socket[c]) <= capacity /\ capacity \in Nat /\ socket[c] # <<>>
  BY BoundsAssumption DEF Inv, TypeInv, Reads
<1>2. m \in Message /\ Tail(socket[c]) \in Seq(Message) /\ Len(Tail(socket[c])) <= capacity
  BY <1>1, TailFacts DEF Reads
<1>3. SocketsOK
  BY <1>2 DEF SocketsOK, Inv, TypeInv, Reads
<1> QED
  BY <1>2, <1>3 DEF Reads, IsAt

LEMMA SignalEffect ==
    ASSUME NEW p, NEW q \in States(p), NEW t, t = Signal(q)
    PROVE  /\ t \in States(p) /\ t.stack = q.stack /\ t.alive = q.alive /\ t.runLoop = q.runLoop
           /\ t.toDispatch = q.toDispatch /\ t.scheduled = q.scheduled /\ t.semaphore
  BY DEF Signal, States

LEMMA QuietSignal ==
    ASSUME NEW p, NEW q \in States(p), ProcessInv(q), q.alive, NEW t, t = Signal(q) \/ t = q
    PROVE  t \in States(p) /\ t.alive /\ ProcessInv(t) /\ \A d : Quiet(q, t, d)
<1>1. /\ t \in States(p) /\ t.stack = q.stack /\ t.alive = q.alive /\ t.runLoop = q.runLoop
      /\ t.scheduled = q.scheduled /\ (q.semaphore => t.semaphore)
  BY SignalEffect
<1>2. \A d : ScheduleInv(q, d) => ScheduleInv(t, d)
  BY <1>1, SameSchedule
<1>3. \A d : Quiet(q, t, d)
  BY <1>1, <1>2, QuietSame
<1>4. ProcessInv(t)
  BY <1>1, ProcessSame
<1> QED
  BY <1>1, <1>3, <1>4

LEMMA QuietTwice ==
    ASSUME NEW q, NEW u, NEW t, NEW d, Quiet(q, u, d), Quiet(u, t, d)
    PROVE  Quiet(q, t, d)
  BY DEF Quiet

(* A connection that changes with its process, which is quiet.             *)
LEMMA QuietButHere ==
    ASSUME Inv, NEW c \in Endpoints, NEW k \in Connections, NEW t \in States(processOf[c]),
           conn' = [conn EXCEPT ![c] = k], proc' = [proc EXCEPT ![processOf[c]] = t], SocketsOK,
           LocalInv(k, t, c), \A d \in Mine(processOf[c]) : Quiet(proc[processOf[c]], t, d), ProcessInv(t)
    PROVE  Inv'
<1>1. \A d \in Mine(processOf[c]) : LocalInv(conn[d], proc[processOf[c]], d)
  BY Here
<1>2. ASSUME NEW d \in Mine(processOf[c]) PROVE LocalInv(conn[d], t, d)
  BY <1>1, QuietKeeps, AlikeItself
<1> QED
  BY <1>2, LocalStep DEF SocketsOK

(* What SelectLastInSeq() finds.                                           *)
RequestsOf(pending, id) == {j \in 1 .. Len(pending) : pending[j].id = id}

LEMMA LastPlace ==
    ASSUME NEW s \in Seq(PendingReplies), NEW id, NEW i,
           i = IF RequestsOf(s, id) # {} THEN Max(RequestsOf(s, id)) ELSE 0
    PROVE  /\ i \in Nat /\ (i > 0 => i \in DOMAIN s /\ s[i].id = id)
           /\ i = 0 => id \notin PendingIDs(s)
<1> DEFINE I == RequestsOf(s, id)
           n == Len(s)
           T == {n - x : x \in I}
<1>1. n \in Nat /\ DOMAIN s = 1 .. n
  BY LenProperties
<1>2. I \subseteq 1 .. n
  BY DEF RequestsOf
<1>3. I # {} => Max(I) \in I
  <2> SUFFICES ASSUME I # {} PROVE Max(I) \in I
    OBVIOUS
  <2> HIDE DEF I, n
  <2>1. T \subseteq Nat /\ T # {}
    BY <1>1, <1>2
  <2>2. PICK y \in T : \A z \in T : y <= z
    <3> HIDE DEF T
    <3> QED
      BY <2>1, LeastElement
  <2>3. PICK x \in I : y = n - x
    OBVIOUS
  <2>4. ASSUME NEW z \in I PROVE x >= z
    <3>1. n - z \in T /\ z \in 1 .. n /\ x \in 1 .. n
      BY <1>2
    <3>2. n - x <= n - z
      BY <2>2, <2>3, <3>1
    <3> QED
      BY <1>1, <3>1, <3>2
  <2> QED
    BY <2>4 DEF Max
<1>4. i \in Nat /\ (i > 0 => i \in DOMAIN s /\ s[i].id = id)
  BY <1>1, <1>2, <1>3 DEF RequestsOf
<1>5. i = 0 => I = {}
  <2> HIDE DEF I
  <2> QED
    BY <1>1, <1>2, <1>3 DEF I
<1>6. i = 0 => id \notin PendingIDs(s)
  BY <1>1, <1>5 DEF PendingIDs, RequestsOf
<1> QED
  BY <1>4, <1>6

Answered(k, i) == [k EXCEPT !.pending[i].reply = TRUE]

(* The reply to a pending request arrives.                                 *)
LEMMA ReplyLocal ==
    ASSUME NEW p, NEW q \in States(p), q.stack \in Seq(Frames(p)), NEW k \in Connections, NEW c, LocalInv(k, q, c),
           NEW i \in DOMAIN k.pending, NEW t, Quiet(q, t, c), t.stack = q.stack, i = Len(k.pending) => t.semaphore,
           NEW j, j = Answered(k, i)
    PROVE  j \in Connections /\ LocalInv(j, t, c)
<1> DEFINE r == ReplyAt(k.pending, i)
<1>1. k.pending \in Seq(PendingReplies)
  BY DEF Connections
<1>2. /\ r \in Seq(PendingReplies) /\ PendingIDs(r) = PendingIDs(k.pending)
      /\ PendingNest(k.pending) => PendingNest(r)
      /\ DOMAIN r = DOMAIN k.pending /\ Len(r) = Len(k.pending)
      /\ \A x \in DOMAIN k.pending : r[x].id = k.pending[x].id /\ (x # i => r[x] = k.pending[x])
  BY <1>1, PendingReply
<1>3. j = [k EXCEPT !.pending = r]
  BY DEF Answered, Connections, ReplyAt
<1> HIDE DEF r
<1>4. /\ j \in Connections /\ j.pending = r /\ j.lastID = k.lastID /\ j.secondary = k.secondary
      /\ j.waiting = k.waiting /\ j.shouldWait = k.shouldWait /\ j.told = k.told /\ j.client = k.client
  BY <1>2, <1>3 DEF Connections
<1>5. LocalInv(k, t, c)
  BY QuietKeeps, AlikeItself
<1>6. Matches(r, t.stack, c)
  BY <1>2, <1>5 DEF LocalInv, Matches
<1>7. IDsInv(j)
  BY <1>2, <1>4, <1>5 DEF LocalInv, IDsInv
<1>8. WakeInv(j, t, c)
  <2> SUFFICES ASSUME SleepsOn(t, c) PROVE ~Last(r).reply /\ k.shouldWait
    BY <1>4 DEF WakeInv
  <2>1. ~t.semaphore /\ ~Last(k.pending).reply /\ k.shouldWait
    BY <1>5 DEF LocalInv, WakeInv, SleepsOn
  <2>2. q.stack # <<>> /\ IsSync(Head(q.stack), c)
    BY DEF SleepsOn
  <2>3. Matches(k.pending, q.stack, c)
    BY DEF LocalInv
  <2>4. Last(k.pending) = k.pending[Len(k.pending)] /\ Len(k.pending) \in DOMAIN k.pending
    BY <1>1, <2>2, <2>3, TopCall
  <2>5. r[Len(k.pending)] = k.pending[Len(k.pending)]
    BY <1>2, <2>1, <2>4
  <2>6. Last(r) = r[Len(k.pending)]
    BY <1>2 DEF Last
  <2> QED
    BY <2>1, <2>4, <2>5, <2>6
<1>9. WaitInv(j, t, c) /\ SignalInv(j) /\ ToldInv(j) /\ ScheduleInv(t, c)
  BY <1>4, <1>5 DEF LocalInv, WaitInv, SignalInv, ToldInv
<1> QED
  BY <1>4, <1>6, <1>7, <1>8, <1>9 DEF LocalInv

(* The reply to a request of a secondary thread.                           *)
WokenBy(s) == [s EXCEPT !.reply = TRUE, !.signalled = TRUE]
Woken(secondary, id) ==
    (secondary \ {s \in secondary : s.id = id}) \cup {WokenBy(s) : s \in {s \in secondary : s.id = id}}
WithWoken(k, id) == [k EXCEPT !.secondary = Woken(@, id)]

LEMMA WokenFacts ==
    ASSUME NEW S, S \subseteq SecondaryReplies, NEW id
    PROVE  /\ Woken(S, id) \subseteq SecondaryReplies
           /\ \A s \in Woken(S, id) : s \in S \/ (s.reply /\ s.signalled /\ \E u \in S : u.id = id /\ s = WokenBy(u) /\ s.id = u.id)
           /\ \A s \in Woken(S, id) : s.id = id => s.reply /\ s.signalled
<1>1. ASSUME NEW u \in S
      PROVE  WokenBy(u) \in SecondaryReplies /\ WokenBy(u).reply /\ WokenBy(u).signalled /\ WokenBy(u).id = u.id
  BY DEF WokenBy, SecondaryReplies
<1>2. ASSUME NEW s \in Woken(S, id)
      PROVE  (s \in S /\ s.id # id) \/ \E u \in S : u.id = id /\ s = WokenBy(u)
  BY DEF Woken
<1> QED
  BY <1>1, <1>2

LEMMA WokenLocal ==
    ASSUME NEW k \in Connections, NEW q, NEW c, LocalInv(k, q, c), NEW id, NEW j, j = WithWoken(k, id)
    PROVE  j \in Connections /\ LocalInv(j, q, c)
<1> DEFINE S == k.secondary
           R == Woken(S, id)
<1>1. S \subseteq SecondaryReplies
  BY DEF Connections
<1>2. /\ R \subseteq SecondaryReplies
      /\ \A s \in R : s \in S \/ (s.reply /\ s.signalled /\ \E u \in S : u.id = id /\ s = WokenBy(u) /\ s.id = u.id)
      /\ \A s \in R : s.id = id => s.reply /\ s.signalled
  <2> HIDE DEF S
  <2> QED
    BY <1>1, WokenFacts
<1>3. j = [k EXCEPT !.secondary = R]
  BY DEF WithWoken
<1> HIDE DEF R
<1>4. /\ j \in Connections /\ j.secondary = R /\ j.pending = k.pending /\ j.lastID = k.lastID
      /\ j.waiting = k.waiting /\ j.shouldWait = k.shouldWait /\ j.told = k.told /\ j.client = k.client
  BY <1>2, <1>3 DEF Connections
<1>5. IDsInv(k) /\ SignalInv(k)
  BY DEF LocalInv
<1>6. \A s \in R : \E u \in S : s.id = u.id
  BY <1>2
<1>7. \A s, u \in R : s.id = u.id => s = u
  BY <1>2, <1>5 DEF IDsInv, Woken, R
<1>8. IDsInv(j)
  BY <1>4, <1>5, <1>6, <1>7 DEF IDsInv
<1>9. SignalInv(j)
  BY <1>2, <1>4, <1>5 DEF SignalInv
<1> QED
  BY <1>4, <1>8, <1>9 DEF LocalInv, WaitInv, WakeInv, ToldInv

LEMMA ReadReplyKeeps ==
    ASSUME Inv, NEW c \in Endpoints, NEW m, ReadReply(c, m)
    PROVE  Inv'
<1> DEFINE p == processOf[c]
           q == proc[p]
           k == conn[c]
           i == IF RequestsOf(k.pending, m.id) # {} THEN Max(RequestsOf(k.pending, m.id)) ELSE 0
           t == IF i = Len(k.pending) THEN Signal(q) ELSE q
           j == Answered(k, i)
           w == WithWoken(k, m.id)
<1>1. (i > 0 /\ Reads(c, m, j, t)) \/ Reads(c, m, w, q)
  BY DEF ReadReply, RequestsOf, SelectLastInSeq, Answered, WithWoken, Woken, WokenBy
<1>2. /\ p \in Processes /\ k \in Connections /\ q \in States(p) /\ ProcessInv(q) /\ LocalInv(k, q, c)
      /\ \A d \in Mine(p) : LocalInv(conn[d], q, d)
  BY Here
<1>3. k.pending \in Seq(PendingReplies) /\ q.stack \in Seq(Frames(p))
  BY <1>2 DEF Connections, States
<1>4. i > 0 => i \in DOMAIN k.pending
  <2> DEFINE id == m.id
  <2>1. i = IF RequestsOf(k.pending, id) # {} THEN Max(RequestsOf(k.pending, id)) ELSE 0
    OBVIOUS
  <2> HIDE DEF k, i, id
  <2> QED
    BY <1>3, <2>1, LastPlace
<1>5. (t = Signal(q) \/ t = q) /\ (i = Len(k.pending) => t = Signal(q)) /\ j = Answered(k, i) /\ w = WithWoken(k, m.id)
  OBVIOUS
<1> HIDE DEF k, i, t, j, w
<1>6. CASE i > 0 /\ Reads(c, m, j, t)
  <2>1. SocketsOK /\ conn' = [conn EXCEPT ![c] = j] /\ proc' = [proc EXCEPT ![p] = t] /\ q.alive
    BY <1>6, ReadsFacts
  <2>2. t \in States(p) /\ ProcessInv(t) /\ \A d : Quiet(q, t, d)
    BY <1>2, <1>5, <2>1, QuietSignal
  <2>3. t.stack = q.stack /\ (i = Len(k.pending) => t.semaphore)
    BY <1>2, <1>5, SignalEffect
  <2>4. j \in Connections /\ LocalInv(j, t, c)
    BY <1>2, <1>3, <1>4, <1>5, <1>6, <2>2, <2>3, ReplyLocal
  <2> QED
    BY <2>1, <2>2, <2>4, QuietButHere
<1>7. CASE Reads(c, m, w, q)
  <2>1. SocketsOK /\ conn' = [conn EXCEPT ![c] = w] /\ proc' = [proc EXCEPT ![p] = q] /\ q.alive
    BY <1>7, ReadsFacts
  <2>2. \A d : Quiet(q, q, d)
    BY QuietSame
  <2>3. w \in Connections /\ LocalInv(w, q, c)
    BY <1>2, <1>5, WokenLocal
  <2> QED
    BY <1>2, <2>1, <2>2, <2>3, QuietButHere
<1> QED
  BY <1>1, <1>6, <1>7

TaskOf(op, c) == [op |-> op, c |-> c]

LEMMA AppendSchedule ==
    ASSUME NEW p, NEW q \in States(p), NEW op, NEW c, TaskOf(op, c) \in RunLoopFunctions(p),
           NEW t, t.runLoop = Append(q.runLoop, TaskOf(op, c)), NEW d, ScheduleInv(q, d)
    PROVE  /\ op # "dispatchMessages" /\ t.scheduled = q.scheduled => ScheduleInv(t, d)
           /\ c # d /\ t.scheduled = q.scheduled \cup {c} => ScheduleInv(t, d)
           /\ d \notin q.scheduled /\ t.scheduled = q.scheduled \cup {d} => ScheduleInv(t, d)
<1> DEFINE e == TaskOf(op, c)
<1>1. q.runLoop \in Seq(RunLoopFunctions(p)) /\ e \in RunLoopFunctions(p) /\ t.runLoop = Append(q.runLoop, e)
  BY DEF States
<1>2. op # "dispatchMessages" \/ c # d => e \notin DispatchesOf(d)
  BY DEF DispatchesOf, TaskOf
<1> HIDE DEF e
<1>3. /\ Range(t.runLoop) = Range(q.runLoop) \cup {e}
      /\ \A C : Once(q.runLoop, C) /\ (e \in C => Range(q.runLoop) \cap C = {}) => Once(t.runLoop, C)
  BY <1>1, AppendKeeps
<1>4. Once(q.runLoop, DispatchesOf(d)) /\ (Range(q.runLoop) \cap DispatchesOf(d) # {} => d \in q.scheduled)
  BY DEF ScheduleInv
<1>5. CASE e \notin DispatchesOf(d)
  <2>1. Once(t.runLoop, DispatchesOf(d)) /\ (Range(t.runLoop) \cap DispatchesOf(d) # {} => d \in q.scheduled)
    BY <1>3, <1>4, <1>5
  <2> QED
    BY <2>1 DEF ScheduleInv
<1>6. CASE d \notin q.scheduled
  <2>1. Once(t.runLoop, DispatchesOf(d))
    BY <1>3, <1>4, <1>6
  <2>2. op # "dispatchMessages" \/ c # d => Range(t.runLoop) \cap DispatchesOf(d) = {}
    BY <1>2, <1>3, <1>4, <1>6
  <2> QED
    BY <2>1, <2>2 DEF ScheduleInv
<1> QED
  BY <1>2, <1>5, <1>6

(* SyncMessageState::processIncomingMessage()                              *)
EntryOf(c, m) == [c |-> c, m |-> m]
ToDispatch(q, c, m) ==
    [q EXCEPT !.toDispatch = Append(@, EntryOf(c, m)),
              !.scheduled = @ \cup {c},
              !.runLoop = IF c \in q.scheduled THEN @ ELSE Append(@, TaskOf("dispatchMessages", c))]

LEMMA ToDispatchEffect ==
    ASSUME NEW p, NEW q \in States(p), NEW c \in Mine(p), NEW m \in FlaggedMessages,
           NEW t, t = ToDispatch(q, c, m)
    PROVE  /\ t \in States(p) /\ t.stack = q.stack /\ t.alive = q.alive /\ t.semaphore = q.semaphore
           /\ t.toDispatch = Append(q.toDispatch, EntryOf(c, m))
           /\ \A d : ScheduleInv(q, d) => ScheduleInv(t, d)
<1> DEFINE e == EntryOf(c, m)
           o == Append(q.toDispatch, e)
           s == q.scheduled \cup {c}
           op == "dispatchMessages"
           r == IF c \in q.scheduled THEN q.runLoop ELSE Append(q.runLoop, TaskOf(op, c))
<1>1. e \in Entries(p) /\ q.toDispatch \in Seq(Entries(p)) /\ q.runLoop \in Seq(RunLoopFunctions(p))
      /\ q.scheduled \subseteq Mine(p) /\ TaskOf(op, c) \in RunLoopFunctions(p)
  BY DEF Entries, States, TaskOf, RunLoopFunctions, EntryOf
<1>2. t = [q EXCEPT !.toDispatch = o, !.scheduled = s, !.runLoop = r]
  BY DEF ToDispatch
<1> HIDE DEF e, op
<1>3. o \in Seq(Entries(p)) /\ s \subseteq Mine(p) /\ r \in Seq(RunLoopFunctions(p))
  BY <1>1, AppendFacts
<1>4. r = IF c \in q.scheduled THEN q.runLoop ELSE Append(q.runLoop, TaskOf(op, c))
  OBVIOUS
<1> HIDE DEF o, r, s
<1>5. /\ t \in States(p) /\ t.stack = q.stack /\ t.alive = q.alive /\ t.semaphore = q.semaphore
      /\ t.toDispatch = o /\ t.scheduled = s /\ t.runLoop = r
  BY <1>2, <1>3 DEF States
<1>6. ASSUME NEW d, ScheduleInv(q, d) PROVE ScheduleInv(t, d)
  <2>1. CASE c \in q.scheduled
    <3>1. t.runLoop = q.runLoop /\ t.scheduled = q.scheduled
      BY <2>1, <1>4, <1>5 DEF s
    <3> QED
      BY <1>6, <3>1, SameSchedule
  <2>2. CASE c \notin q.scheduled
    <3>1. t.runLoop = Append(q.runLoop, TaskOf(op, c)) /\ t.scheduled = q.scheduled \cup {c}
      BY <2>2, <1>4, <1>5 DEF s
    <3> QED
      BY <1>1, <1>6, <2>2, <3>1, AppendSchedule
  <2> QED
    BY <2>1, <2>2
<1> QED
  BY <1>5, <1>6 DEF o, e

LEMMA ReadFlaggedKeeps ==
    ASSUME Inv, NEW c \in Endpoints, NEW m, ReadFlagged(c, m)
    PROVE  Inv'
<1> DEFINE p == processOf[c]
           q == proc[p]
           k == conn[c]
           u == ToDispatch(q, c, m)
           t == Signal(u)
<1>1. Reads(c, m, k, t)
  BY DEF ReadFlagged, ToDispatch, TaskOf, EntryOf
<1>2. m \in Message /\ SocketsOK /\ conn' = [conn EXCEPT ![c] = k] /\ proc' = [proc EXCEPT ![p] = t] /\ q.alive
  <2> HIDE DEF k, t
  <2> QED
    BY <1>1, ReadsFacts
<1>3. /\ p \in Processes /\ k \in Connections /\ q \in States(p) /\ ProcessInv(q) /\ c \in Mine(p)
  BY Here, MineFacts
<1>4. /\ u \in States(p) /\ u.stack = q.stack /\ u.alive = q.alive /\ u.semaphore = q.semaphore
      /\ \A d : ScheduleInv(q, d) => ScheduleInv(u, d)
  <2>1. u = ToDispatch(q, c, m) /\ q \in States(p) /\ c \in Mine(p) /\ m \in FlaggedMessages
    BY <1>2, <1>3 DEF ReadFlagged, FlaggedMessages
  <2> HIDE DEF q, u, p
  <2> QED
    BY <2>1, ToDispatchEffect
<1>5. t = Signal(u)
  OBVIOUS
<1> HIDE DEF u, t
<1>6. /\ t \in States(p) /\ t.stack = u.stack /\ t.alive = u.alive /\ t.runLoop = u.runLoop
      /\ t.scheduled = u.scheduled /\ t.semaphore
  BY <1>4, <1>5, SignalEffect
<1>7. \A d : ScheduleInv(q, d) => ScheduleInv(t, d)
  BY <1>4, <1>6, SameSchedule
<1>8. \A d : Quiet(q, t, d)
  BY <1>4, <1>6, <1>7, QuietSame
<1>9. ProcessInv(t)
  BY <1>2, <1>3, <1>4, <1>6, ProcessSame
<1> QED
  BY <1>2, <1>3, <1>6, <1>8, <1>9, AlikeItself, QuietStep

(* m_waitForMessageCondition.notifyOne()                                   *)
LEMMA NotifyFacts ==
    ASSUME NEW p, NEW q \in States(p), ProcessInv(q), q.alive, NEW c, NEW t, t = Notify(c, q)
    PROVE  /\ t \in States(p) /\ t.alive /\ ProcessInv(t) /\ SameButStack(q, t)
           /\ ~Asleep(t, c) /\ \A d : Quiet(q, t, d)
<1>1. CASE ~(q.stack # <<>> /\ Head(q.stack).op = "wait" /\ Head(q.stack).c = c /\ Head(q.stack).at = "asleep")
  <2>1. t = q
    BY <1>1 DEF Notify
  <2>2. \A d : Quiet(q, q, d)
    BY QuietSame
  <2>3. ~Asleep(q, c)
    BY <1>1 DEF Asleep, Registered
  <2> QED
    BY <2>1, <2>2, <2>3 DEF SameButStack
<1>2. CASE q.stack # <<>> /\ Head(q.stack).op = "wait" /\ Head(q.stack).c = c /\ Head(q.stack).at = "asleep"
  <2> DEFINE a == "notified"
             f == Head(t.stack)
  <2>1. t = GoOn(q, a)
    BY <1>2 DEF Notify
  <2>2. CanGo(Head(q.stack), a) /\ a = "notified"
    BY <1>2 DEF CanGo, WaitPlaces
  <2> HIDE DEF a
  <2>3. Goes(p, q, t, a) /\ SameButStack(q, t)
    BY <1>2, <2>1, <2>2, GoesOn
  <2>4. t \in States(p) /\ f \in Frames(p) /\ t.stack = [q.stack EXCEPT ![1] = f]
        /\ f.op = "wait" /\ f.c = c /\ f.at = "notified"
    BY <1>2, <2>2, <2>3 DEF Goes, Topped
  <2>5. t.alive /\ t.runLoop = q.runLoop /\ t.scheduled = q.scheduled
    BY <2>3 DEF SameButStack
  <2>6. \A d : ~Asleep(t, d) /\ ~SleepsOn(t, d)
    BY <2>4 DEF Asleep, SleepsOn, IsSync
  <2>7. ProcessInv(t)
    BY <1>2, <2>4, <2>5, ProcessTop
  <2>8. \A d : ScheduleInv(q, d) => ScheduleInv(t, d)
    BY <2>5, SameSchedule
  <2>9. /\ f.op = Head(q.stack).op /\ (f.op \in {"sync", "wait"} => f.c = Head(q.stack).c)
        /\ (f.op = "sync" => f.id = Head(q.stack).id)
        /\ (f.op = "wait" => (f.at = "register" <=> Head(q.stack).at = "register"))
    BY <1>2, <2>4
  <2> HIDE DEF f
  <2>10. ASSUME NEW d PROVE Quiet(q, t, d)
    BY <1>2, <2>4, <2>6, <2>8, <2>9, QuietTop
  <2> QED
    BY <2>3, <2>4, <2>5, <2>6, <2>7, <2>10
<1> QED
  BY <1>1, <1>2

LEMMA WaitingKeeps ==
    ASSUME NEW k, NEW j, NEW q, NEW t, NEW d, LocalInv(k, q, d), Quiet(q, t, d), AlikeButWaiting(k, j),
           j.waiting # None <=> k.waiting # None, Asleep(t, d) => j.waiting.decoder = None
    PROVE  LocalInv(j, t, d)
<1>1. Matches(j.pending, t.stack, d)
  BY DEF LocalInv, Quiet, AlikeButWaiting, Matches
<1>2. IDsInv(j) /\ SignalInv(j) /\ ToldInv(j)
  BY DEF LocalInv, AlikeButWaiting, IDsInv, SignalInv, ToldInv
<1>3. WaitInv(j, t, d) /\ WakeInv(j, t, d) /\ ScheduleInv(t, d)
  BY DEF LocalInv, Quiet, AlikeButWaiting, WaitInv, WakeInv
<1> QED
  BY <1>1, <1>2, <1>3 DEF LocalInv

LEMMA ReadAwaitedKeeps ==
    ASSUME Inv, NEW c \in Endpoints, NEW m, ReadAwaited(c, m)
    PROVE  Inv'
<1> DEFINE p == processOf[c]
           q == proc[p]
           k == conn[c]
           w == [k.waiting EXCEPT !.decoder = m]
           j == WithWaiting(k, w)
           t == Notify(c, q)
<1>1. k \in Connections /\ q \in States(p) /\ ProcessInv(q) /\ LocalInv(k, q, c)
  BY Here
<1>2. k.waiting \in WaitForMessageState /\ k.waiting # None
  BY <1>1 DEF ReadAwaited, WaitsFor, Connections
<1>3. Reads(c, m, j, t)
  <2>1. j = [k EXCEPT !.waiting.decoder = m]
    BY <1>1 DEF WithWaiting, Connections
  <2> QED
    BY <2>1 DEF ReadAwaited
<1>4. j = WithWaiting(k, w) /\ t = Notify(c, q)
  OBVIOUS
<1> HIDE DEF j, t
<1>5. m \in Message /\ SocketsOK /\ conn' = [conn EXCEPT ![c] = j] /\ proc' = [proc EXCEPT ![p] = t] /\ q.alive
  BY <1>3, ReadsFacts
<1>6. w \in WaitForMessageState
  BY <1>2, <1>5 DEF WaitForMessageState
<1>7. w # None /\ w \in WaitForMessageState \cup {None}
  BY <1>6, BoundsAssumption
<1> HIDE DEF w, k
<1>8. j \in Connections /\ AlikeButWaiting(k, j) /\ j.waiting = w
  BY <1>1, <1>4, <1>7, WithWaitingEffect
<1>9. t \in States(p) /\ ProcessInv(t) /\ ~Asleep(t, c) /\ \A d : Quiet(q, t, d)
  BY <1>1, <1>4, <1>5, NotifyFacts
<1>10. LocalInv(j, t, c)
  BY <1>1, <1>2, <1>7, <1>8, <1>9, WaitingKeeps
<1> QED
  BY <1>5, <1>8, <1>9, <1>10, QuietButHere

WithIncoming(k, m) == [k EXCEPT !.incoming = Append(@, m)]
WithTask(q, op, c) == [q EXCEPT !.runLoop = Append(@, TaskOf(op, c))]

LEMMA WithTaskEffect ==
    ASSUME NEW p, NEW q \in States(p), ProcessInv(q), q.alive, NEW op \in {"dispatchOneMessage", "didClose"},
           NEW c \in Mine(p), NEW t, t = WithTask(q, op, c)
    PROVE  /\ t \in States(p) /\ t.alive /\ ProcessInv(t) /\ \A d : Quiet(q, t, d)
           /\ t.stack = q.stack /\ t.toDispatch = q.toDispatch /\ t.semaphore = q.semaphore
<1>1. q.runLoop \in Seq(RunLoopFunctions(p)) /\ TaskOf(op, c) \in RunLoopFunctions(p)
  BY DEF States, TaskOf, RunLoopFunctions
<1>2. Append(q.runLoop, TaskOf(op, c)) \in Seq(RunLoopFunctions(p))
  BY <1>1, AppendFacts
<1>3. /\ t \in States(p) /\ t.stack = q.stack /\ t.alive = q.alive /\ t.semaphore = q.semaphore
      /\ t.toDispatch = q.toDispatch /\ t.scheduled = q.scheduled /\ t.runLoop = Append(q.runLoop, TaskOf(op, c))
  BY <1>2 DEF WithTask, States
<1>4. ASSUME NEW d PROVE ScheduleInv(q, d) => ScheduleInv(t, d)
  BY <1>1, <1>3, AppendSchedule
<1>5. \A d : Quiet(q, t, d)
  BY <1>3, <1>4, QuietSame
<1>6. ProcessInv(t)
  BY <1>3, ProcessSame
<1> QED
  BY <1>3, <1>5, <1>6

LEMMA InterruptedFacts ==
    ASSUME NEW w \in WaitForMessageState, NEW v, v = [w EXCEPT !.interrupted = TRUE]
    PROVE  v \in WaitForMessageState /\ v # None /\ v \in WaitForMessageState \cup {None} /\ v.decoder = w.decoder
<1>1. v \in WaitForMessageState /\ v.decoder = w.decoder
  BY DEF WaitForMessageState
<1> QED
  BY <1>1, BoundsAssumption

LEMMA ReadOtherKeeps ==
    ASSUME Inv, NEW c \in Endpoints, NEW m, ReadOther(c, m)
    PROVE  Inv'
<1> DEFINE p == processOf[c]
           q == proc[p]
           k == conn[c]
           i == WithIncoming(k, m)
           op == "dispatchOneMessage"
           u == WithTask(q, op, c)
           w == [k.waiting EXCEPT !.interrupted = TRUE]
           j == WithWaiting(i, w)
           t == Notify(c, u)
<1>1. k \in Connections /\ q \in States(p) /\ ProcessInv(q) /\ LocalInv(k, q, c) /\ c \in Mine(p)
  BY Here, MineFacts
<1>2. \/ Reads(c, m, i, u)
      \/ k.waiting # None /\ Reads(c, m, j, t)
  <2>1. i.waiting = k.waiting /\ DOMAIN i = DOMAIN k
    BY <1>1 DEF WithIncoming, Connections
  <2>2. [i EXCEPT !.waiting.interrupted = TRUE] = j
    BY <1>1, <2>1 DEF WithWaiting, Connections
  <2>3. \/ Reads(c, m, i, u)
        \/ k.waiting # None /\ Reads(c, m, [i EXCEPT !.waiting.interrupted = TRUE], t)
    BY DEF ReadOther, WithIncoming, WithTask, TaskOf
  <2> QED
    BY <2>2, <2>3
<1>3. i = WithIncoming(k, m) /\ u = WithTask(q, op, c) /\ op \in {"dispatchOneMessage", "didClose"}
      /\ j = WithWaiting(i, w) /\ t = Notify(c, u)
  OBVIOUS
<1> HIDE DEF i, u, j, t, op
<1>4. m \in Message /\ SocketsOK /\ q.alive
  BY <1>2, ReadsFacts
<1>5. i \in Connections /\ Alike(k, i) /\ i.waiting = k.waiting
  <2>1. Append(k.incoming, m) \in Seq(Message)
    BY <1>1, <1>4, AppendFacts DEF Connections
  <2> HIDE DEF k
  <2> QED
    BY <1>1, <1>3, <2>1 DEF WithIncoming, Connections, Alike
<1>6. u \in States(p) /\ u.alive /\ ProcessInv(u) /\ \A d : Quiet(q, u, d)
  BY <1>1, <1>3, <1>4, WithTaskEffect
<1>7. CASE Reads(c, m, i, u)
  <2>1. conn' = [conn EXCEPT ![c] = i] /\ proc' = [proc EXCEPT ![p] = u]
    BY <1>7, ReadsFacts
  <2> QED
    BY <1>4, <1>5, <1>6, <2>1, QuietStep
<1>8. CASE k.waiting # None /\ Reads(c, m, j, t)
  <2>1. conn' = [conn EXCEPT ![c] = j] /\ proc' = [proc EXCEPT ![p] = t]
    BY <1>8, ReadsFacts
  <2>2. k.waiting \in WaitForMessageState
    BY <1>1, <1>8 DEF Connections
  <2>3. w # None /\ w \in WaitForMessageState \cup {None}
    BY <2>2, InterruptedFacts
  <2> HIDE DEF w
  <2>4. j \in Connections /\ AlikeButWaiting(i, j) /\ j.waiting = w
    BY <1>3, <1>5, <2>3, WithWaitingEffect
  <2>5. t \in States(p) /\ ProcessInv(t) /\ ~Asleep(t, c) /\ \A d : Quiet(u, t, d)
    BY <1>3, <1>6, NotifyFacts
  <2>6. LocalInv(i, u, c)
    BY <1>1, <1>5, <1>6, QuietKeeps
  <2>7. LocalInv(j, t, c)
    BY <1>5, <1>8, <2>3, <2>4, <2>5, <2>6, WaitingKeeps
  <2>8. \A d : Quiet(q, t, d)
    BY <1>6, <2>5, QuietTwice
  <2> QED
    BY <1>4, <2>1, <2>4, <2>5, <2>7, <2>8, QuietButHere
<1> QED
  BY <1>2, <1>7, <1>8

(***************************************************************************)
(* connectionDidClose(): everybody who waits for a reply is signalled.     *)
(***************************************************************************)

SignalledBy(s) == [s EXCEPT !.signalled = TRUE]
AllSignalled(secondary) == {SignalledBy(s) : s \in secondary}

LEMMA StoppedFacts ==
    ASSUME NEW k \in Connections, NEW j, j = StopWaiting(k)
    PROVE  /\ j \in Connections /\ j.secondary = AllSignalled(k.secondary) /\ ~j.shouldWait
           /\ j.pending = k.pending /\ j.lastID = k.lastID /\ j.waiting = k.waiting
           /\ j.told = k.told /\ j.client = k.client
<1> DEFINE S == AllSignalled(k.secondary)
<1>1. S \subseteq SecondaryReplies
  <2>1. k.secondary \subseteq SecondaryReplies
    BY DEF Connections
  <2>2. \A s \in SecondaryReplies : SignalledBy(s) \in SecondaryReplies
    BY DEF SignalledBy, SecondaryReplies
  <2> QED
    BY <2>1, <2>2 DEF AllSignalled
<1>2. j = [[k EXCEPT !.connected = FALSE] EXCEPT !.shouldWait = FALSE, !.thread = "closing", !.secondary = S]
  BY DEF StopWaiting, PlatformInvalidate, AllSignalled, SignalledBy, Connections
<1> HIDE DEF S
<1>3. /\ j \in Connections /\ j.secondary = S /\ ~j.shouldWait
      /\ j.pending = k.pending /\ j.lastID = k.lastID /\ j.waiting = k.waiting
      /\ j.told = k.told /\ j.client = k.client
  BY <1>1, <1>2, ZenonT(40) DEF Connections
<1> QED
  BY <1>3 DEF S

LEMMA StoppedLocal ==
    ASSUME NEW p, NEW q \in States(p), NEW k \in Connections, NEW c, LocalInv(k, q, c),
           NEW t, Quiet(q, t, c), t.stack = q.stack, k.pending # <<>> => t.semaphore,
           NEW j, j = StopWaiting(k)
    PROVE  LocalInv(j, t, c)
<1>1. /\ j \in Connections /\ j.secondary = AllSignalled(k.secondary) /\ ~j.shouldWait
      /\ j.pending = k.pending /\ j.lastID = k.lastID /\ j.waiting = k.waiting
      /\ j.told = k.told /\ j.client = k.client
  BY StoppedFacts
<1>2. LocalInv(k, t, c)
  BY QuietKeeps, AlikeItself
<1>3. ASSUME NEW s \in j.secondary
      PROVE  s.signalled /\ \E u \in k.secondary : s.id = u.id /\ s = SignalledBy(u)
  <2>1. k.secondary \subseteq SecondaryReplies
    BY DEF Connections
  <2>2. \A u \in k.secondary : SignalledBy(u).signalled /\ SignalledBy(u).id = u.id
    BY <2>1 DEF SignalledBy, SecondaryReplies
  <2> QED
    BY <1>1, <1>3, <2>2 DEF AllSignalled
<1>4. IDsInv(j)
  <2>1. IDsInv(k)
    BY <1>2 DEF LocalInv
  <2>2. \A s \in j.secondary : s.id \in 1 .. j.lastID /\ s.id \notin PendingIDs(j.pending)
    BY <1>1, <1>3, <2>1 DEF IDsInv
  <2>3. \A s, u \in j.secondary : s.id = u.id => s = u
    BY <1>3, <2>1 DEF IDsInv
  <2> QED
    BY <1>1, <2>1, <2>2, <2>3 DEF IDsInv
<1>5. ~SleepsOn(t, c)
  <2> SUFFICES ASSUME SleepsOn(t, c) PROVE FALSE
    OBVIOUS
  <2>1. q.stack # <<>> /\ IsSync(Head(q.stack), c) /\ ~t.semaphore
    BY DEF SleepsOn
  <2>2. Matches(k.pending, q.stack, c)
    BY DEF LocalInv
  <2>3. k.pending # <<>>
    BY <2>1, <2>2, TopCall DEF Connections, States
  <2> QED
    BY <2>1, <2>3
<1>6. SignalInv(j)
  BY <1>3 DEF SignalInv
<1>7. WakeInv(j, t, c)
  BY <1>5 DEF WakeInv
<1> QED
  BY <1>1, <1>2, <1>4, <1>6, <1>7 DEF LocalInv, WaitInv, ToldInv

LEMMA ConnectionDidCloseKeeps ==
    ASSUME Inv, NEW c \in Endpoints, proc[processOf[c]].alive, NEW k \in Connections, Alike(conn[c], k),
           ConnectionDidClose(c, k)
    PROVE  Inv'
<1> DEFINE p == processOf[c]
           q == proc[p]
           j == StopWaiting(k)
           t == IF k.pending = <<>> THEN q ELSE Signal(q)
<1>1. /\ p \in Processes /\ q \in States(p) /\ ProcessInv(q) /\ LocalInv(conn[c], q, c)
  BY Here
<1>2. conn' = [conn EXCEPT ![c] = j] /\ proc' = [proc EXCEPT ![p] = t]
  BY DEF ConnectionDidClose
<1>3. SocketsOK
  BY EmptyFacts, BoundsAssumption DEF ConnectionDidClose, SocketsOK, Inv, TypeInv
<1>4. (t = Signal(q) \/ t = q) /\ (k.pending # <<>> => t = Signal(q)) /\ j = StopWaiting(k)
  OBVIOUS
<1> HIDE DEF j, t
<1>5. t \in States(p) /\ ProcessInv(t) /\ \A d : Quiet(q, t, d)
  BY <1>1, <1>4, QuietSignal
<1>6. t.stack = q.stack /\ (k.pending # <<>> => t.semaphore)
  BY <1>1, <1>4, SignalEffect
<1>7. LocalInv(k, q, c)
  <2>1. Quiet(q, q, c)
    BY QuietSame
  <2> QED
    BY <1>1, <2>1, QuietKeeps
<1>8. LocalInv(j, t, c)
  BY <1>1, <1>4, <1>5, <1>6, <1>7, StoppedLocal
<1>9. j \in Connections
  BY <1>4, StoppedFacts
<1> QED
  BY <1>2, <1>3, <1>5, <1>8, <1>9, QuietButHere

LEMMA HangUpKeeps ==
    ASSUME Inv, NEW c \in Endpoints, HangUp(c)
    PROVE  Inv'
<1>1. proc[processOf[c]].alive /\ ConnectionDidClose(c, conn[c])
  BY DEF HangUp, IsAt
<1> QED
  BY <1>1, Here, AlikeItself, ConnectionDidCloseKeeps

WithoutTask(k) == [k EXCEPT !.tasks = Tail(@)]

LEMMA WithoutTaskEffect ==
    ASSUME NEW k \in Connections, k.tasks # <<>>, NEW j, j = WithoutTask(k)
    PROVE  j \in Connections /\ Alike(k, j)
<1>1. Tail(k.tasks) \in Seq(Tasks)
  BY DEF Connections
<1> QED
  BY <1>1 DEF WithoutTask, Connections, Alike

LEMMA CloseTaskKeeps ==
    ASSUME Inv, NEW c \in Endpoints, CloseTask(c)
    PROVE  Inv'
<1> DEFINE k == WithoutTask(conn[c])
<1>1. proc[processOf[c]].alive /\ conn[c].tasks # <<>> /\ ConnectionDidClose(c, k)
  BY DEF CloseTask, QueueTask, IsAt, WithoutTask
<1>2. k \in Connections /\ Alike(conn[c], k)
  BY <1>1, Here, WithoutTaskEffect
<1> HIDE DEF k
<1> QED
  BY <1>1, <1>2, ConnectionDidCloseKeeps

(* The second half. A thread that waits for a message is interrupted.      *)
Interrupted(w) == IF w = None THEN None ELSE [w EXCEPT !.interrupted = TRUE]
WithThread(k, at) == [k EXCEPT !.thread = at]

LEMMA WithThreadEffect ==
    ASSUME NEW k \in Connections, NEW j, j = WithThread(k, "idle")
    PROVE  j \in Connections /\ Alike(k, j)
  BY DEF WithThread, Connections, Alike

LEMMA FinishCloseKeeps ==
    ASSUME Inv, NEW c \in Endpoints, FinishClose(c)
    PROVE  Inv'
<1> DEFINE p == processOf[c]
           q == proc[p]
           k == conn[c]
           i == WithThread(k, "idle")
           w == Interrupted(k.waiting)
           j == WithWaiting(i, w)
           u == Notify(c, q)
           op == "didClose"
           t == WithTask(u, op, c)
<1>1. k \in Connections /\ q \in States(p) /\ ProcessInv(q) /\ LocalInv(k, q, c) /\ c \in Mine(p) /\ q.alive
  BY Here, MineFacts DEF FinishClose, IsAt
<1>2. conn' = [conn EXCEPT ![c] = j] /\ proc' = [proc EXCEPT ![p] = t]
  <2>1. conn' = [conn EXCEPT ![c].thread = "idle", ![c].waiting = w]
    BY DEF FinishClose, Interrupted
  <2>2. conn \in [Endpoints -> Connections]
    BY DEF Inv, TypeInv
  <2> HIDE DEF w
  <2>3. conn' = [conn EXCEPT ![c] = [k EXCEPT !.thread = "idle", !.waiting = w]]
    BY <2>1, <2>2
  <2>4. [k EXCEPT !.thread = "idle", !.waiting = w] = j
    BY <1>1 DEF WithWaiting, WithThread
  <2>5. proc' = [proc EXCEPT ![p] = t]
    BY DEF FinishClose, WithTask, TaskOf
  <2> QED
    BY <2>3, <2>4, <2>5
<1>3. i = WithThread(k, "idle") /\ j = WithWaiting(i, w) /\ u = Notify(c, q) /\ t = WithTask(u, op, c)
      /\ op \in {"dispatchOneMessage", "didClose"}
  OBVIOUS
<1>4. w \in WaitForMessageState \cup {None} /\ (w # None <=> k.waiting # None)
  <2>1. CASE k.waiting = None
    BY <2>1 DEF Interrupted
  <2>2. CASE k.waiting # None
    <3>1. k.waiting \in WaitForMessageState /\ w = [k.waiting EXCEPT !.interrupted = TRUE]
      BY <1>1, <2>2 DEF Interrupted, Connections
    <3> HIDE DEF w
    <3> QED
      BY <2>2, <3>1, InterruptedFacts
  <2> QED
    BY <2>1, <2>2
<1>5. SocketsOK
  BY SameSocketsOK DEF FinishClose
<1> HIDE DEF i, w, j, u, t, op
<1>6. i \in Connections /\ Alike(k, i)
  BY <1>1, <1>3, WithThreadEffect
<1>7. j \in Connections /\ AlikeButWaiting(i, j) /\ j.waiting = w
  BY <1>3, <1>4, <1>6, WithWaitingEffect
<1>8. u \in States(p) /\ u.alive /\ ProcessInv(u) /\ ~Asleep(u, c) /\ \A d : Quiet(q, u, d)
  BY <1>1, <1>3, NotifyFacts
<1>9. t \in States(p) /\ ProcessInv(t) /\ \A d : Quiet(u, t, d)
  BY <1>1, <1>3, <1>8, WithTaskEffect
<1>10. LocalInv(i, u, c)
  BY <1>1, <1>6, <1>8, QuietKeeps
<1>11. i.waiting = k.waiting
  BY <1>6 DEF Alike
<1>12. Quiet(u, t, c) /\ (Asleep(t, c) => Asleep(u, c))
  BY <1>9 DEF Quiet
<1>13. LocalInv(j, t, c)
  BY <1>4, <1>7, <1>8, <1>10, <1>11, <1>12, WaitingKeeps
<1>14. \A d : Quiet(q, t, d)
  BY <1>8, <1>9, QuietTwice
<1> QED
  BY <1>2, <1>5, <1>7, <1>9, <1>13, <1>14, QuietButHere

LEMMA PostConnectionDidCloseKeeps ==
    ASSUME Inv, NEW c \in Endpoints, PostConnectionDidClose(c)
    PROVE  Inv'
<1> DEFINE p == processOf[c]
           k == conn[c]
           s == Append(k.tasks, "connectionDidClose")
           j == [k EXCEPT !.tasks = s]
           t == Spend(proc[p])
<1>1. /\ May(c, "postClose") /\ conn' = [conn EXCEPT ![c] = j] /\ proc' = [proc EXCEPT ![p] = t]
      /\ UNCHANGED <<socket, calls>>
  BY DEF PostConnectionDidClose
<1>2. k \in Connections
  BY Here
<1>3. s \in Seq(Tasks)
  BY <1>2, AppendFacts DEF Connections, Tasks
<1> HIDE DEF k, s
<1>4. j \in Connections /\ Alike(k, j)
  BY <1>2, <1>3 DEF Connections, Alike
<1>5. SocketsOK
  BY <1>1, SameSocketsOK
<1>6. /\ t \in States(p) /\ ProcessInv(t) /\ \A d : Quiet(proc[p], t, d)
  BY <1>1, MayFacts
<1> HIDE DEF j, t
<1> QED
  BY <1>1, <1>4, <1>5, <1>6, QuietStep DEF k

(***************************************************************************)
(* Secondary threads.                                                      *)
(***************************************************************************)

WithSecondary(k, id, x) ==
    [SendMessage(k, "sync", FALSE, id) EXCEPT !.lastID = @ + 1, !.secondary = @ \cup {x}]

LEMMA SecondaryEffect ==
    ASSUME NEW k \in Connections, NEW id \in Nat, IsNextID(k, id), NEW x \in SecondaryReplies, NEW j,
           j = WithSecondary(k, id, x)
    PROVE  /\ j \in Connections /\ j.pending = k.pending /\ j.lastID = id
           /\ j.secondary = k.secondary \cup {x} /\ j.waiting = k.waiting /\ j.shouldWait = k.shouldWait
           /\ j.told = k.told /\ j.client = k.client
<1> DEFINE b == FALSE
           n == "sync"
           i == SendMessage(k, n, b, id)
           S == i.secondary \cup {x}
           m == [name |-> n, flagged |-> b, id |-> id, number |-> k.sent + 1]
<1>1. n \in Names \cup {"sync", "SyncMessageReply"} /\ b \in BOOLEAN
  OBVIOUS
<1>2. /\ i \in Connections /\ Alike(k, i) /\ i.client = k.client /\ i.incoming = k.incoming
      /\ i.outgoing = Append(k.outgoing, m) /\ m \in Message
  <2>1. i = SendMessage(k, n, b, id) /\ m = [name |-> n, flagged |-> b, id |-> id, number |-> k.sent + 1]
    OBVIOUS
  <2> HIDE DEF i, n, b, m
  <2> QED
    BY <1>1, <2>1, SendEffect
<1>3. j = [i EXCEPT !.lastID = @ + 1, !.secondary = S]
  BY DEF WithSecondary
<1> HIDE DEF i, n, b, m
<1>4. S \subseteq SecondaryReplies /\ i.lastID + 1 \in Nat
  BY <1>2, SMTT(40) DEF Connections
<1>5. i.secondary = k.secondary
  BY <1>2 DEF Alike
<1>6. S = k.secondary \cup {x}
  BY <1>5
<1> HIDE DEF S
<1>7. /\ j \in Connections /\ j.pending = i.pending /\ j.lastID = i.lastID + 1
      /\ j.secondary = S /\ j.waiting = i.waiting /\ j.shouldWait = i.shouldWait
      /\ j.told = i.told /\ j.client = i.client
  BY <1>2, <1>3, <1>4, ZenonT(40) DEF Connections
<1> QED
  BY <1>2, <1>6, <1>7 DEF Alike, IsNextID

LEMMA SecondaryLocal ==
    ASSUME NEW q, NEW k \in Connections, NEW c, LocalInv(k, q, c), k.shouldWait,
           NEW x \in SecondaryReplies, x.id = k.lastID + 1, ~x.reply,
           NEW j, j.pending = k.pending, j.lastID = k.lastID + 1, j.secondary = k.secondary \cup {x},
           j.waiting = k.waiting, j.shouldWait = k.shouldWait, j.told = k.told, j.client = k.client
    PROVE  LocalInv(j, q, c)
<1>1. k.lastID \in Nat /\ k.secondary \subseteq SecondaryReplies
  BY DEF Connections
<1>2. IDsInv(k)
  BY DEF LocalInv
<1>3. \A id \in 1 .. k.lastID : id \in 1 .. j.lastID /\ id # x.id
  BY <1>1
<1>4. x.id \in 1 .. j.lastID
  BY <1>1
<1>5. \A id \in PendingIDs(j.pending) : id \in 1 .. j.lastID /\ id # x.id
  BY <1>2, <1>3 DEF IDsInv
<1>6. \A s \in k.secondary : s.id \in 1 .. j.lastID /\ s.id # x.id /\ s.id \notin PendingIDs(j.pending)
  BY <1>2, <1>3 DEF IDsInv
<1>7. IDsInv(j)
  BY <1>2, <1>4, <1>5, <1>6 DEF IDsInv
<1>8. SignalInv(j)
  BY DEF LocalInv, SignalInv
<1> QED
  BY <1>7, <1>8 DEF LocalInv, WaitInv, WakeInv, ToldInv

LEMMA SecondarySendKeeps ==
    ASSUME Inv, NEW c \in Endpoints, SecondarySend(c)
    PROVE  Inv'
<1> DEFINE p == processOf[c]
           q == proc[p]
           k == conn[c]
           id == k.lastID + 1
           x == [id |-> id, reply |-> FALSE, signalled |-> FALSE]
           j == WithSecondary(k, id, x)
           t == Spend(q)
<1>1. /\ May(c, "secondary") /\ k.shouldWait /\ UNCHANGED socket /\ DOMAIN calls' = DOMAIN calls
  BY DEF SecondarySend
<1>2. conn' = [conn EXCEPT ![c] = j] /\ proc' = [proc EXCEPT ![p] = t]
  BY Zenon DEF SecondarySend, NextID, WithSecondary
<1>3. /\ k \in Connections /\ LocalInv(k, q, c)
  BY Here
<1>4. id \in Nat /\ x \in SecondaryReplies /\ x.id = id /\ ~x.reply
  BY <1>3 DEF Connections, SecondaryReplies
<1>5. IsNextID(k, id) /\ j = WithSecondary(k, id, x) /\ id = k.lastID + 1
  BY DEF IsNextID
<1>6. t \in States(p) /\ ProcessInv(t) /\ \A d : Quiet(q, t, d)
  BY <1>1, MayFacts
<1> HIDE DEF q, k, id, x, j, t
<1>7. /\ j \in Connections /\ j.pending = k.pending /\ j.lastID = id
      /\ j.secondary = k.secondary \cup {x} /\ j.waiting = k.waiting /\ j.shouldWait = k.shouldWait
      /\ j.told = k.told /\ j.client = k.client
  BY <1>3, <1>4, <1>5, SecondaryEffect
<1>8. LocalInv(k, t, c)
  BY <1>3, <1>6, QuietKeeps, AlikeItself
<1>9. LocalInv(j, t, c)
  BY <1>1, <1>3, <1>4, <1>5, <1>7, <1>8, SecondaryLocal
<1>10. SocketsOK
  BY <1>1 DEF SocketsOK, Inv, TypeInv
<1> QED
  BY <1>2, <1>6, <1>7, <1>9, <1>10, QuietButHere DEF q

WithoutSecondary(k, s) == [k EXCEPT !.secondary = @ \ {s}]

LEMMA SecondaryEndsKeeps ==
    ASSUME Inv, NEW c \in Endpoints, NEW s \in conn[c].secondary, SecondaryEnds(c, s)
    PROVE  Inv'
<1> DEFINE k == conn[c]
           q == proc[processOf[c]]
           j == WithoutSecondary(k, s)
<1>1. k \in Connections /\ LocalInv(k, q, c)
  BY Here
<1>2. conn' = [conn EXCEPT ![c] = j] /\ UNCHANGED proc
  BY DEF SecondaryEnds, WithoutSecondary
<1>3. SocketsOK
  BY DEF SecondaryEnds, SocketsOK, Inv, TypeInv
<1>4. j = WithoutSecondary(k, s)
  OBVIOUS
<1> HIDE DEF k, j
<1>5. k.secondary \ {s} \subseteq SecondaryReplies
  BY <1>1 DEF Connections
<1>6. /\ j \in Connections /\ j.pending = k.pending /\ j.lastID = k.lastID
      /\ j.secondary = k.secondary \ {s} /\ j.waiting = k.waiting /\ j.shouldWait = k.shouldWait
      /\ j.told = k.told /\ j.client = k.client
  BY <1>1, <1>4, <1>5 DEF Connections, WithoutSecondary
<1>7. IDsInv(j) /\ SignalInv(j)
  BY <1>1, <1>6 DEF LocalInv, IDsInv, SignalInv
<1>8. LocalInv(j, q, c)
  BY <1>1, <1>6, <1>7 DEF LocalInv, WaitInv, WakeInv, ToldInv
<1> QED
  BY <1>2, <1>3, <1>6, <1>8, ConnectionStep

LEMMA CrashKeeps ==
    ASSUME Inv, NEW p \in Processes, Crash(p)
    PROVE  Inv'
<1>1. Die(p) /\ DOMAIN calls' = Endpoints
  BY DEF Crash, Inv, TypeInv
<1> QED
  BY <1>1, DieKeeps
-----------------------------------------------------------------------------
(***************************************************************************)
(* The invariant holds.                                                    *)
(***************************************************************************)

LEMMA InitInv == Init => Inv
<1> SUFFICES ASSUME Init PROVE Inv
  OBVIOUS
<1> DEFINE k == NewConnection
           q == NewProcess
<1>1. k \in Connections /\ k.pending = <<>> /\ k.secondary = {} /\ k.waiting = None /\ k.told = 0
  BY EmptyFacts DEF NewConnection, Connections
<1>2. ASSUME NEW p \in Processes
      PROVE  q \in States(p) /\ q.stack = <<>> /\ q.runLoop = <<>> /\ q.alive
  BY EmptyFacts, BoundsAssumption DEF NewProcess, States
<1>3. conn = [c \in Endpoints |-> k] /\ proc = [p \in Processes |-> q]
  BY DEF Init
<1> HIDE DEF k, q
<1>4. TypeInv
  <2>1. conn \in [Endpoints -> Connections]
    BY <1>1, <1>3
  <2>2. DOMAIN proc = Processes /\ \A p \in Processes : proc[p] \in States(p)
    BY <1>2, <1>3
  <2>3. socket \in [Endpoints -> Seq(Message)] /\ \A c \in Endpoints : Len(socket[c]) <= capacity
    BY EmptyFacts, BoundsAssumption DEF Init
  <2> QED
    BY <2>1, <2>2, <2>3 DEF TypeInv, Init
<1>5. ASSUME NEW c \in Endpoints PROVE LocalInv(conn[c], proc[processOf[c]], c)
  <2>1. conn[c] = k /\ proc[processOf[c]] = q /\ processOf[c] \in Processes
    BY <1>3, MineFacts
  <2>2. ToldInv(k)
    BY <1>1 DEF ToldInv
  <2> QED
    BY <1>1, <1>2, <2>1, <2>2, AtRestInv
<1>6. ASSUME NEW p \in Processes PROVE ProcessInv(proc[p])
  BY <1>2, <1>3, EmptyFacts DEF ProcessInv
<1> QED
  BY <1>4, <1>5, <1>6 DEF Inv

LEMMA MainThreadStepKeeps ==
    ASSUME Inv, NEW p \in Processes, MainThreadStep(p) \/ SyncTimesOut(p)
    PROVE  Inv'
  BY HandlerReturnsKeeps, SyncDispatchKeeps, SyncCheckKeeps, SyncWakesKeeps, SyncReturnsKeeps, DispatchNextKeeps,
     WaitRegistersKeeps, WaitChecksKeeps, WaitWakesKeeps, WaitTimesOutKeeps, DispatchOneMessageKeeps,
     ResetDidScheduleKeeps, DispatchAllowedKeeps, DidCloseKeeps, SyncTimesOutKeeps DEF MainThreadStep

LEMMA ClientStepKeeps ==
    ASSUME Inv, NEW c \in Endpoints, ClientStep(c)
    PROVE  Inv'
  BY SendKeeps, WaitForMessageKeeps, SendSyncKeeps, SendSyncFailsKeeps, InvalidateKeeps, SecondarySendKeeps,
     PostConnectionDidCloseKeeps DEF ClientStep

LEMMA QueueThreadStepKeeps ==
    ASSUME Inv, NEW c \in Endpoints, QueueThreadStep(c)
    PROVE  Inv'
<1>1. ASSUME ProcessIncomingMessage(c) PROVE Inv'
  BY <1>1, ReadReplyKeeps, ReadFlaggedKeeps, ReadAwaitedKeeps, ReadOtherKeeps DEF ProcessIncomingMessage
<1> QED
  BY <1>1, SendOutgoingMessagesKeeps, InvalidateTaskKeeps, HangUpKeeps, CloseTaskKeeps, FinishCloseKeeps
     DEF QueueThreadStep

LEMMA NextInv ==
    ASSUME Inv, Next
    PROVE  Inv'
<1>1. ASSUME NEW p \in Processes, MainThreadStep(p) \/ SyncTimesOut(p) PROVE Inv'
  BY <1>1, MainThreadStepKeeps
<1>2. ASSUME NEW p \in Processes, Crash(p) PROVE Inv'
  BY <1>2, CrashKeeps
<1>3. ASSUME NEW c \in Endpoints, ClientStep(c) PROVE Inv'
  BY <1>3, ClientStepKeeps
<1>4. ASSUME NEW c \in Endpoints, QueueThreadStep(c) PROVE Inv'
  BY <1>4, QueueThreadStepKeeps
<1>5. ASSUME NEW c \in Endpoints, SecondaryReturns(c) \/ SecondaryTimesOut(c) PROVE Inv'
  BY <1>5, SecondaryEndsKeeps DEF SecondaryReturns, SecondaryTimesOut
<1> QED
  BY <1>1, <1>2, <1>3, <1>4, <1>5 DEF Next

LEMMA StutterInv ==
    ASSUME Inv, UNCHANGED vars
    PROVE  Inv'
  BY DEF vars, Inv, TypeInv, LocalInv, ProcessInv, Matches, IDsInv, ScheduleInv, WaitInv, WakeInv, SignalInv, ToldInv

(* The inductive invariant holds. The assertions of sendSyncMessage() on   *)
(* the top of the stack of pending replies (491, 553, 556) follow from     *)
(* Matches, which compares it with the calls on the main thread's stack.   *)
THEOREM Invariance == Spec => []Inv
<1>1. Inv /\ [Next]_vars => Inv'
  BY NextInv, StutterInv
<1> QED
  BY <1>1, InitInv, PTL DEF Spec

LEMMA ConcatSet ==
    ASSUME NEW S, NEW a \in Seq(S), NEW b \in Seq(S), NEW d \in Seq(S)
    PROVE  ToSet(a \o b \o d) \subseteq S /\ ToSet(a) \subseteq S
<1>1. a \o b \o d \in Seq(S)
  BY ConcatProperties
<1>2. ASSUME NEW s \in Seq(S) PROVE ToSet(s) \subseteq S
  BY ElementOfSeq, LenProperties DEF ToSet
<1> QED
  BY <1>1, <1>2

(* TypeOK holds for any processes, connections and clients. That the IDs   *)
(* of pending replies have been handed out (1 .. lastID) follows from the  *)
(* invariant on them.                                                      *)
THEOREM TypeCorrect == Spec => []TypeOK
<1>1. ASSUME Inv, NEW c \in Endpoints, NEW k, k = conn[c]
      PROVE  /\ {k.client, k.connected, k.shouldWait} \subseteq BOOLEAN
             /\ ToSet(k.incoming \o k.outgoing \o socket[c]) \subseteq Message
             /\ k.pending \in Seq([id : 1 .. k.lastID, reply : BOOLEAN])
             /\ k.secondary \subseteq [id : 1 .. k.lastID, reply : BOOLEAN, signalled : BOOLEAN]
             /\ k.waiting \in WaitForMessageState \cup {None}
             /\ ToSet(k.tasks) \subseteq {"sendOutgoingMessages", "platformInvalidate", "connectionDidClose"}
             /\ k.thread \in {"idle", "sending", "closing"}
             /\ Len(socket[c]) <= capacity
  <2>1. k \in Connections /\ IDsInv(k) /\ socket[c] \in Seq(Message) /\ Len(socket[c]) <= capacity
    BY <1>1, Here DEF LocalInv, Inv, TypeInv
  <2>2. /\ {k.client, k.connected, k.shouldWait} \subseteq BOOLEAN
        /\ k.incoming \in Seq(Message) /\ k.outgoing \in Seq(Message) /\ k.pending \in Seq(PendingReplies)
        /\ k.secondary \subseteq SecondaryReplies /\ k.waiting \in WaitForMessageState \cup {None}
        /\ k.lastID \in Nat /\ k.tasks \in Seq(Tasks) /\ k.thread \in {"idle", "sending", "closing"}
    BY <2>1 DEF Connections
  <2>3. ToSet(k.incoming \o k.outgoing \o socket[c]) \subseteq Message /\ ToSet(k.tasks) \subseteq Tasks
    BY <2>1, <2>2, ConcatSet
  <2>4. k.pending \in Seq([id : 1 .. k.lastID, reply : BOOLEAN])
    <3> DEFINE R == [id : 1 .. k.lastID, reply : BOOLEAN]
               s == k.pending
    <3>1. Len(s) \in Nat /\ DOMAIN s = 1 .. Len(s) /\ s = [i \in 1 .. Len(s) |-> s[i]]
      BY <2>2, LenProperties
    <3>2. ASSUME NEW i \in 1 .. Len(s) PROVE s[i] \in R
      <4>1. s[i] \in PendingReplies
        BY <2>2, ElementOfSeq
      <4>2. s[i].id \in PendingIDs(s)
        BY <3>1 DEF PendingIDs
      <4>3. s[i].id \in 1 .. k.lastID
        BY <2>1, <4>2 DEF IDsInv
      <4> QED
        BY <4>1, <4>3 DEF PendingReplies
    <3> HIDE DEF R, s
    <3>3. s \in [1 .. Len(s) -> R]
      BY <3>1, <3>2
    <3> QED
      BY <3>1, <3>3, SeqDef, ZenonT(40) DEF R, s
  <2>5. k.secondary \subseteq [id : 1 .. k.lastID, reply : BOOLEAN, signalled : BOOLEAN]
    <3> SUFFICES ASSUME NEW s \in k.secondary
                 PROVE  s \in [id : 1 .. k.lastID, reply : BOOLEAN, signalled : BOOLEAN]
      OBVIOUS
    <3>1. s \in SecondaryReplies /\ s.id \in 1 .. k.lastID
      BY <2>1, <2>2 DEF IDsInv
    <3> QED
      BY <3>1 DEF SecondaryReplies
  <2> QED
    BY <2>1, <2>2, <2>3, <2>4, <2>5 DEF Tasks
<1>2. ASSUME Inv, NEW p \in Processes, NEW q, q = proc[p]
      PROVE  /\ {q.alive, q.semaphore} \subseteq BOOLEAN
             /\ ToSet(q.runLoop) \subseteq
                    [op : {"dispatchOneMessage", "dispatchMessages", "didClose"}, c : Endpoints]
             /\ ToSet(q.toDispatch) \subseteq [c : Endpoints, m : Message]
             /\ q.scheduled \subseteq Endpoints
             /\ q.done \in 0 .. maxOperations[p]
             /\ \A i \in DOMAIN q.stack :
                    q.stack[i].op \in {"handle", "sync", "dispatch", "dispatchMessages", "wait"}
  <2>1. q \in States(p)
    BY <1>2, There
  <2>2. /\ {q.alive, q.semaphore} \subseteq BOOLEAN /\ q.scheduled \subseteq Mine(p) /\ q.done \in 0 .. maxOperations[p]
        /\ q.runLoop \in Seq(RunLoopFunctions(p)) /\ q.toDispatch \in Seq(Entries(p)) /\ q.stack \in Seq(Frames(p))
    BY <2>1 DEF States
  <2>3. Mine(p) \subseteq Endpoints
    BY DEF Mine
  <2>4. ToSet(q.runLoop) \subseteq RunLoopFunctions(p) /\ ToSet(q.toDispatch) \subseteq Entries(p)
    BY <2>2, ConcatSet
  <2>5. ToSet(q.runLoop) \subseteq [op : {"dispatchOneMessage", "dispatchMessages", "didClose"}, c : Endpoints]
    BY <2>3, <2>4 DEF RunLoopFunctions
  <2>6. ToSet(q.toDispatch) \subseteq [c : Endpoints, m : Message]
    BY <2>3, <2>4 DEF Entries, FlaggedMessages
  <2>7. ASSUME NEW i \in DOMAIN q.stack
        PROVE  q.stack[i].op \in {"handle", "sync", "dispatch", "dispatchMessages", "wait"}
    <3>1. q.stack[i] \in Frames(p)
      BY <2>2, ElementOfSeq, LenProperties
    <3> QED
      BY <3>1, FrameFacts
  <2> QED
    BY <2>2, <2>3, <2>5, <2>6, <2>7
<1>3. Inv => TypeOK
  BY <1>1, <1>2 DEF TypeOK, Inv, TypeInv
<1> QED
  BY <1>3, Invariance, PTL
-----------------------------------------------------------------------------
(***************************************************************************)
(* The messages that wait to be dispatched.                                *)
(*                                                                         *)
(* dispatchMessages(allowedConnection) puts the messages of other          *)
(* connections back into the list (Connection.cpp:175-180) and signals     *)
(* nobody. That does no harm as long as no call waits for a reply further  *)
(* down on the stack. A nested run loop can break this: it dispatches for  *)
(* one connection while a call waits below it, and a call that the handler *)
(* makes in between may have taken the signal. So what follows is about    *)
(* processes where a handler that runs a nested loop has one connection    *)
(* to dispatch for.                                                        *)
(***************************************************************************)

NestedAlone ==
    \A c, d \in Endpoints : processOf[c] = processOf[d] /\ processOf[c] \in NestedLoops => c = d

(* dispatchMessages() for one connection, which run loops call.            *)
AllowsOne(f) == f.op = "dispatchMessages" \/ (f.op = "dispatch" /\ f.allowed # None)
PutsBack(f) == f.op = "dispatch" /\ f.back # <<>>
HasSync(stack) == \E i \in DOMAIN stack : stack[i].op = "sync"
Fresh(q) == q.stack # <<>> /\ Head(q.stack).op = "sync" /\ Head(q.stack).at = "dispatch"

BottomInv(p, stack) ==
    \A i \in DOMAIN stack :
        /\ AllowsOne(stack[i]) => p \in NestedLoops \/ i = Len(stack)
        /\ PutsBack(stack[i]) => i = Len(stack)

(* Where a call waits, whatever is in the list is looked at next or has    *)
(* been signalled.                                                         *)
ListInv(q) == q.toDispatch # <<>> /\ HasSync(q.stack) => q.semaphore \/ Fresh(q)

DispatchInv(p, q) == BottomInv(p, q.stack) /\ ListInv(q)
DispatchesInv == \A p \in Processes : DispatchInv(p, proc[p])

(* A step from q to t adds nothing to the list that is not heard of.       *)
Heard(q, t) ==
    t.toDispatch # <<>> =>
        t.semaphore \/ Fresh(t) \/ (q.toDispatch # <<>> /\ ~Fresh(q) /\ (q.semaphore => t.semaphore))

LEMMA HeardKeeps ==
    ASSUME NEW q, NEW t, ListInv(q), Heard(q, t), HasSync(t.stack) => HasSync(q.stack) \/ Fresh(t)
    PROVE  ListInv(t)
  BY DEF ListInv, Heard

LEMMA ListEmpty ==
    ASSUME NEW p, NEW q, q.stack = <<>>
    PROVE  DispatchInv(p, q)
<1>1. DOMAIN q.stack = {}
  BY EmptyFacts
<1> QED
  BY <1>1 DEF DispatchInv, BottomInv, ListInv, HasSync

LEMMA ListSame ==
    ASSUME NEW p, NEW q, NEW t, DispatchInv(p, q), t.stack = q.stack,
           t.semaphore \/ (t.toDispatch = q.toDispatch /\ t.semaphore = q.semaphore)
    PROVE  DispatchInv(p, t)
  BY DEF DispatchInv, ListInv, Fresh

LEMMA ListPush ==
    ASSUME NEW p, NEW q \in States(p), DispatchInv(p, q), NEW f \in Frames(p),
           ~PutsBack(f), AllowsOne(f) => p \in NestedLoops \/ q.stack = <<>>,
           NEW t, t.stack = Cons(f, q.stack), Heard(q, t), f.op = "sync" => Fresh(t)
    PROVE  DispatchInv(p, t)
<1>1. q.stack \in Seq(Frames(p))
  BY DEF States
<1>2. Stacked(t.stack, f, q.stack)
  BY <1>1, ConsPlaces
<1>3. ASSUME NEW i \in DOMAIN t.stack
      PROVE  /\ AllowsOne(t.stack[i]) => p \in NestedLoops \/ i = Len(t.stack)
             /\ PutsBack(t.stack[i]) => i = Len(t.stack)
  <2>1. CASE i = 1
    <3>1. t.stack[i] = f /\ Len(t.stack) = Len(q.stack) + 1
      BY <1>2, <2>1 DEF Stacked
    <3>2. q.stack = <<>> => Len(t.stack) = 1
      BY <3>1, EmptyFacts
    <3> QED
      BY <2>1, <3>1, <3>2
  <2>2. CASE i # 1
    <3>1. /\ i - 1 \in DOMAIN q.stack /\ t.stack[i] = q.stack[i - 1] /\ i \in Nat
          /\ Len(t.stack) = Len(q.stack) + 1 /\ Len(q.stack) \in Nat
      BY <1>2, <2>2 DEF Stacked
    <3>2. i - 1 = Len(q.stack) => i = Len(t.stack)
      BY <3>1
    <3> QED
      BY <3>1, <3>2 DEF DispatchInv, BottomInv
  <2> QED
    BY <2>1, <2>2
<1>4. BottomInv(p, t.stack)
  BY <1>3 DEF BottomInv
<1>5. HasSync(t.stack) => HasSync(q.stack) \/ Fresh(t)
  <2> SUFFICES ASSUME NEW i \in DOMAIN t.stack, t.stack[i].op = "sync" PROVE HasSync(q.stack) \/ Fresh(t)
    BY DEF HasSync
  <2>1. CASE i = 1
    BY <1>2, <2>1 DEF Stacked
  <2>2. CASE i # 1
    <3>1. i - 1 \in DOMAIN q.stack /\ t.stack[i] = q.stack[i - 1]
      BY <1>2, <2>2 DEF Stacked
    <3> QED
      BY <3>1 DEF HasSync
  <2> QED
    BY <2>1, <2>2
<1> QED
  BY <1>4, <1>5, HeardKeeps DEF DispatchInv

LEMMA ListPop ==
    ASSUME NEW p, NEW q \in States(p), q.stack # <<>>, DispatchInv(p, q),
           NEW t, t.stack = Tail(q.stack), Tail(q.stack) # <<>> => Heard(q, t)
    PROVE  DispatchInv(p, t)
<1>0. CASE t.stack = <<>>
  BY <1>0, ListEmpty
<1>1. CASE t.stack # <<>>
  <2>1. q.stack \in Seq(Frames(p))
    BY DEF States
  <2>2. /\ DOMAIN q.stack = 1 .. Len(q.stack) /\ DOMAIN t.stack = 1 .. Len(t.stack)
        /\ Len(t.stack) = Len(q.stack) - 1 /\ Len(t.stack) \in Nat /\ Len(q.stack) \in Nat
        /\ \A i \in DOMAIN t.stack : t.stack[i] = q.stack[i + 1]
    BY <2>1, TailPlaces, LenProperties
  <2>3. \A i \in DOMAIN t.stack : i + 1 \in DOMAIN q.stack /\ (i + 1 = Len(q.stack) => i = Len(t.stack))
    BY <2>2
  <2>4. BottomInv(p, t.stack)
    BY <2>2, <2>3 DEF DispatchInv, BottomInv
  <2>5. HasSync(t.stack) => HasSync(q.stack)
    BY <2>2, <2>3 DEF HasSync
  <2>6. Heard(q, t)
    BY <1>1
  <2> QED
    BY <2>4, <2>5, <2>6, HeardKeeps DEF DispatchInv
<1> QED
  BY <1>0, <1>1

LEMMA ListTop ==
    ASSUME NEW p, NEW q \in States(p), q.stack # <<>>, DispatchInv(p, q), NEW f \in Frames(p),
           NEW t, Topped(t.stack, f, q.stack), f.op = Head(q.stack).op,
           AllowsOne(f) => AllowsOne(Head(q.stack)), PutsBack(f) => PutsBack(Head(q.stack)) \/ Len(q.stack) = 1,
           Heard(q, t)
    PROVE  DispatchInv(p, t)
<1>1. q.stack \in Seq(Frames(p))
  BY DEF States
<1>2. /\ DOMAIN t.stack = DOMAIN q.stack /\ Len(t.stack) = Len(q.stack)
      /\ 1 \in DOMAIN q.stack /\ Head(q.stack) = q.stack[1]
      /\ \A i \in DOMAIN q.stack : t.stack[i] = IF i = 1 THEN f ELSE q.stack[i]
  BY <1>1, TopPlaces DEF Topped
<1>3. BottomInv(p, t.stack)
  BY <1>2 DEF DispatchInv, BottomInv
<1>4. HasSync(t.stack) => HasSync(q.stack)
  BY <1>2 DEF HasSync
<1> QED
  BY <1>3, <1>4, HeardKeeps DEF DispatchInv

LEMMA ListStep ==
    ASSUME Inv, DispatchesInv, NEW p \in Processes, NEW t, proc' = [proc EXCEPT ![p] = t], DispatchInv(p, t)
    PROVE  DispatchesInv'
<1>1. ASSUME NEW r \in Processes PROVE DispatchInv(r, proc'[r])
  BY DEF Inv, TypeInv, DispatchesInv
<1> QED
  BY <1>1 DEF DispatchesInv

LEMMA CoveredNotFresh == \A q : q.stack = <<>> \/ Covered(Head(q.stack)) => ~Fresh(q)
  BY DEF Covered, Fresh

LEMMA HeardSame ==
    ASSUME NEW q, NEW t, ~Fresh(q), t.toDispatch = q.toDispatch, t.semaphore = q.semaphore
    PROVE  Heard(q, t)
  BY DEF Heard

LEMMA DieLists ==
    ASSUME Inv, DispatchesInv, NEW p \in Processes, Die(p)
    PROVE  DispatchesInv'
<1> DEFINE t == DeadProcess(proc[p])
<1>1. proc' = [proc EXCEPT ![p] = t]
  BY DEF Die, DeadProcess
<1>2. t.stack = <<>>
  BY DeadFacts, There
<1> HIDE DEF t
<1>3. DispatchInv(p, t)
  BY <1>2, ListEmpty
<1> QED
  BY <1>1, <1>3, ListStep

(***************************************************************************)
(* The client's operations.                                                *)
(***************************************************************************)

LEMMA ListsHere ==
    ASSUME Inv, DispatchesInv, NEW c \in Endpoints
    PROVE  processOf[c] \in Processes /\ DispatchInv(processOf[c], proc[processOf[c]])
  BY Here DEF DispatchesInv

LEMMA SpendLists ==
    ASSUME Inv, DispatchesInv, NEW c \in Endpoints, NEW op, May(c, op), NEW t, t = Spend(proc[processOf[c]])
    PROVE  /\ DispatchInv(processOf[c], t)
           /\ proc' = [proc EXCEPT ![processOf[c]] = t] => DispatchesInv'
<1>1. /\ t.stack = proc[processOf[c]].stack /\ t.toDispatch = proc[processOf[c]].toDispatch
      /\ t.semaphore = proc[processOf[c]].semaphore
  BY MayFacts
<1>2. processOf[c] \in Processes /\ DispatchInv(processOf[c], proc[processOf[c]])
  BY ListsHere
<1>3. DispatchInv(processOf[c], t)
  BY <1>1, <1>2, ListSame
<1> QED
  BY <1>2, <1>3, ListStep

LEMMA SpendingLists ==
    ASSUME Inv, DispatchesInv, NEW c \in Endpoints,
           \/ \E name \in Names, flag \in BOOLEAN : Send(c, name, flag)
           \/ Invalidate(c) \/ SecondarySend(c) \/ PostConnectionDidClose(c) \/ SendSyncFails(c)
    PROVE  DispatchesInv'
<1> DEFINE t == Spend(proc[processOf[c]])
<1>1. (\E op : May(c, op)) /\ (proc' = [proc EXCEPT ![processOf[c]] = t] \/ Die(processOf[c]))
  BY DEF Send, Invalidate, SecondarySend, PostConnectionDidClose, SendSyncFails, DidFailToSendSyncMessage, MainMay
<1>2. CASE Die(processOf[c])
  BY <1>2, DieLists, ListsHere
<1>3. CASE proc' = [proc EXCEPT ![processOf[c]] = t]
  <2>1. t = Spend(proc[processOf[c]])
    OBVIOUS
  <2> HIDE DEF t
  <2>2. PICK op : May(c, op)
    BY <1>1
  <2> QED
    BY <1>3, <2>1, <2>2, SpendLists
<1> QED
  BY <1>1, <1>2, <1>3

LEMMA SendSyncLists ==
    ASSUME Inv, DispatchesInv, NEW c \in Endpoints, SendSync(c)
    PROVE  DispatchesInv'
<1> DEFINE p == processOf[c]
           q == proc[p]
           id == conn[c].lastID + 1
           f == [op |-> "sync", at |-> "dispatch", c |-> c, id |-> id, ok |-> FALSE]
           u == Spend(q)
           t == Push(u, f)
           op == "sync"
<1>1. proc' = [proc EXCEPT ![p] = t] /\ MainMay(c, op)
  BY Zenon DEF SendSync, NextID
<1>2. p \in Processes /\ conn[c] \in Connections
  BY Here
<1>3. f \in Frames(p) /\ f.op = "sync" /\ f.at = "dispatch"
  <2>1. id \in Nat /\ c \in Mine(p)
    BY <1>2, MineFacts DEF Connections
  <2> QED
    BY <2>1 DEF Frames, SyncFrames
<1>4. u \in States(p) /\ May(c, op)
  BY <1>1, MayFacts DEF MainMay
<1>5. u = Spend(q) /\ t = Push(u, f)
  OBVIOUS
<1> HIDE DEF f, u, t, op, id
<1>6. DispatchInv(p, u)
  BY <1>4, <1>5, SpendLists
<1>7. t \in States(p) /\ t.stack = Cons(f, u.stack) /\ SameButStack(u, t)
  BY <1>3, <1>4, <1>5, PushEffect
<1>8. Stacked(t.stack, f, u.stack)
  BY <1>3, <1>4, <1>7, ConsPlaces DEF States
<1>9. Fresh(t) /\ Heard(u, t)
  BY <1>3, <1>8 DEF Stacked, Fresh, Heard
<1>10. ~PutsBack(f) /\ ~AllowsOne(f)
  BY <1>3 DEF PutsBack, AllowsOne
<1>11. DispatchInv(p, t)
  BY <1>3, <1>4, <1>6, <1>7, <1>9, <1>10, ListPush
<1> QED
  BY <1>1, <1>2, <1>11, ListStep

(* The start of a handler when the process has become u.                   *)
LEMMA HandlerLists ==
    ASSUME NEW p, NEW c \in Mine(p), NEW m \in Message, NEW u \in States(p),
           u.stack = <<>> \/ Covered(Head(u.stack)), DispatchInv(p, u), NEW t, t = Push(u, Handler(c, m))
    PROVE  DispatchInv(p, t)
<1> DEFINE f == Handler(c, m)
<1>1. f \in Frames(p) /\ f.op = "handle" /\ t = Push(u, f)
  <2>1. f \in HandleFrames(p) /\ f.op = "handle"
    BY DEF HandleFrames, Handler
  <2> QED
    BY <2>1 DEF Frames
<1> HIDE DEF f
<1>2. t \in States(p) /\ t.stack = Cons(f, u.stack) /\ SameButStack(u, t)
  BY <1>1, PushEffect
<1>3. ~PutsBack(f) /\ ~AllowsOne(f) /\ f.op # "sync"
  BY <1>1 DEF PutsBack, AllowsOne
<1>4. Heard(u, t)
  BY <1>2, CoveredNotFresh, HeardSame DEF SameButStack
<1> QED
  BY <1>1, <1>2, <1>3, <1>4, ListPush

LEMMA DispatchMessageLists ==
    ASSUME Inv, DispatchesInv, NEW p \in Processes, NEW c \in Mine(p), NEW m \in Message, NEW u \in States(p),
           u.stack = <<>> \/ Covered(Head(u.stack)), DispatchInv(p, u), DispatchMessage(c, m, u)
    PROVE  DispatchesInv'
<1> DEFINE t == Push(u, Handler(c, m))
<1>1. processOf[c] = p
  BY MineFacts
<1>2. proc' = [proc EXCEPT ![p] = u] \/ proc' = [proc EXCEPT ![p] = t]
  BY <1>1 DEF DispatchMessage
<1>3. DispatchInv(p, t)
  <2>1. t = Push(u, Handler(c, m))
    OBVIOUS
  <2> HIDE DEF t
  <2> QED
    BY <2>1, HandlerLists
<1> HIDE DEF t
<1> QED
  BY <1>2, <1>3, ListStep

LEMMA WaitForMessageLists ==
    ASSUME Inv, DispatchesInv, NEW c \in Endpoints, NEW name \in Names, NEW interrupt \in BOOLEAN,
           WaitForMessage(c, name, interrupt)
    PROVE  DispatchesInv'
<1> DEFINE p == processOf[c]
           q == proc[p]
           k == conn[c]
           Awaited(m) == m.name = name
           i == SelectInSeq(k.incoming, Awaited)
           m == k.incoming[i]
           f == WaitFrame(c, name, interrupt)
           u == Spend(q)
           t == Push(u, f)
           v == Push(u, Handler(c, m))
           op == IF interrupt THEN "waitInterruptibly" ELSE "wait"
<1>1. MainMay(c, op)
  BY DEF WaitForMessage
<1>2. \/ i > 0 /\ proc' = [proc EXCEPT ![p] = v]
      \/ proc' = [proc EXCEPT ![p] = u]
      \/ proc' = [proc EXCEPT ![p] = t]
  BY DEF WaitForMessage, WaitFrame
<1>3. p \in Processes /\ k \in Connections /\ c \in Mine(p)
  BY Here, MineFacts
<1>4. i > 0 => i \in 1 .. Len(k.incoming)
  <2>1. i = IF PlacesOf(k.incoming, name) # {} THEN Min(PlacesOf(k.incoming, name)) ELSE 0
    BY DEF SelectInSeq, PlacesOf
  <2> HIDE DEF i, k
  <2> QED
    BY <2>1, SelectedPlace
<1>5. i > 0 => m \in Message
  BY <1>3, <1>4, ElementOfSeq DEF Connections
<1>6. q.stack = <<>> \/ Covered(Head(q.stack))
  BY <1>1, ClientFacts DEF MainMay
<1>7. f \in Frames(p) /\ f.op = "wait"
  <2>1. f \in WaitFrames(p) /\ f.op = "wait"
    BY MineFacts DEF WaitFrames, WaitFrame
  <2> QED
    BY <2>1 DEF Frames
<1>8. u = Spend(q) /\ v = Push(u, Handler(c, m)) /\ t = Push(u, f)
  OBVIOUS
<1> HIDE DEF i, k, m, f, u, t, v, op
<1>9. u \in States(p) /\ u.stack = q.stack /\ DispatchInv(p, u)
  BY <1>1, <1>8, MayFacts, SpendLists DEF MainMay
<1>10. CASE i > 0 /\ proc' = [proc EXCEPT ![p] = v]
  <2>1. DispatchInv(p, v)
    BY <1>3, <1>5, <1>6, <1>8, <1>9, <1>10, HandlerLists
  <2> QED
    BY <1>3, <1>10, <2>1, ListStep
<1>11. CASE proc' = [proc EXCEPT ![p] = u]
  BY <1>3, <1>9, <1>11, ListStep
<1>12. CASE proc' = [proc EXCEPT ![p] = t]
  <2>1. t \in States(p) /\ t.stack = Cons(f, u.stack) /\ SameButStack(u, t)
    BY <1>7, <1>8, <1>9, PushEffect
  <2>2. ~PutsBack(f) /\ ~AllowsOne(f) /\ f.op # "sync"
    BY <1>7 DEF PutsBack, AllowsOne
  <2>3. ~Fresh(u)
    BY <1>6, <1>9, CoveredNotFresh
  <2>4. Heard(u, t)
    BY <2>1, <2>3, HeardSame DEF SameButStack
  <2>5. DispatchInv(p, t)
    BY <1>7, <1>9, <2>1, <2>2, <2>4, ListPush
  <2> QED
    BY <1>3, <1>12, <2>5, ListStep
<1> QED
  BY <1>2, <1>10, <1>11, <1>12

(***************************************************************************)
(* The main thread.                                                        *)
(***************************************************************************)

LEMMA ListsThere ==
    ASSUME Inv, DispatchesInv, NEW p \in Processes
    PROVE  proc[p] \in States(p) /\ ProcessInv(proc[p]) /\ DispatchInv(p, proc[p])
  BY There DEF DispatchesInv

LEMMA GoOnLists ==
    ASSUME Inv, DispatchesInv, NEW p \in Processes, proc[p].stack # <<>>, NEW at, CanGoOn(Head(proc[p].stack), at),
           NEW u, u = GoOn(proc[p], at), NEW t, t.stack = u.stack, Heard(proc[p], t)
    PROVE  DispatchInv(p, t)
<1> DEFINE f == Head(u.stack)
<1>1. /\ f \in Frames(p) /\ Topped(u.stack, f, proc[p].stack) /\ f.op = Head(proc[p].stack).op
  BY GoOnFacts
<1>2. f.op \in {"sync", "wait"}
  BY <1>1 DEF CanGoOn, CanGo
<1>3. ~AllowsOne(f) /\ ~PutsBack(f)
  BY <1>2 DEF AllowsOne, PutsBack
<1>4. Topped(t.stack, f, proc[p].stack) /\ proc[p] \in States(p) /\ DispatchInv(p, proc[p])
  BY <1>1, ListsThere
<1> HIDE DEF f
<1> QED
  BY <1>1, <1>3, <1>4, ListTop

(* The same for what only moves on.                                        *)
LEMMA MoveLists ==
    ASSUME Inv, DispatchesInv, NEW p \in Processes, proc[p].stack # <<>>, NEW at, CanGoOn(Head(proc[p].stack), at),
           ~Fresh(proc[p]), NEW u, u = GoOn(proc[p], at), proc' = [proc EXCEPT ![p] = u]
    PROVE  DispatchesInv'
<1>1. u.semaphore = proc[p].semaphore /\ u.toDispatch = proc[p].toDispatch
  BY GoOnFacts
<1>2. Heard(proc[p], u)
  BY <1>1, HeardSame
<1>3. DispatchInv(p, u)
  BY <1>2, GoOnLists
<1> QED
  BY <1>3, ListStep

LEMMA PopLists ==
    ASSUME Inv, DispatchesInv, NEW p \in Processes, proc[p].stack # <<>>, ~Fresh(proc[p]), NEW t, t = Pop(proc[p])
    PROVE  t \in States(p) /\ DispatchInv(p, t) /\ (t.stack = <<>> \/ Covered(Head(t.stack)))
           /\ (proc' = [proc EXCEPT ![p] = t] => DispatchesInv')
<1>1. proc[p] \in States(p) /\ ProcessInv(proc[p]) /\ DispatchInv(p, proc[p])
  BY ListsThere
<1>2. t \in States(p) /\ t.stack = Tail(proc[p].stack) /\ SameButStack(proc[p], t)
  BY <1>1, PopEffect
<1>3. Heard(proc[p], t)
  BY <1>2, HeardSame DEF SameButStack
<1>4. DispatchInv(p, t)
  BY <1>1, <1>2, <1>3, ListPop
<1>5. t.stack = <<>> \/ Covered(Head(t.stack))
  BY <1>1, <1>2, PoppedTop
<1> QED
  BY <1>2, <1>4, <1>5, ListStep

LEMMA NotFresh ==
    ASSUME NEW p, NEW op, NEW at, At(p, op, at), op # "sync" \/ at # "dispatch"
    PROVE  ~Fresh(proc[p])
  BY AtFacts DEF Fresh

LEMMA HandlerReturnsLists ==
    ASSUME Inv, DispatchesInv, NEW p \in Processes, HandlerReturns(p)
    PROVE  DispatchesInv'
<1> DEFINE t == Pop(proc[p])
<1>1. proc[p].stack # <<>> /\ ~Fresh(proc[p])
  BY AtFacts, NotFresh DEF HandlerReturns
<1>2. proc' = [proc EXCEPT ![p] = t] /\ t = Pop(proc[p])
  BY DEF HandlerReturns
<1> HIDE DEF t
<1> QED
  BY <1>1, <1>2, PopLists

LEMMA SyncReturnsLists ==
    ASSUME Inv, DispatchesInv, NEW p \in Processes, SyncReturns(p)
    PROVE  DispatchesInv'
<1> DEFINE t == Pop(proc[p])
           c == Head(proc[p].stack).c
<1>1. proc[p].stack # <<>> /\ ~Fresh(proc[p]) /\ Top(p) = Head(proc[p].stack) /\ Head(proc[p].stack).op = "sync"
  BY AtFacts, NotFresh DEF SyncReturns
<1>2. processOf[c] = p
  BY <1>1, TopConnection
<1>3. proc' = [proc EXCEPT ![p] = t] \/ Die(p)
  BY <1>1, <1>2 DEF SyncReturns, DidFailToSendSyncMessage
<1>4. t = Pop(proc[p])
  OBVIOUS
<1> HIDE DEF t
<1> QED
  BY <1>1, <1>3, <1>4, PopLists, DieLists

LEMMA SyncDispatchLists ==
    ASSUME Inv, DispatchesInv, NEW p \in Processes, SyncDispatch(p)
    PROVE  DispatchesInv'
<1> DEFINE q == proc[p]
           a == "check"
           u == GoOn(q, a)
           n == None
           t == DispatchMessages(u, n)
           f == DispatchFrame(n, u.toDispatch)
           v == [u EXCEPT !.toDispatch = <<>>]
<1>1. q.stack # <<>> /\ Head(q.stack).op = "sync"
  BY AtFacts DEF SyncDispatch
<1>2. \/ q.toDispatch = <<>> /\ proc' = [proc EXCEPT ![p] = u]
      \/ proc' = [proc EXCEPT ![p] = t]
  BY DEF SyncDispatch
<1>3. CanGoOn(Head(q.stack), a) /\ u = GoOn(q, a) /\ a = "check"
  BY <1>1 DEF CanGoOn, CanGo, SyncPlaces
<1>4. n = None /\ n \in Mine(p) \cup {None} /\ t = DispatchMessages(u, n) /\ f = DispatchFrame(n, u.toDispatch)
  OBVIOUS
<1> HIDE DEF a, u, n, t, f
<1>5. u \in States(p) /\ u.toDispatch = q.toDispatch /\ u.stack # <<>> /\ Head(u.stack).op = "sync" /\ Head(u.stack).at = a
  BY <1>1, <1>3, GoOnFacts
<1>6. CASE q.toDispatch = <<>> /\ proc' = [proc EXCEPT ![p] = u]
  <2>1. Heard(q, u)
    BY <1>5, <1>6 DEF Heard
  <2>2. DispatchInv(p, u)
    BY <1>1, <1>3, <2>1, GoOnLists
  <2> QED
    BY <1>6, <2>2, ListStep
<1>7. CASE proc' = [proc EXCEPT ![p] = t]
  <2>1. v \in States(p) /\ v.stack = u.stack /\ v.toDispatch = <<>>
    BY <1>5, EmptyFacts DEF States
  <2> HIDE DEF v
  <2>2. Heard(q, v)
    BY <2>1 DEF Heard
  <2>3. DispatchInv(p, v)
    BY <1>1, <1>3, <2>1, <2>2, GoOnLists
  <2>4. /\ f \in Frames(p) /\ f.op = "dispatch" /\ t.stack = Cons(f, v.stack)
        /\ f.allowed = n /\ f.back = <<>> /\ t.toDispatch = <<>>
    BY <1>4, <1>5, <2>1, DispatchEffect
  <2>5. ~PutsBack(f) /\ ~AllowsOne(f) /\ f.op # "sync"
    BY <1>4, <2>4 DEF PutsBack, AllowsOne
  <2>6. Heard(v, t)
    BY <2>4 DEF Heard
  <2>7. DispatchInv(p, t)
    BY <2>1, <2>3, <2>4, <2>5, <2>6, ListPush
  <2> QED
    BY <1>7, <2>7, ListStep
<1> QED
  BY <1>2, <1>6, <1>7

LEMMA SyncWakesLists ==
    ASSUME Inv, DispatchesInv, NEW p \in Processes, SyncWakes(p)
    PROVE  DispatchesInv'
<1> DEFINE q == proc[p]
           a == "dispatch"
           u == GoOn(q, a)
           t == [u EXCEPT !.semaphore = FALSE]
<1>1. q.stack # <<>> /\ Head(q.stack).op = "sync"
  BY AtFacts DEF SyncWakes
<1>2. proc' = [proc EXCEPT ![p] = t]
  BY DEF SyncWakes
<1>3. CanGoOn(Head(q.stack), a) /\ u = GoOn(q, a) /\ a = "dispatch"
  BY <1>1 DEF CanGoOn, CanGo, SyncPlaces
<1> HIDE DEF a, u
<1>4. u \in States(p) /\ u.stack # <<>> /\ Head(u.stack).op = "sync" /\ Head(u.stack).at = a
  BY <1>1, <1>3, GoOnFacts
<1>5. t.stack = u.stack
  BY <1>4 DEF States
<1> HIDE DEF t
<1>6. Fresh(t) /\ Heard(q, t)
  BY <1>3, <1>4, <1>5 DEF Fresh, Heard
<1>7. DispatchInv(p, t)
  BY <1>1, <1>3, <1>5, <1>6, GoOnLists
<1> QED
  BY <1>2, <1>7, ListStep

LEMMA SyncTimesOutLists ==
    ASSUME Inv, DispatchesInv, NEW p \in Processes, SyncTimesOut(p)
    PROVE  DispatchesInv'
<1> DEFINE a == "return"
           u == GoOn(proc[p], a)
<1>1. proc[p].stack # <<>> /\ Head(proc[p].stack).op = "sync" /\ ~Fresh(proc[p])
  BY AtFacts, NotFresh DEF SyncTimesOut
<1>2. proc' = [proc EXCEPT ![p] = u] /\ u = GoOn(proc[p], a) /\ CanGoOn(Head(proc[p].stack), a)
  BY <1>1 DEF SyncTimesOut, CanGoOn, CanGo, SyncPlaces
<1> HIDE DEF a, u
<1> QED
  BY <1>1, <1>2, MoveLists

WithOk(u, b) == [u EXCEPT !.stack[1].ok = b]

LEMMA WithOkEffect ==
    ASSUME NEW p, NEW u \in States(p), u.stack # <<>>, Head(u.stack).op = "sync", NEW b, NEW t, t = WithOk(u, b)
    PROVE  /\ Len(t.stack) = Len(u.stack) /\ DOMAIN t.stack = DOMAIN u.stack
           /\ \A i \in DOMAIN u.stack : t.stack[i].op = u.stack[i].op /\ (i # 1 => t.stack[i] = u.stack[i])
           /\ t.toDispatch = u.toDispatch /\ t.semaphore = u.semaphore
<1> DEFINE g == u.stack[1]
           f == [g EXCEPT !.ok = b]
<1>1. u.stack \in Seq(Frames(p)) /\ 1 \in DOMAIN u.stack /\ Head(u.stack) = g
  BY TailPlaces DEF States
<1>2. g \in SyncFrames(p)
  BY <1>1, TailFacts, FrameFacts
<1>3. f.op = g.op
  BY <1>2 DEF SyncFrames
<1>4. t = [u EXCEPT !.stack = [u.stack EXCEPT ![1] = f]]
  BY <1>1 DEF WithOk, States
<1> HIDE DEF f
<1>5. t.stack = [u.stack EXCEPT ![1] = f] /\ t.toDispatch = u.toDispatch /\ t.semaphore = u.semaphore
  BY <1>4 DEF States
<1>6. Len(t.stack) = Len(u.stack)
  BY <1>1, <1>5
<1> QED
  BY <1>1, <1>3, <1>5, <1>6

LEMMA SyncCheckLists ==
    ASSUME Inv, DispatchesInv, NEW p \in Processes, SyncCheck(p)
    PROVE  DispatchesInv'
<1> DEFINE q == proc[p]
           reply == Last(conn[Top(p).c].pending).reply
           a == "return"
           b == "wait"
           u == GoOn(q, a)
           v == GoOn(q, b)
           t == WithOk(u, reply)
<1>1. q.stack # <<>> /\ Head(q.stack).op = "sync" /\ ~Fresh(q)
  BY AtFacts, NotFresh DEF SyncCheck
<1>2. proc' = [proc EXCEPT ![p] = t] \/ proc' = [proc EXCEPT ![p] = v]
  BY DEF SyncCheck, WithOk
<1>3. CanGoOn(Head(q.stack), a) /\ u = GoOn(q, a) /\ CanGoOn(Head(q.stack), b) /\ v = GoOn(q, b) /\ t = WithOk(u, reply)
  BY <1>1 DEF CanGoOn, CanGo, SyncPlaces
<1> HIDE DEF a, b, u, v, t, reply
<1>4. CASE proc' = [proc EXCEPT ![p] = v]
  BY <1>1, <1>3, <1>4, MoveLists
<1>5. CASE proc' = [proc EXCEPT ![p] = t]
  <2>1. /\ u \in States(p) /\ u.stack # <<>> /\ Head(u.stack).op = "sync"
        /\ u.semaphore = q.semaphore /\ u.toDispatch = q.toDispatch
    BY <1>1, <1>3, GoOnFacts
  <2>2. Heard(q, u)
    BY <1>1, <2>1, HeardSame
  <2>3. DispatchInv(p, u)
    BY <1>1, <1>3, <2>2, GoOnLists
  <2>4. /\ Len(t.stack) = Len(u.stack) /\ DOMAIN t.stack = DOMAIN u.stack
        /\ \A i \in DOMAIN u.stack : t.stack[i].op = u.stack[i].op /\ (i # 1 => t.stack[i] = u.stack[i])
        /\ t.toDispatch = u.toDispatch /\ t.semaphore = u.semaphore
    BY <1>3, <2>1, WithOkEffect
  <2>5. u.stack[1].op = "sync"
    BY <2>1, TailPlaces DEF States
  <2>6. ASSUME NEW i \in DOMAIN t.stack
        PROVE  /\ AllowsOne(t.stack[i]) => p \in NestedLoops \/ i = Len(t.stack)
               /\ PutsBack(t.stack[i]) => i = Len(t.stack)
    <3>1. CASE i = 1
      BY <3>1, <2>4, <2>5 DEF AllowsOne, PutsBack
    <3>2. CASE i # 1
      BY <3>2, <2>3, <2>4 DEF DispatchInv, BottomInv
    <3> QED
      BY <3>1, <3>2
  <2>7. BottomInv(p, t.stack)
    BY <2>6 DEF BottomInv
  <2>8. HasSync(t.stack) => HasSync(q.stack)
    <3>1. q \in States(p)
      BY ListsThere
    <3>2. 1 \in DOMAIN q.stack /\ Head(q.stack) = q.stack[1]
      BY <1>1, <3>1, TailPlaces DEF States
    <3> QED
      BY <1>1, <3>2 DEF HasSync
  <2>9. Heard(q, t)
    BY <1>1, <2>1, <2>4, HeardSame
  <2>10. ListInv(t)
    BY <2>8, <2>9, HeardKeeps, ListsThere DEF DispatchInv
  <2>11. DispatchInv(p, t)
    BY <2>7, <2>10 DEF DispatchInv
  <2> QED
    BY <1>5, <2>11, ListStep
<1> QED
  BY <1>2, <1>4, <1>5

LEMMA WaitLists ==
    ASSUME Inv, DispatchesInv, NEW p \in Processes, WaitRegisters(p) \/ WaitTimesOut(p) \/ WaitWakes(p)
    PROVE  DispatchesInv'
<1> DEFINE q == proc[p]
           a == "check"
           b == "timedOut"
           u == GoOn(q, a)
           v == GoOn(q, b)
           t == Pop(q)
<1>1. q.stack # <<>> /\ Head(q.stack).op = "wait"
  BY AtFacts DEF WaitRegisters, WaitTimesOut, WaitWakes
<1>2. ~Fresh(q)
  BY <1>1 DEF Fresh
<1>3. \/ proc' = [proc EXCEPT ![p] = u]
      \/ proc' = [proc EXCEPT ![p] = v]
      \/ proc' = [proc EXCEPT ![p] = t]
  BY DEF WaitRegisters, WaitTimesOut, WaitWakes, WaitEnds
<1>4. CanGo(Head(q.stack), a) /\ u = GoOn(q, a) /\ CanGo(Head(q.stack), b) /\ v = GoOn(q, b) /\ t = Pop(q)
  BY <1>1 DEF CanGo, WaitPlaces
<1> HIDE DEF a, b, u, v, t
<1>5. ASSUME NEW at, CanGo(Head(q.stack), at), NEW r, r = GoOn(q, at) PROVE DispatchInv(p, r)
  <2>1. q \in States(p) /\ DispatchInv(p, q)
    BY ListsThere
  <2>2. Goes(p, q, r, at) /\ SameButStack(q, r)
    BY <1>1, <1>5, <2>1, GoesOn
  <2> DEFINE f == Head(r.stack)
  <2>3. f \in Frames(p) /\ Topped(r.stack, f, q.stack) /\ f.op = "wait"
    BY <1>1, <2>2 DEF Goes
  <2>4. ~AllowsOne(f) /\ ~PutsBack(f) /\ Heard(q, r)
    BY <1>2, <2>2, <2>3, HeardSame DEF AllowsOne, PutsBack, SameButStack
  <2> HIDE DEF f
  <2> QED
    BY <1>1, <2>1, <2>3, <2>4, ListTop
<1>6. DispatchInv(p, u) /\ DispatchInv(p, v)
  BY <1>4, <1>5
<1>7. CASE proc' = [proc EXCEPT ![p] = t]
  BY <1>1, <1>2, <1>4, <1>7, PopLists
<1>8. CASE proc' = [proc EXCEPT ![p] = u] \/ proc' = [proc EXCEPT ![p] = v]
  BY <1>6, <1>8, ListStep
<1> QED
  BY <1>3, <1>7, <1>8

LEMMA WaitChecksLists ==
    ASSUME Inv, DispatchesInv, NEW p \in Processes, WaitChecks(p)
    PROVE  DispatchesInv'
<1> DEFINE q == proc[p]
           c == Head(q.stack).c
           m == conn[c].waiting.decoder
           a == "asleep"
           u == GoOn(q, a)
           v == Pop(q)
           t == Push(v, Handler(c, m))
<1>1. q.stack # <<>> /\ Head(q.stack).op = "wait" /\ Head(q.stack).at = "check" /\ Top(p) = Head(q.stack) /\ ~Fresh(q)
  BY AtFacts, NotFresh DEF WaitChecks
<1>2. c \in Mine(p) /\ conn[c] \in Connections /\ LocalInv(conn[c], q, c)
  BY <1>1, TopConnection
<1>3. proc' = [proc EXCEPT ![p] = u] \/ (m # None /\ proc' = [proc EXCEPT ![p] = t])
  BY <1>1 DEF WaitChecks
<1>4. m \in Message \cup {None}
  <2>1. Registered(q, c)
    BY <1>1 DEF Registered
  <2>2. conn[c].waiting # None /\ conn[c].waiting \in WaitForMessageState \cup {None}
    BY <1>2, <2>1 DEF LocalInv, WaitInv, Connections
  <2> QED
    BY <2>2 DEF WaitForMessageState
<1>5. CanGoOn(Head(q.stack), a) /\ u = GoOn(q, a)
  BY <1>1 DEF CanGoOn, CanGo, WaitPlaces
<1>6. v = Pop(q) /\ t = Push(v, Handler(c, m))
  OBVIOUS
<1> HIDE DEF a, u, v, t, m
<1>7. CASE proc' = [proc EXCEPT ![p] = u]
  BY <1>1, <1>5, <1>7, MoveLists
<1>8. CASE m # None /\ proc' = [proc EXCEPT ![p] = t]
  <2>1. v \in States(p) /\ DispatchInv(p, v) /\ (v.stack = <<>> \/ Covered(Head(v.stack)))
    BY <1>1, <1>6, PopLists
  <2>2. DispatchInv(p, t)
    BY <1>2, <1>4, <1>6, <1>8, <2>1, HandlerLists
  <2> QED
    BY <1>8, <2>2, ListStep
<1> QED
  BY <1>3, <1>7, <1>8

LEMMA OnlyOne ==
    ASSUME NEW S, NEW st \in Seq(S), st # <<>>
    PROVE  Len(st) = 1 <=> Tail(st) = <<>>
<1>1. Tail(st) \in Seq(S) /\ Len(Tail(st)) = Len(st) - 1 /\ Len(st) \in Nat
  BY HeadTailProperties, LenProperties, EmptySeq
<1>2. Tail(st) = <<>> <=> Len(Tail(st)) = 0
  BY <1>1, EmptySeq
<1> QED
  BY <1>1, <1>2

LEMMA DispatchNextLists ==
    ASSUME Inv, DispatchesInv, NestedAlone, NEW p \in Processes, DispatchNext(p)
    PROVE  DispatchesInv'
<1> DEFINE q == proc[p]
           g == Head(q.stack)
           e == Head(g.rest)
           u == Turn(q)
           t == PutBack(u, e)
           v == Pop(q)
           w == [v EXCEPT !.toDispatch = @ \o g.back]
           h == TurnedFrame(g)
           f == BackFrame(h, e)
<1>1. q.stack # <<>> /\ g.op = "dispatch" /\ g \in DispatchFrames(p)
  BY DispatchNextFacts
<1>2. \/ g.rest = <<>> /\ proc' = [proc EXCEPT ![p] = w]
      \/ g.rest # <<>> /\ DispatchMessage(e.c, e.m, u)
      \/ g.rest # <<>> /\ g.allowed \notin {None, e.c} /\ proc' = [proc EXCEPT ![p] = t]
  BY DispatchNextFacts, Zenon
<1>3. q \in States(p) /\ DispatchInv(p, q) /\ ~Fresh(q)
  BY <1>1, ListsThere DEF Fresh
<1>4. q.stack \in Seq(Frames(p)) /\ 1 \in DOMAIN q.stack /\ q.stack[1] = g
  BY <1>1, <1>3, TailPlaces DEF States
<1>5. g = Head(q.stack) /\ u = Turn(q) /\ t = PutBack(u, e) /\ v = Pop(q) /\ h = TurnedFrame(g) /\ f = BackFrame(h, e)
  OBVIOUS
<1>6. CASE g.rest = <<>> /\ proc' = [proc EXCEPT ![p] = w]
  <2>1. v \in States(p) /\ v.stack = Tail(q.stack) /\ SameButStack(q, v)
    BY <1>1, <1>3, PopEffect
  <2>2. g.back \in Seq(Entries(p)) /\ v.toDispatch \in Seq(Entries(p))
    BY <1>1, <2>1 DEF DispatchFrames, States
  <2> HIDE DEF v, g
  <2>3. w.stack = v.stack /\ w.semaphore = v.semaphore /\ w.toDispatch = v.toDispatch \o g.back
    BY <2>1 DEF States
  <2> HIDE DEF w
  <2>4. Tail(q.stack) # <<>> => Heard(q, w)
    <3> SUFFICES ASSUME Tail(q.stack) # <<>> PROVE Heard(q, w)
      OBVIOUS
    <3>1. Len(q.stack) # 1
      BY <1>1, <1>4, OnlyOne
    <3>2. g.back = <<>>
      BY <1>1, <1>3, <1>4, <3>1 DEF DispatchInv, BottomInv, PutsBack
    <3>3. w.toDispatch = q.toDispatch /\ w.semaphore = q.semaphore
      BY <2>1, <2>2, <2>3, <3>2 DEF SameButStack
    <3> QED
      BY <1>3, <3>3, HeardSame
  <2>5. w.stack = Tail(q.stack)
    BY <2>1, <2>3
  <2>6. DispatchInv(p, w)
    BY <1>1, <1>3, <2>4, <2>5, ListPop
  <2> QED
    BY <1>6, <2>6, ListStep
<1>7. ASSUME g.rest # <<>>
      PROVE  /\ u \in States(p) /\ SameButStack(q, u) /\ u.stack # <<>> /\ Head(u.stack) = h
             /\ h \in DispatchFrames(p) /\ h \in Frames(p) /\ h.op = "dispatch" /\ Topped(u.stack, h, q.stack)
             /\ h.allowed = g.allowed /\ h.back = g.back /\ e \in Entries(p) /\ Heard(q, u) /\ DispatchInv(p, u)
  <2>1. e \in Entries(p)
    BY <1>1, <1>7, TailFacts DEF DispatchFrames
  <2> HIDE DEF g, u, h, e
  <2>2. /\ u \in States(p) /\ SameButStack(q, u) /\ h \in DispatchFrames(p) /\ Head(u.stack) = h /\ u.stack # <<>>
        /\ Topped(u.stack, h, q.stack) /\ h.back = g.back /\ h.allowed = g.allowed
    BY <1>1, <1>3, <1>5, <1>7, TurnEffect
  <2>3. h \in Frames(p) /\ h.op = "dispatch"
    BY <2>2 DEF Frames, DispatchFrames
  <2>4. Heard(q, u)
    BY <1>3, <2>2, HeardSame DEF SameButStack
  <2>5. (AllowsOne(h) => AllowsOne(g)) /\ (PutsBack(h) => PutsBack(g))
    BY <1>1, <2>2, <2>3 DEF AllowsOne, PutsBack
  <2>6. DispatchInv(p, u)
    BY <1>1, <1>3, <1>5, <2>2, <2>3, <2>4, <2>5, ListTop
  <2> QED
    BY <2>1, <2>2, <2>3, <2>4, <2>6
<1>8. CASE g.rest # <<>> /\ DispatchMessage(e.c, e.m, u)
  <2> DEFINE c == e.c
             m == e.m
  <2>1. c \in Mine(p) /\ m \in Message /\ DispatchMessage(c, m, u)
    BY <1>7, <1>8 DEF Entries, FlaggedMessages
  <2>2. Covered(Head(u.stack))
    BY <1>7, <1>8 DEF Covered
  <2>3. u \in States(p) /\ DispatchInv(p, u)
    BY <1>7, <1>8
  <2> HIDE DEF c, m, u
  <2> QED
    BY <2>1, <2>2, <2>3, DispatchMessageLists
<1>9. CASE g.rest # <<>> /\ g.allowed \notin {None, e.c} /\ proc' = [proc EXCEPT ![p] = t]
  <2>1. g.allowed \in Mine(p) /\ e.c \in Mine(p) /\ g.allowed # e.c
    BY <1>1, <1>7, <1>9 DEF DispatchFrames, Entries
  <2>2. p \notin NestedLoops
    BY <2>1, MineFacts DEF NestedAlone
  <2>3. Len(q.stack) = 1
    BY <1>1, <1>3, <1>4, <1>9, <2>2 DEF DispatchInv, BottomInv, AllowsOne
  <2> HIDE DEF u, t, e, h, f, g
  <2>4. u \in States(p) /\ u.stack # <<>> /\ h = Head(u.stack) /\ h \in DispatchFrames(p) /\ e \in Entries(p)
    BY <1>7, <1>9
  <2>5. /\ t \in States(p) /\ SameButStack(u, t) /\ f \in DispatchFrames(p) /\ Topped(t.stack, f, u.stack)
        /\ f.allowed = h.allowed
    BY <1>5, <2>4, PutBackEffect
  <2>6. f \in Frames(p) /\ f.op = "dispatch" /\ h.op = "dispatch"
    BY <2>4, <2>5 DEF Frames, DispatchFrames
  <2>7. ~Fresh(u)
    BY <2>4, <2>6 DEF Fresh
  <2>8. Heard(u, t)
    BY <2>5, <2>7, HeardSame DEF SameButStack
  <2>9. AllowsOne(f) => AllowsOne(Head(u.stack))
    BY <2>4, <2>5, <2>6 DEF AllowsOne
  <2>10. Len(u.stack) = 1
    BY <1>1, <1>4, <1>7, <1>9, <2>3, TopPlaces DEF Topped
  <2>11. DispatchInv(p, u)
    BY <1>7, <1>9
  <2>12. DispatchInv(p, t)
    BY <2>4, <2>5, <2>6, <2>8, <2>9, <2>10, <2>11, ListTop
  <2> QED
    BY <1>9, <2>12, ListStep
<1> QED
  BY <1>2, <1>6, <1>8, <1>9

LEMMA TurnedLists ==
    ASSUME Inv, DispatchesInv, NEW p \in Processes, NEW op, RunLoopTurn(p, op), NEW t, t = Turned(p)
    PROVE  /\ t \in States(p) /\ DispatchInv(p, t) /\ (t.stack = <<>> \/ Covered(Head(t.stack)))
           /\ (t.stack = <<>> \/ p \in NestedLoops)
           /\ (proc' = [proc EXCEPT ![p] = t] => DispatchesInv')
<1>1. /\ t \in States(p) /\ t.stack = proc[p].stack /\ t.semaphore = proc[p].semaphore
      /\ t.toDispatch = proc[p].toDispatch /\ (proc[p].stack = <<>> \/ Covered(Head(proc[p].stack)))
  BY TurnedFacts
<1>2. DispatchInv(p, t)
  BY <1>1, ListsThere, ListSame
<1>3. proc[p].stack = <<>> \/ p \in NestedLoops
  BY DEF RunLoopTurn
<1> QED
  BY <1>1, <1>2, <1>3, ListStep

LEMMA DispatchOneMessageLists ==
    ASSUME Inv, DispatchesInv, NEW p \in Processes, DispatchOneMessage(p)
    PROVE  DispatchesInv'
<1> DEFINE c == Head(proc[p].runLoop).c
           m == Head(conn[c].incoming)
           t == Turned(p)
           op == "dispatchOneMessage"
<1>1. RunLoopTurn(p, op) /\ t = Turned(p)
  BY DEF DispatchOneMessage
<1>2. proc' = [proc EXCEPT ![p] = t] \/ (conn[c].incoming # <<>> /\ DispatchMessage(c, m, t))
  BY DEF DispatchOneMessage
<1> HIDE DEF t, op
<1>3. c \in Mine(p)
  BY <1>1, TurnedFacts
<1>4. conn[c].incoming # <<>> => m \in Message
  <2>1. conn[c] \in Connections
    BY <1>3, MineFacts, Here
  <2> QED
    BY <2>1, TailFacts DEF Connections
<1>5. /\ t \in States(p) /\ DispatchInv(p, t) /\ (t.stack = <<>> \/ Covered(Head(t.stack)))
      /\ (proc' = [proc EXCEPT ![p] = t] => DispatchesInv')
  BY <1>1, TurnedLists
<1> HIDE DEF c, m
<1> QED
  BY <1>2, <1>3, <1>4, <1>5, DispatchMessageLists

LEMMA DidCloseLists ==
    ASSUME Inv, DispatchesInv, NEW p \in Processes, DidClose(p)
    PROVE  DispatchesInv'
<1> DEFINE t == Turned(p)
           op == "didClose"
<1>1. RunLoopTurn(p, op) /\ t = Turned(p) /\ proc' = [proc EXCEPT ![p] = t]
  BY DEF DidClose
<1> HIDE DEF t, op
<1> QED
  BY <1>1, TurnedLists

LEMMA ResetDidScheduleLists ==
    ASSUME Inv, DispatchesInv, NEW p \in Processes, ResetDidSchedule(p)
    PROVE  DispatchesInv'
<1> DEFINE c == Head(proc[p].runLoop).c
           v == Turned(p)
           u == Unscheduled(v, c)
           f == ResetFrame(c)
           t == Push(u, f)
           op == "dispatchMessages"
<1>1. RunLoopTurn(p, op) /\ v = Turned(p)
  BY DEF ResetDidSchedule
<1>2. proc' = [proc EXCEPT ![p] = t]
  BY DEF ResetDidSchedule, ResetFrame, Unscheduled
<1>3. t = Push(u, f)
  OBVIOUS
<1> HIDE DEF v, t, op
<1>4. /\ v \in States(p) /\ DispatchInv(p, v) /\ (v.stack = <<>> \/ Covered(Head(v.stack)))
      /\ (v.stack = <<>> \/ p \in NestedLoops)
  BY <1>1, TurnedLists
<1>5. c \in Mine(p)
  BY <1>1, TurnedFacts
<1> HIDE DEF c
<1>6. u \in States(p) /\ u.stack = v.stack /\ u.toDispatch = v.toDispatch /\ u.semaphore = v.semaphore
  BY <1>4 DEF Unscheduled, States
<1> HIDE DEF u
<1>7. DispatchInv(p, u)
  BY <1>4, <1>6, ListSame
<1>8. f \in Frames(p) /\ f.op = "dispatchMessages"
  BY <1>5 DEF Frames, ResetFrame, ResetFrames
<1> HIDE DEF f
<1>9. t \in States(p) /\ t.stack = Cons(f, u.stack) /\ SameButStack(u, t)
  BY <1>3, <1>6, <1>8, PushEffect
<1>10. ~PutsBack(f) /\ f.op # "sync" /\ (p \in NestedLoops \/ u.stack = <<>>)
  BY <1>4, <1>6, <1>8 DEF PutsBack
<1>11. ~Fresh(u)
  BY <1>4, <1>6, CoveredNotFresh
<1>12. Heard(u, t)
  BY <1>9, <1>11, HeardSame DEF SameButStack
<1>13. DispatchInv(p, t)
  BY <1>6, <1>7, <1>8, <1>9, <1>10, <1>12, ListPush
<1> QED
  BY <1>2, <1>13, ListStep

LEMMA DispatchAllowedLists ==
    ASSUME Inv, DispatchesInv, NEW p \in Processes, DispatchAllowed(p)
    PROVE  DispatchesInv'
<1> DEFINE q == proc[p]
           c == Head(q.stack).c
           u == Pop(q)
           t == DispatchMessages(u, c)
           f == DispatchFrame(c, u.toDispatch)
<1>1. q.stack # <<>> /\ Head(q.stack).op = "dispatchMessages" /\ Top(p) = Head(q.stack) /\ ~Fresh(q)
  BY AtFacts, NotFresh DEF DispatchAllowed
<1>2. proc' = [proc EXCEPT ![p] = t]
  BY <1>1 DEF DispatchAllowed
<1>3. c \in Mine(p) \cup {None}
  BY <1>1, TopConnection
<1>4. u = Pop(q) /\ t = DispatchMessages(u, c) /\ f = DispatchFrame(c, u.toDispatch)
  OBVIOUS
<1>5. q \in States(p) /\ DispatchInv(p, q)
  BY ListsThere
<1> HIDE DEF u, c, t, f
<1>6. u \in States(p) /\ DispatchInv(p, u)
  BY <1>1, <1>4, PopLists
<1>7. p \in NestedLoops \/ u.stack = <<>>
  <2>1. q.stack \in Seq(Frames(p)) /\ 1 \in DOMAIN q.stack /\ q.stack[1] = Head(q.stack) /\ u.stack = Tail(q.stack)
    BY <1>1, <1>4, <1>5, TailPlaces, PopEffect DEF States
  <2>2. p \in NestedLoops \/ Len(q.stack) = 1
    BY <1>1, <1>5, <2>1 DEF DispatchInv, BottomInv, AllowsOne
  <2>3. Len(q.stack) = 1 => Tail(q.stack) = <<>>
    BY <1>1, <2>1, OnlyOne
  <2> QED
    BY <2>1, <2>2, <2>3
<1>8. /\ f \in Frames(p) /\ f.op = "dispatch" /\ t.stack = Cons(f, u.stack) /\ f.back = <<>> /\ t.toDispatch = <<>>
  BY <1>3, <1>4, <1>6, DispatchEffect
<1>9. ~PutsBack(f) /\ f.op # "sync" /\ Heard(u, t)
  BY <1>8 DEF PutsBack, Heard
<1>10. DispatchInv(p, t)
  BY <1>6, <1>7, <1>8, <1>9, ListPush
<1> QED
  BY <1>2, <1>10, ListStep

(***************************************************************************)
(* The connection's thread, secondary threads and crashes.                 *)
(***************************************************************************)

LEMMA SameLists ==
    ASSUME DispatchesInv, UNCHANGED proc
    PROVE  DispatchesInv'
  BY DEF DispatchesInv

LEMMA NotifyLists ==
    ASSUME NEW p, NEW q \in States(p), DispatchInv(p, q), NEW c, NEW t, t = Notify(c, q)
    PROVE  DispatchInv(p, t)
<1>1. CASE ~(q.stack # <<>> /\ Head(q.stack).op = "wait" /\ Head(q.stack).c = c /\ Head(q.stack).at = "asleep")
  BY <1>1 DEF Notify
<1>2. CASE q.stack # <<>> /\ Head(q.stack).op = "wait" /\ Head(q.stack).c = c /\ Head(q.stack).at = "asleep"
  <2> DEFINE a == "notified"
             f == Head(t.stack)
  <2>1. t = GoOn(q, a)
    BY <1>2 DEF Notify
  <2>2. CanGo(Head(q.stack), a)
    BY <1>2 DEF CanGo, WaitPlaces
  <2> HIDE DEF a
  <2>3. Goes(p, q, t, a) /\ SameButStack(q, t)
    BY <1>2, <2>1, <2>2, GoesOn
  <2>4. f \in Frames(p) /\ Topped(t.stack, f, q.stack) /\ f.op = "wait"
    BY <1>2, <2>3 DEF Goes
  <2>5. ~Fresh(q)
    BY <1>2 DEF Fresh
  <2>6. ~AllowsOne(f) /\ ~PutsBack(f) /\ Heard(q, t)
    BY <2>3, <2>4, <2>5, HeardSame DEF AllowsOne, PutsBack, SameButStack
  <2> HIDE DEF f
  <2> QED
    BY <1>2, <2>4, <2>6, ListTop
<1> QED
  BY <1>1, <1>2

LEMMA SignalLists ==
    ASSUME Inv, DispatchesInv, NEW c \in Endpoints, NEW t,
           t = proc[processOf[c]] \/ t = Signal(proc[processOf[c]]), proc' = [proc EXCEPT ![processOf[c]] = t]
    PROVE  DispatchesInv'
<1>1. processOf[c] \in Processes /\ proc[processOf[c]] \in States(processOf[c])
      /\ DispatchInv(processOf[c], proc[processOf[c]])
  BY Here, ListsHere
<1>2. DispatchInv(processOf[c], t)
  BY <1>1, SignalEffect, ListSame
<1> QED
  BY <1>1, <1>2, ListStep

LEMMA ReadReplyLists ==
    ASSUME Inv, DispatchesInv, NEW c \in Endpoints, NEW m, ReadReply(c, m)
    PROVE  DispatchesInv'
<1> DEFINE q == proc[processOf[c]]
           u == Signal(q)
<1>1. proc' = [proc EXCEPT ![processOf[c]] = u] \/ proc' = [proc EXCEPT ![processOf[c]] = q]
  BY DEF ReadReply, Reads
<1>2. u = Signal(q)
  OBVIOUS
<1> HIDE DEF u
<1> QED
  BY <1>1, <1>2, SignalLists

LEMMA ReadFlaggedLists ==
    ASSUME Inv, DispatchesInv, NEW c \in Endpoints, NEW m, ReadFlagged(c, m)
    PROVE  DispatchesInv'
<1> DEFINE p == processOf[c]
           q == proc[p]
           k == conn[c]
           u == ToDispatch(q, c, m)
           t == Signal(u)
<1>1. Reads(c, m, k, t)
  BY DEF ReadFlagged, ToDispatch, TaskOf, EntryOf
<1>2. m \in Message /\ proc' = [proc EXCEPT ![p] = t]
  <2> HIDE DEF k, t
  <2> QED
    BY <1>1, ReadsFacts
<1>3. p \in Processes /\ q \in States(p) /\ c \in Mine(p) /\ DispatchInv(p, q)
  BY Here, MineFacts, ListsHere
<1>4. u \in States(p) /\ u.stack = q.stack
  <2>1. u = ToDispatch(q, c, m) /\ q \in States(p) /\ c \in Mine(p) /\ m \in FlaggedMessages
    BY <1>2, <1>3 DEF ReadFlagged, FlaggedMessages
  <2> HIDE DEF q, u, p
  <2> QED
    BY <2>1, ToDispatchEffect
<1>5. t = Signal(u)
  OBVIOUS
<1> HIDE DEF u, t
<1>6. t.stack = u.stack /\ t.semaphore
  BY <1>4, <1>5, SignalEffect
<1>7. DispatchInv(p, t)
  BY <1>3, <1>4, <1>6, ListSame
<1> QED
  BY <1>2, <1>3, <1>7, ListStep

LEMMA ReadAwaitedLists ==
    ASSUME Inv, DispatchesInv, NEW c \in Endpoints, NEW m, ReadAwaited(c, m)
    PROVE  DispatchesInv'
<1> DEFINE p == processOf[c]
           t == Notify(c, proc[p])
<1>1. proc' = [proc EXCEPT ![p] = t] /\ t = Notify(c, proc[p])
  BY DEF ReadAwaited, Reads
<1> HIDE DEF t
<1>2. p \in Processes /\ proc[p] \in States(p) /\ DispatchInv(p, proc[p])
  BY Here, ListsHere
<1>3. DispatchInv(p, t)
  BY <1>1, <1>2, NotifyLists
<1> QED
  BY <1>1, <1>2, <1>3, ListStep

LEMMA ReadOtherLists ==
    ASSUME Inv, DispatchesInv, NEW c \in Endpoints, NEW m, ReadOther(c, m)
    PROVE  DispatchesInv'
<1> DEFINE p == processOf[c]
           q == proc[p]
           op == "dispatchOneMessage"
           u == WithTask(q, op, c)
           t == Notify(c, u)
<1>1. (proc' = [proc EXCEPT ![p] = u] \/ proc' = [proc EXCEPT ![p] = t]) /\ q.alive
  BY DEF ReadOther, Reads, WithTask, TaskOf, IsAt
<1>2. u = WithTask(q, op, c) /\ op \in {"dispatchOneMessage", "didClose"} /\ t = Notify(c, u)
  OBVIOUS
<1>3. p \in Processes /\ q \in States(p) /\ ProcessInv(q) /\ c \in Mine(p) /\ DispatchInv(p, q)
  BY Here, MineFacts, ListsHere
<1> HIDE DEF u, t, op
<1>4. u \in States(p) /\ u.stack = q.stack /\ u.toDispatch = q.toDispatch /\ u.semaphore = q.semaphore
  BY <1>1, <1>2, <1>3, WithTaskEffect
<1>5. DispatchInv(p, u)
  BY <1>3, <1>4, ListSame
<1>6. DispatchInv(p, t)
  BY <1>2, <1>4, <1>5, NotifyLists
<1> QED
  BY <1>1, <1>3, <1>5, <1>6, ListStep

LEMMA CloseLists ==
    ASSUME Inv, DispatchesInv, NEW c \in Endpoints, HangUp(c) \/ CloseTask(c)
    PROVE  DispatchesInv'
<1> DEFINE q == proc[processOf[c]]
           u == Signal(q)
<1>1. proc' = [proc EXCEPT ![processOf[c]] = u] \/ proc' = [proc EXCEPT ![processOf[c]] = q]
  BY DEF HangUp, CloseTask, ConnectionDidClose
<1>2. u = Signal(q)
  OBVIOUS
<1> HIDE DEF u
<1> QED
  BY <1>1, <1>2, SignalLists

LEMMA FinishCloseLists ==
    ASSUME Inv, DispatchesInv, NEW c \in Endpoints, FinishClose(c)
    PROVE  DispatchesInv'
<1> DEFINE p == processOf[c]
           q == proc[p]
           u == Notify(c, q)
           op == "didClose"
           t == WithTask(u, op, c)
<1>1. proc' = [proc EXCEPT ![p] = t] /\ q.alive
  BY DEF FinishClose, WithTask, TaskOf, IsAt
<1>2. u = Notify(c, q) /\ t = WithTask(u, op, c) /\ op \in {"dispatchOneMessage", "didClose"}
  OBVIOUS
<1>3. p \in Processes /\ q \in States(p) /\ ProcessInv(q) /\ c \in Mine(p) /\ DispatchInv(p, q)
  BY Here, MineFacts, ListsHere
<1> HIDE DEF u, t, op
<1>4. u \in States(p) /\ u.alive /\ ProcessInv(u)
  BY <1>1, <1>2, <1>3, NotifyFacts
<1>5. DispatchInv(p, u)
  BY <1>2, <1>3, NotifyLists
<1>6. t.stack = u.stack /\ t.toDispatch = u.toDispatch /\ t.semaphore = u.semaphore
  BY <1>2, <1>3, <1>4, WithTaskEffect
<1>7. DispatchInv(p, t)
  BY <1>5, <1>6, ListSame
<1> QED
  BY <1>1, <1>3, <1>7, ListStep

LEMMA InitLists == Init => DispatchesInv
<1> SUFFICES ASSUME Init, NEW p \in Processes PROVE DispatchInv(p, proc[p])
  BY DEF DispatchesInv
<1>1. proc[p].stack = <<>>
  BY DEF Init, NewProcess
<1> QED
  BY <1>1, ListEmpty

LEMMA NextLists ==
    ASSUME Inv, DispatchesInv, NestedAlone, Next
    PROVE  DispatchesInv'
<1>1. ASSUME NEW p \in Processes, MainThreadStep(p) \/ SyncTimesOut(p) PROVE DispatchesInv'
  BY <1>1, HandlerReturnsLists, SyncDispatchLists, SyncCheckLists, SyncWakesLists, SyncReturnsLists, DispatchNextLists,
     WaitLists, WaitChecksLists, DispatchOneMessageLists, ResetDidScheduleLists, DispatchAllowedLists, DidCloseLists,
     SyncTimesOutLists DEF MainThreadStep
<1>2. ASSUME NEW p \in Processes, Crash(p) PROVE DispatchesInv'
  BY <1>2, DieLists DEF Crash
<1>3. ASSUME NEW c \in Endpoints, ClientStep(c) PROVE DispatchesInv'
  BY <1>3, SpendingLists, WaitForMessageLists, SendSyncLists DEF ClientStep
<1>4. ASSUME NEW c \in Endpoints, QueueThreadStep(c) PROVE DispatchesInv'
  <2>1. ASSUME ProcessIncomingMessage(c) PROVE DispatchesInv'
    BY <2>1, ReadReplyLists, ReadFlaggedLists, ReadAwaitedLists, ReadOtherLists DEF ProcessIncomingMessage
  <2>2. ASSUME SendOutgoingMessages(c) \/ InvalidateTask(c) PROVE DispatchesInv'
    BY <2>2, SameLists DEF SendOutgoingMessages, InvalidateTask
  <2> QED
    BY <1>4, <2>1, <2>2, CloseLists, FinishCloseLists DEF QueueThreadStep
<1>5. ASSUME NEW c \in Endpoints, SecondaryReturns(c) \/ SecondaryTimesOut(c) PROVE DispatchesInv'
  BY <1>5, SameLists DEF SecondaryReturns, SecondaryTimesOut, SecondaryEnds
<1> QED
  BY <1>1, <1>2, <1>3, <1>4, <1>5 DEF Next

(* NoLostWakeup holds for any number of processes and connections, of      *)
(* nested calls and of secondary threads, where a process whose handlers   *)
(* run nested loops has one connection: one semaphore for all that a main  *)
(* thread may wait for is enough, although a call that waits further down  *)
(* on the stack may lose its signal to one above it.                       *)
THEOREM NoWakeupIsLost == NestedAlone => (Spec => []NoLostWakeup)
<1> SUFFICES ASSUME NestedAlone PROVE Spec => []NoLostWakeup
  OBVIOUS
<1>1. Inv /\ DispatchesInv /\ [Next]_vars => (Inv /\ DispatchesInv)'
  BY NextInv, StutterInv, NextLists, SameLists DEF vars
<1>2. Init => Inv /\ DispatchesInv
  BY InitInv, InitLists
<1>3. ASSUME Inv, DispatchesInv PROVE NoLostWakeup
  <2>1. ASSUME NEW p \in Processes, At(p, "sync", "wait"), ~proc[p].semaphore
        PROVE  /\ proc[p].toDispatch = <<>> /\ ~Last(conn[Top(p).c].pending).reply /\ conn[Top(p).c].shouldWait
    <3> DEFINE q == proc[p]
               c == Top(p).c
    <3>1. q.stack # <<>> /\ Head(q.stack).op = "sync" /\ Head(q.stack).at = "wait" /\ Top(p) = Head(q.stack)
      BY <2>1, AtFacts
    <3>2. c \in Mine(p) /\ LocalInv(conn[c], q, c)
      BY <1>3, <3>1, TopConnection
    <3>3. SleepsOn(q, c)
      BY <2>1, <3>1 DEF SleepsOn, IsSync
    <3>4. ~Last(conn[c].pending).reply /\ conn[c].shouldWait
      BY <3>2, <3>3 DEF LocalInv, WakeInv
    <3>5. q \in States(p) /\ DispatchInv(p, q)
      BY <1>3, ListsThere
    <3>6. HasSync(q.stack)
      <4>1. 1 \in DOMAIN q.stack /\ q.stack[1] = Head(q.stack)
        BY <3>1, <3>5, TailPlaces DEF States
      <4> QED
        BY <3>1, <4>1 DEF HasSync
    <3>7. ~Fresh(q)
      BY <3>1 DEF Fresh
    <3>8. q.toDispatch = <<>>
      BY <2>1, <3>5, <3>6, <3>7 DEF DispatchInv, ListInv
    <3> QED
      BY <3>4, <3>8
  <2>2. ASSUME NEW p \in Processes, At(p, "wait", "asleep") PROVE conn[Top(p).c].waiting.decoder = None
    <3> DEFINE q == proc[p]
               c == Top(p).c
    <3>1. q.stack # <<>> /\ Head(q.stack).op = "wait" /\ Head(q.stack).at = "asleep" /\ Top(p) = Head(q.stack)
      BY <2>2, AtFacts
    <3>2. LocalInv(conn[c], q, c)
      BY <1>3, <3>1, TopConnection
    <3>3. Asleep(q, c)
      BY <3>1 DEF Asleep, Registered
    <3> QED
      BY <3>2, <3>3 DEF LocalInv, WaitInv
  <2>3. ASSUME NEW c \in Endpoints, NEW s \in conn[c].secondary, s.reply \/ ~conn[c].shouldWait PROVE s.signalled
    BY <1>3, <2>3, Here DEF LocalInv, SignalInv
  <2> QED
    BY <2>1, <2>2, <2>3 DEF NoLostWakeup
<1> QED
  BY <1>1, <1>2, <1>3, PTL DEF Spec
=============================================================================
