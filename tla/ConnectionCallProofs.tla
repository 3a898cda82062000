------------------------ MODULE ConnectionCallProofs -------------------------
(***************************************************************************)
(* Proofs about the synchronous calls of Connection: where a request and   *)
(* its reply may be, from sendSyncMessage() through the queues, sockets    *)
(* and stacks of both processes and back, and that they are there once.    *)
(* From this follow the assertions of the code and that Connection         *)
(* implements SyncCall. The last part is about all messages: the order in  *)
(* which they are in the queues and sockets, and in which they are handled. *)
(***************************************************************************)
EXTENDS ConnectionProofs

Requests(id) == {m \in Message : m.name = "sync" /\ m.id = id}
Replies(id) == {m \in Message : m.name = "SyncMessageReply" /\ m.id = id}

Has(s, C) == Range(s) \cap C # {}

(* In the process of d: a request may be in the list of the messages to    *)
(* dispatch, or in the local list of a dispatchMessages().                 *)
EntriesFor(d, id) == [c : {d}, m : Requests(id)]
HoldersOf(d, id) ==
    {f \in DispatchFrames(processOf[d]) : Has(f.rest, EntriesFor(d, id)) \/ Has(f.back, EntriesFor(d, id))}
TanglesOf(d, id) ==
    {f \in DispatchFrames(processOf[d]) :
        ~ /\ Once(f.rest, EntriesFor(d, id)) /\ Once(f.back, EntriesFor(d, id))
          /\ ~(Has(f.rest, EntriesFor(d, id)) /\ Has(f.back, EntriesFor(d, id)))}
HandlersOf(d, id) == {f \in HandleFrames(processOf[d]) : f.c = d /\ f.m \in Requests(id)}

Listed(q, d, id) == Has(q.toDispatch, EntriesFor(d, id)) \/ Has(q.stack, HoldersOf(d, id))
ListedOnce(q, d, id) ==
    /\ Once(q.toDispatch, EntriesFor(d, id)) /\ Once(q.stack, HoldersOf(d, id))
    /\ ~Has(q.stack, TanglesOf(d, id))
    /\ ~(Has(q.toDispatch, EntriesFor(d, id)) /\ Has(q.stack, HoldersOf(d, id)))

(* What SyncCall knows of the handler of a call.                           *)
Status(cs, id) == IF id \in DOMAIN cs THEN cs[id].handler ELSE "unknown"

(* A request is on its way in one place, or it is handled, or it is over.  *)
RequestInv(out, sock, in, q, status, d, id) ==
    /\ Once(out, Requests(id)) /\ Once(sock, Requests(id)) /\ Once(in, Requests(id)) /\ ListedOnce(q, d, id)
    /\ Has(out, Requests(id)) => ~Has(sock, Requests(id)) /\ ~Has(in, Requests(id)) /\ ~Listed(q, d, id)
    /\ Has(sock, Requests(id)) => ~Has(in, Requests(id)) /\ ~Listed(q, d, id)
    /\ Has(in, Requests(id)) => ~Listed(q, d, id)
    /\ Has(out, Requests(id)) \/ Has(sock, Requests(id)) \/ Has(in, Requests(id)) \/ Listed(q, d, id)
           => status = "none"
    /\ Once(q.stack, HandlersOf(d, id)) /\ (Has(q.stack, HandlersOf(d, id)) => status = "running")

(* Its reply comes when the handler is done, and once.                     *)
Replied(k, id) ==
    \/ \E i \in DOMAIN k.pending : k.pending[i].id = id /\ k.pending[i].reply
    \/ \E s \in k.secondary : s.id = id /\ s.reply

ReplyInv(out, sock, k, status, id) ==
    /\ Once(out, Replies(id)) /\ Once(sock, Replies(id)) /\ ~(Has(out, Replies(id)) /\ Has(sock, Replies(id)))
    /\ Has(out, Replies(id)) \/ Has(sock, Replies(id)) => status = "done" /\ ~Replied(k, id)
    /\ Replied(k, id) => status = "done"

(* The caller's side.                                                      *)
IsPending(k, id) == id \in PendingIDs(k.pending) \/ \E s \in k.secondary : s.id = id
AnsweredOf(c, id) == {f \in SyncFrames(processOf[c]) : f.c = c /\ f.id = id /\ f.ok}

CallerInv(k, q, c, cs, id) ==
    /\ IsPending(k, id) => cs[id].caller = "waiting"
    /\ Has(q.stack, AnsweredOf(c, id)) => Status(cs, id) = "done"

CountInv(k, q, cs) ==
    /\ cs \in Seq(Promise!Call) /\ k.lastID <= Len(cs) /\ (q.alive => Len(cs) = k.lastID)

(* waitForMessage() never waits for a synchronous message.                 *)
DecoderInv(k) == k.waiting # None /\ k.waiting.decoder # None => k.waiting.decoder.name # "sync"

CallsInv ==
    \A c \in Endpoints :
        /\ CountInv(conn[c], proc[processOf[c]], calls[c]) /\ DecoderInv(conn[c])
        /\ \A id \in Nat :
               /\ RequestInv(conn[c].outgoing, socket[peerOf[c]], conn[peerOf[c]].incoming,
                             proc[processOf[peerOf[c]]], Status(calls[c], id), peerOf[c], id)
               /\ ReplyInv(conn[peerOf[c]].outgoing, socket[c], conn[c], Status(calls[c], id), id)
               /\ CallerInv(conn[c], proc[processOf[c]], c, calls[c], id)
-----------------------------------------------------------------------------
(***************************************************************************)
(* Sequences that have an element of a class once.                         *)
(***************************************************************************)

LEMMA HasEmpty == \A C : ~Has(<<>>, C) /\ Once(<<>>, C)
  BY EmptyFacts DEF Has, Once, Range

LEMMA HasAppend ==
    ASSUME NEW S, NEW s \in Seq(S), NEW e \in S, NEW C
    PROVE  /\ Has(Append(s, e), C) <=> Has(s, C) \/ e \in C
           /\ Once(s, C) /\ ~(e \in C /\ Has(s, C)) => Once(Append(s, e), C)
  BY AppendKeeps DEF Has

LEMMA HasTail ==
    ASSUME NEW S, NEW s \in Seq(S), s # <<>>, NEW C
    PROVE  /\ Has(s, C) <=> Has(Tail(s), C) \/ Head(s) \in C
           /\ Once(s, C) => Once(Tail(s), C) /\ ~(Head(s) \in C /\ Has(Tail(s), C))
  BY TailKeeps DEF Has

LEMMA HasPlace == \A s, C : Has(s, C) <=> \E i \in DOMAIN s : s[i] \in C
  BY DEF Has, Range

LEMMA HasCons ==
    ASSUME NEW S, NEW s \in Seq(S), NEW e \in S, NEW C
    PROVE  /\ Has(Cons(e, s), C) <=> Has(s, C) \/ e \in C
           /\ Once(s, C) /\ ~(e \in C /\ Has(s, C)) => Once(Cons(e, s), C)
<1> DEFINE r == Cons(e, s)
<1>0. r \in Seq(S) /\ Stacked(r, e, s) /\ Tail(r) = s
  BY ConsPlaces
<1> HIDE DEF r
<1>1. r \in Seq(S) /\ r # <<>> /\ Head(r) = e /\ Tail(r) = s /\ Stacked(r, e, s)
  BY <1>0 DEF Stacked
<1>2. Has(r, C) <=> Has(s, C) \/ e \in C
  BY <1>1, HasTail
<1>3. ASSUME Once(s, C), ~(e \in C /\ Has(s, C)) PROVE Once(r, C)
  <2> SUFFICES ASSUME NEW i \in DOMAIN r, NEW j \in DOMAIN r, r[i] \in C, r[j] \in C PROVE i = j
    BY DEF Once
  <2>1. CASE i = 1 \/ j = 1
    <3>1. e \in C
      BY <1>1, <2>1 DEF Stacked
    <3>2. ~Has(s, C)
      BY <1>3, <3>1
    <3>3. i # 1 => FALSE
      BY <1>1, <3>2, HasPlace DEF Stacked
    <3>4. j # 1 => FALSE
      BY <1>1, <3>2, HasPlace DEF Stacked
    <3> QED
      BY <3>3, <3>4
  <2>2. CASE i # 1 /\ j # 1
    <3>1. i - 1 \in DOMAIN s /\ j - 1 \in DOMAIN s /\ s[i - 1] \in C /\ s[j - 1] \in C /\ i \in Nat /\ j \in Nat
      BY <1>1, <2>2 DEF Stacked
    <3>2. i - 1 = j - 1
      BY <1>3, <3>1 DEF Once
    <3> QED
      BY <3>1, <3>2
  <2> QED
    BY <2>1, <2>2
<1> QED
  BY <1>2, <1>3 DEF r

LEMMA HasConcat ==
    ASSUME NEW S, NEW s \in Seq(S), NEW r \in Seq(S), NEW C
    PROVE  /\ Has(s \o r, C) <=> Has(s, C) \/ Has(r, C)
           /\ Once(s, C) /\ Once(r, C) /\ ~(Has(s, C) /\ Has(r, C)) => Once(s \o r, C)
<1>1. Range(s \o r) = Range(s) \cup Range(r)
  BY ConcatFacts
<1>2. Once(s, C) /\ Once(r, C) /\ (Range(s) \cap C = {} \/ Range(r) \cap C = {}) => Once(s \o r, C)
  BY ConcatFacts
<1> QED
  BY <1>1, <1>2 DEF Has

LEMMA OnceConcat ==
    ASSUME NEW S, NEW s \in Seq(S), NEW r \in Seq(S), NEW C, Once(s \o r, C)
    PROVE  Once(s, C) /\ Once(r, C) /\ ~(Has(s, C) /\ Has(r, C))
<1> DEFINE t == s \o r
           m == Len(s)
           n == Len(r)
<1>1. /\ m \in Nat /\ n \in Nat /\ DOMAIN s = 1 .. m /\ DOMAIN r = 1 .. n /\ DOMAIN t = 1 .. m + n
      /\ \A i \in 1 .. m + n : t[i] = IF i <= m THEN s[i] ELSE r[i - m]
  BY ConcatProperties, LenProperties
<1>0. Once(t, C)
  OBVIOUS
<1> HIDE DEF t, m, n
<1>2. \A i \in DOMAIN s : i \in DOMAIN t /\ t[i] = s[i] /\ i \in Nat /\ i <= m
  BY <1>1
<1>3. ASSUME NEW i \in DOMAIN r PROVE i + m \in DOMAIN t /\ t[i + m] = r[i] /\ i \in Nat /\ ~(i + m <= m)
  <2>1. i + m \in 1 .. m + n /\ ~(i + m <= m) /\ (i + m) - m = i
    BY <1>1
  <2> QED
    BY <1>1, <2>1
<1>4. Once(s, C)
  BY <1>0, <1>2 DEF Once
<1>5. Once(r, C)
  <2> SUFFICES ASSUME NEW i \in DOMAIN r, NEW j \in DOMAIN r, r[i] \in C, r[j] \in C PROVE i = j
    BY DEF Once
  <2>1. i + m = j + m /\ i \in Nat /\ j \in Nat
    BY <1>0, <1>3 DEF Once
  <2> QED
    BY <1>1, <2>1
<1>6. ~(Has(s, C) /\ Has(r, C))
  <2> SUFFICES ASSUME NEW i \in DOMAIN s, s[i] \in C, NEW j \in DOMAIN r, r[j] \in C PROVE FALSE
    BY HasPlace
  <2>1. i = j + m
    BY <1>0, <1>2, <1>3 DEF Once
  <2> QED
    BY <1>2, <1>3, <2>1
<1> QED
  BY <1>4, <1>5, <1>6

Fewer(r, s, C) == (Has(r, C) => Has(s, C)) /\ (Once(s, C) => Once(r, C))

LEMMA FewerSame == \A s, C : Fewer(s, s, C)
  BY DEF Fewer

LEMMA FewerEmpty == \A s, C : Fewer(<<>>, s, C)
  BY HasEmpty DEF Fewer

LEMMA FewerTail ==
    ASSUME NEW S, NEW s \in Seq(S), s # <<>>
    PROVE  \A C : Fewer(Tail(s), s, C)
  BY HasTail DEF Fewer

LEMMA FewerRemoved ==
    ASSUME NEW S, NEW s \in Seq(S), NEW i \in 1 .. Len(s)
    PROVE  \A C : Fewer(RemoveAt(s, i), s, C)
<1> DEFINE r == RemoveAt(s, i)
           n == Len(s)
<1>1. /\ r \in Seq(S) /\ Len(r) = n - 1 /\ n \in Nat /\ i \in 1 .. n
      /\ \A j \in 1 .. (n - 1) : r[j] = IF j < i THEN s[j] ELSE s[j + 1]
  BY RemoveAtFacts, LenProperties
<1>2. DOMAIN s = 1 .. n /\ DOMAIN r = 1 .. (n - 1)
  BY <1>1, LenProperties
<1> HIDE DEF r, n
<1>3. ASSUME NEW j \in DOMAIN r
      PROVE  j \in Nat /\ j \in DOMAIN s /\ j + 1 \in DOMAIN s /\ r[j] = IF j < i THEN s[j] ELSE s[j + 1]
  BY <1>1, <1>2
<1>4. ASSUME NEW C PROVE (Has(r, C) => Has(s, C)) /\ (Once(s, C) => Once(r, C))
  <2>1. Has(r, C) => Has(s, C)
    BY <1>3, HasPlace
  <2>2. ASSUME Once(s, C), NEW j \in DOMAIN r, NEW k \in DOMAIN r, r[j] \in C, r[k] \in C PROVE j = k
    <3> DEFINE a == IF j < i THEN j ELSE j + 1
               b == IF k < i THEN k ELSE k + 1
    <3>1. a \in DOMAIN s /\ b \in DOMAIN s /\ s[a] \in C /\ s[b] \in C
      BY <1>3, <2>2
    <3>2. a = b
      <4> HIDE DEF a, b
      <4> QED
        BY <2>2, <3>1 DEF Once
    <3> QED
      BY <1>1, <1>3, <3>2
  <2> QED
    BY <2>1, <2>2 DEF Once
<1> QED
  BY <1>4 DEF Fewer, r

(* A queue of which the first part goes elsewhere.                         *)
LEMMA SplitFacts ==
    ASSUME NEW S, NEW s \in Seq(S), NEW n \in 0 .. Len(s)
    PROVE  /\ SubSeq(s, 1, n) \in Seq(S) /\ SubSeq(s, n + 1, Len(s)) \in Seq(S)
           /\ s = SubSeq(s, 1, n) \o SubSeq(s, n + 1, Len(s))
<1> DEFINE a == SubSeq(s, 1, n)
           b == SubSeq(s, n + 1, Len(s))
<1>1. Len(s) \in Nat /\ DOMAIN s = 1 .. Len(s) /\ n \in Nat /\ n <= Len(s)
  BY LenProperties
<1>2. a \in Seq(S) /\ b \in Seq(S) /\ s = a \o b
  <2>1. /\ a \in Seq(S) /\ Len(a) = n /\ \A i \in 1 .. n : a[i] = s[i]
        /\ b \in Seq(S) /\ Len(b) = Len(s) - n /\ \A i \in 1 .. (Len(s) - n) : b[i] = s[n + i]
    <3>1. a \in Seq(S) /\ Len(a) = n /\ \A i \in 1 .. n : a[i] = s[i]
      BY <1>1
    <3>2. /\ b \in Seq(S) /\ Len(b) = (IF n + 1 <= Len(s) THEN Len(s) - (n + 1) + 1 ELSE 0)
          /\ \A i \in 1 .. Len(s) - (n + 1) + 1 : b[i] = s[n + 1 + i - 1]
      <4>1. n + 1 \in Int /\ Len(s) \in Int /\ \A i \in n + 1 .. Len(s) : s[i] \in S
        BY <1>1
      <4> QED
        BY <4>1, SubSeqProperties
    <3> HIDE DEF b
    <3>3. Len(b) = Len(s) - n
      <4> DEFINE l == Len(s)
      <4>1. l \in Nat /\ n \in Nat /\ n <= l /\ Len(b) = (IF n + 1 <= l THEN l - (n + 1) + 1 ELSE 0)
        BY <1>1, <3>2
      <4> HIDE DEF l
      <4>2. Len(b) = l - n
        BY <4>1
      <4> QED
        BY <4>2 DEF l
    <3>4. ASSUME NEW i \in 1 .. (Len(s) - n) PROVE b[i] = s[n + i]
      <4> DEFINE l == Len(s)
      <4>1. l \in Nat /\ n \in Nat /\ i \in 1 .. (l - n)
        BY <1>1
      <4> HIDE DEF l
      <4>2. i \in 1 .. l - (n + 1) + 1 /\ n + 1 + i - 1 = n + i
        BY <4>1
      <4>3. b[i] = s[n + 1 + i - 1]
        BY <3>2, <4>2 DEF l
      <4> QED
        BY <4>2, <4>3
    <3> QED
      BY <3>1, <3>2, <3>3, <3>4
  <2> DEFINE c == a \o b
  <2> HIDE DEF a, b
  <2>2. /\ c \in Seq(S) /\ Len(c) = Len(a) + Len(b)
        /\ \A i \in 1 .. Len(a) + Len(b) : c[i] = IF i <= Len(a) THEN a[i] ELSE b[i - Len(a)]
    BY <2>1, ConcatProperties
  <2> HIDE DEF c
  <2>3. Len(c) = Len(s)
    BY <1>1, <2>1, <2>2
  <2>4. ASSUME NEW i \in 1 .. Len(s) PROVE c[i] = s[i]
    <3>1. CASE i <= n
      BY <1>1, <2>1, <2>2, <3>1
    <3>2. CASE ~(i <= n)
      <4>1. i - n \in 1 .. (Len(s) - n) /\ n + (i - n) = i
        BY <1>1, <3>2
      <4>2. b[i - n] = s[n + (i - n)]
        BY <2>1, <4>1
      <4> QED
        BY <1>1, <2>1, <2>2, <3>2, <4>1, <4>2
    <3> QED
      BY <3>1, <3>2
  <2>5. c = s
    BY <2>2, <2>3, <2>4, SeqEqual
  <2> QED
    BY <2>1, <2>5 DEF c
<1> QED
  BY <1>2

LEMMA HasSplit ==
    ASSUME NEW S, NEW s \in Seq(S), NEW n \in 0 .. Len(s), NEW C
    PROVE  /\ SubSeq(s, 1, n) \in Seq(S) /\ SubSeq(s, n + 1, Len(s)) \in Seq(S)
           /\ Has(SubSeq(s, 1, n), C) \/ Has(SubSeq(s, n + 1, Len(s)), C) => Has(s, C)
           /\ Once(s, C) => /\ Once(SubSeq(s, 1, n), C) /\ Once(SubSeq(s, n + 1, Len(s)), C)
                            /\ ~(Has(SubSeq(s, 1, n), C) /\ Has(SubSeq(s, n + 1, Len(s)), C))
<1> DEFINE a == SubSeq(s, 1, n)
           b == SubSeq(s, n + 1, Len(s))
<1>2. a \in Seq(S) /\ b \in Seq(S) /\ s = a \o b
  BY SplitFacts
<1> HIDE DEF a, b
<1>3. Has(a, C) \/ Has(b, C) => Has(s, C)
  BY <1>2, HasConcat
<1>4. Once(s, C) => Once(a, C) /\ Once(b, C) /\ ~(Has(a, C) /\ Has(b, C))
  BY <1>2, OnceConcat
<1> QED
  BY <1>2, <1>3, <1>4 DEF a, b

-----------------------------------------------------------------------------
(***************************************************************************)
(* Steps that make no call, handle none and answer none: what they know of *)
(* requests and replies becomes less.                                      *)
(***************************************************************************)

(* From q to t, a process loses requests or moves them between the list    *)
(* and the calls of dispatchMessages().                                    *)
ProcLess(q, t, d, id) ==
    /\ Listed(t, d, id) => Listed(q, d, id)
    /\ ListedOnce(q, d, id) => ListedOnce(t, d, id)
    /\ Fewer(t.stack, q.stack, HandlersOf(d, id))

AnsweredLess(q, t, d, id) == Has(t.stack, AnsweredOf(d, id)) => Has(q.stack, AnsweredOf(d, id))

ProcTame(p, q, t) == \A d \in Mine(p), id \in Nat : ProcLess(q, t, d, id) /\ AnsweredLess(q, t, d, id)

ConnLess(k, j) ==
    /\ \A id \in Nat :
           /\ Fewer(j.outgoing, k.outgoing, Requests(id)) /\ Fewer(j.outgoing, k.outgoing, Replies(id))
           /\ Fewer(j.incoming, k.incoming, Requests(id))
           /\ Replied(j, id) => Replied(k, id)
    /\ DecoderInv(k) => DecoderInv(j)

StillPending(k, j) == j.lastID = k.lastID /\ \A id \in Nat : IsPending(j, id) => IsPending(k, id)

ConnTame(k, j) == ConnLess(k, j) /\ StillPending(k, j)

SocketLess(s, r) == \A id \in Nat : Fewer(r, s, Requests(id)) /\ Fewer(r, s, Replies(id))

StatusKept(cs, ds) == \A id \in Nat : Status(ds, id) = Status(cs, id) \/ Status(cs, id) = "unknown"

LEMMA LessRequest ==
    ASSUME NEW out, NEW sock, NEW in, NEW q, NEW a, NEW d, NEW id, RequestInv(out, sock, in, q, a, d, id),
           NEW ou, NEW so, NEW i, NEW t, NEW b,
           Fewer(ou, out, Requests(id)), Fewer(so, sock, Requests(id)), Fewer(i, in, Requests(id)),
           ProcLess(q, t, d, id), b = a \/ a = "unknown"
    PROVE  RequestInv(ou, so, i, t, b, d, id)
  BY DEF RequestInv, Fewer, ProcLess

LEMMA LessReply ==
    ASSUME NEW out, NEW sock, NEW k, NEW a, NEW id, ReplyInv(out, sock, k, a, id),
           NEW ou, NEW so, NEW j, NEW b,
           Fewer(ou, out, Replies(id)), Fewer(so, sock, Replies(id)),
           Replied(j, id) => Replied(k, id), b = a \/ a = "unknown"
    PROVE  ReplyInv(ou, so, j, b, id)
  BY DEF ReplyInv, Fewer

RequestsOK(c) ==
    \A id \in Nat : RequestInv(conn[c].outgoing, socket[peerOf[c]], conn[peerOf[c]].incoming,
                               proc[processOf[peerOf[c]]], Status(calls[c], id), peerOf[c], id)
RepliesOK(c) ==
    \A id \in Nat : ReplyInv(conn[peerOf[c]].outgoing, socket[c], conn[c], Status(calls[c], id), id)
CallersOK(c) ==
    /\ CountInv(conn[c], proc[processOf[c]], calls[c])
    /\ \A id \in Nat : CallerInv(conn[c], proc[processOf[c]], c, calls[c], id)

LEMMA CallsParts ==
    /\ CallsInv <=> \A c \in Endpoints : RequestsOK(c) /\ RepliesOK(c) /\ CallersOK(c) /\ DecoderInv(conn[c])
    /\ CallsInv' <=> \A c \in Endpoints : RequestsOK(c)' /\ RepliesOK(c)' /\ CallersOK(c)' /\ DecoderInv(conn'[c])
<1>1. CallsInv <=> \A c \in Endpoints : RequestsOK(c) /\ RepliesOK(c) /\ CallersOK(c) /\ DecoderInv(conn[c])
  BY DEF CallsInv, RequestsOK, RepliesOK, CallersOK
<1>2. CallsInv' <=> \A c \in Endpoints : RequestsOK(c)' /\ RepliesOK(c)' /\ CallersOK(c)' /\ DecoderInv(conn'[c])
  BY DEF CallsInv, RequestsOK, RepliesOK, CallersOK
<1> QED
  BY <1>1, <1>2

LEMMA LessStep ==
    ASSUME CallsInv,
           \A c \in Endpoints :
               /\ ConnLess(conn[c], conn'[c]) /\ SocketLess(socket[c], socket'[c])
               /\ \A id \in Nat : ProcLess(proc[processOf[c]], proc'[processOf[c]], c, id)
               /\ StatusKept(calls[c], calls'[c]) /\ CallersOK(c)'
    PROVE  CallsInv'
<1>1. ASSUME NEW c \in Endpoints PROVE RequestsOK(c)' /\ RepliesOK(c)' /\ DecoderInv(conn'[c])
  <2>1. peerOf[c] \in Endpoints
    BY MineFacts
  <2>2. RequestsOK(c) /\ RepliesOK(c) /\ DecoderInv(conn[c])
    BY CallsParts
  <2>3. ASSUME NEW id \in Nat
        PROVE  RequestInv(conn'[c].outgoing, socket'[peerOf[c]], conn'[peerOf[c]].incoming,
                          proc'[processOf[peerOf[c]]], Status(calls'[c], id), peerOf[c], id)
    <3>1. RequestInv(conn[c].outgoing, socket[peerOf[c]], conn[peerOf[c]].incoming,
                     proc[processOf[peerOf[c]]], Status(calls[c], id), peerOf[c], id)
      BY <2>2 DEF RequestsOK
    <3>2. /\ Fewer(conn'[c].outgoing, conn[c].outgoing, Requests(id))
          /\ Fewer(socket'[peerOf[c]], socket[peerOf[c]], Requests(id))
          /\ Fewer(conn'[peerOf[c]].incoming, conn[peerOf[c]].incoming, Requests(id))
          /\ ProcLess(proc[processOf[peerOf[c]]], proc'[processOf[peerOf[c]]], peerOf[c], id)
          /\ Status(calls'[c], id) = Status(calls[c], id) \/ Status(calls[c], id) = "unknown"
      BY <2>1 DEF ConnLess, SocketLess, StatusKept
    <3> QED
      BY <3>1, <3>2, LessRequest
  <2>4. ASSUME NEW id \in Nat
        PROVE  ReplyInv(conn'[peerOf[c]].outgoing, socket'[c], conn'[c], Status(calls'[c], id), id)
    <3>1. ReplyInv(conn[peerOf[c]].outgoing, socket[c], conn[c], Status(calls[c], id), id)
      BY <2>2 DEF RepliesOK
    <3>2. /\ Fewer(conn'[peerOf[c]].outgoing, conn[peerOf[c]].outgoing, Replies(id))
          /\ Fewer(socket'[c], socket[c], Replies(id))
          /\ Replied(conn'[c], id) => Replied(conn[c], id)
          /\ Status(calls'[c], id) = Status(calls[c], id) \/ Status(calls[c], id) = "unknown"
      BY <2>1 DEF ConnLess, SocketLess, StatusKept
    <3> QED
      BY <3>1, <3>2, LessReply
  <2> QED
    BY <2>2, <2>3, <2>4 DEF RequestsOK, RepliesOK, ConnLess
<1> QED
  BY <1>1, CallsParts

LEMMA SameLess ==
    /\ \A q, d, id : ProcLess(q, q, d, id) /\ AnsweredLess(q, q, d, id)
    /\ \A k : ConnTame(k, k)
    /\ \A s : SocketLess(s, s)
    /\ \A cs : StatusKept(cs, cs)
  BY FewerSame DEF ProcLess, AnsweredLess, ConnTame, ConnLess, StillPending, SocketLess, StatusKept

(* The caller's side of a step that leaves the calls alone.                *)
LEMMA TameCaller ==
    ASSUME NEW k, NEW q, NEW c, NEW cs, CountInv(k, q, cs), \A id \in Nat : CallerInv(k, q, c, cs, id),
           NEW j, NEW t, StillPending(k, j), t.alive => q.alive, \A id \in Nat : AnsweredLess(q, t, c, id)
    PROVE  CountInv(j, t, cs) /\ \A id \in Nat : CallerInv(j, t, c, cs, id)
  BY DEF CountInv, CallerInv, StillPending, AnsweredLess

(* A step of the process of c that may change c.                           *)
LEMMA TameStep ==
    ASSUME Inv, CallsInv, NEW c \in Endpoints, NEW k, NEW t,
           conn' = [conn EXCEPT ![c] = k], calls' = calls,
           proc' = [proc EXCEPT ![processOf[c]] = t] \/ (proc' = proc /\ t = proc[processOf[c]]),
           \A d \in Endpoints : SocketLess(socket[d], socket'[d]),
           ConnTame(conn[c], k), ProcTame(processOf[c], proc[processOf[c]], t),
           t.alive => proc[processOf[c]].alive
    PROVE  CallsInv'
<1>1. ASSUME NEW d \in Endpoints
      PROVE  /\ ConnTame(conn[d], conn'[d])
             /\ \A id \in Nat : ProcLess(proc[processOf[d]], proc'[processOf[d]], d, id)
                                /\ AnsweredLess(proc[processOf[d]], proc'[processOf[d]], d, id)
             /\ proc'[processOf[d]].alive => proc[processOf[d]].alive
  <2>1. ConnTame(conn[d], conn'[d])
    <3>1. conn'[d] = IF d = c THEN k ELSE conn[d]
      BY DEF Inv, TypeInv
    <3> QED
      BY <3>1, SameLess
  <2>2. processOf[d] \in Processes /\ DOMAIN proc = Processes
    BY MineFacts DEF Inv, TypeInv
  <2>3. CASE processOf[d] = processOf[c]
    <3>1. proc'[processOf[d]] = t /\ d \in Mine(processOf[c])
      BY <2>2, <2>3, MineFacts
    <3> QED
      BY <2>1, <2>3, <3>1 DEF ProcTame
  <2>4. CASE processOf[d] # processOf[c]
    <3>1. proc'[processOf[d]] = proc[processOf[d]]
      BY <2>2, <2>4
    <3> QED
      BY <2>1, <3>1, SameLess
  <2> QED
    BY <2>3, <2>4
<1>2. ASSUME NEW d \in Endpoints PROVE CallersOK(d)'
  <2>1. CountInv(conn[d], proc[processOf[d]], calls[d])
        /\ \A id \in Nat : CallerInv(conn[d], proc[processOf[d]], d, calls[d], id)
    BY CallsParts DEF CallersOK
  <2>2. CountInv(conn'[d], proc'[processOf[d]], calls[d])
        /\ \A id \in Nat : CallerInv(conn'[d], proc'[processOf[d]], d, calls[d], id)
    BY <1>1, <2>1, TameCaller DEF ConnTame
  <2> QED
    BY <2>2 DEF CallersOK
<1>3. \A d \in Endpoints : StatusKept(calls[d], calls'[d])
  BY SameLess
<1> QED
  BY <1>1, <1>2, <1>3, LessStep DEF ConnTame

LEMMA ConnTameItself == \A k : ConnTame(k, k)
  BY SameLess
LEMMA ProcTameItself == \A p, q : ProcTame(p, q, q)
  BY SameLess DEF ProcTame

LEMMA SocketsSame ==
    ASSUME UNCHANGED socket
    PROVE  \A d \in Endpoints : SocketLess(socket[d], socket'[d])
  BY SameLess

(* A step that changes a process only.                                     *)
LEMMA TameProcess ==
    ASSUME Inv, CallsInv, NEW p \in Processes, NEW t,
           UNCHANGED <<conn, socket, calls>>, proc' = [proc EXCEPT ![p] = t],
           ProcTame(p, proc[p], t), t.alive => proc[p].alive
    PROVE  CallsInv'
<1>1. CASE \E c \in Endpoints : processOf[c] = p
  <2>1. PICK c \in Endpoints : processOf[c] = p
    BY <1>1
  <2>2. conn' = [conn EXCEPT ![c] = conn[c]]
    BY DEF Inv, TypeInv
  <2>3. \A d \in Endpoints : SocketLess(socket[d], socket'[d])
    BY SocketsSame
  <2>4. ConnTame(conn[c], conn[c])
    BY SameLess
  <2> QED
    BY <2>1, <2>2, <2>3, <2>4, TameStep
<1>2. CASE ~\E c \in Endpoints : processOf[c] = p
  <2>1. ASSUME NEW c \in Endpoints
        PROVE  conn'[c] = conn[c] /\ socket'[c] = socket[c] /\ calls'[c] = calls[c] /\ proc'[processOf[c]] = proc[processOf[c]]
    BY <1>2, MineFacts DEF Inv, TypeInv
  <2>2. ASSUME NEW c \in Endpoints PROVE CallersOK(c)'
    BY <2>1, CallsParts DEF CallersOK
  <2>3. ASSUME NEW c \in Endpoints
        PROVE  /\ ConnLess(conn[c], conn'[c]) /\ SocketLess(socket[c], socket'[c])
               /\ \A id \in Nat : ProcLess(proc[processOf[c]], proc'[processOf[c]], c, id)
               /\ StatusKept(calls[c], calls'[c])
    BY <2>1, SameLess DEF ConnTame
  <2> QED
    BY <2>2, <2>3, LessStep
<1> QED
  BY <1>1, <1>2

-----------------------------------------------------------------------------
(***************************************************************************)
(* What happens to a stack.                                                *)
(***************************************************************************)

LEMMA HasTop ==
    ASSUME NEW S, NEW st \in Seq(S), st # <<>>, NEW f \in S, NEW r, Topped(r, f, st), NEW C
    PROVE  /\ Has(r, C) <=> Has(Tail(st), C) \/ f \in C
           /\ Once(st, C) /\ (f \in C => Head(st) \in C) => Once(r, C)
<1>1. r = [st EXCEPT ![1] = f]
  BY DEF Topped
<1>2. /\ Range(r) = Range(Tail(st)) \cup {f}
      /\ Once(st, C) /\ (f \in C => Head(st) \in C) => Once(r, C)
  BY <1>1, HeadChanged
<1> QED
  BY <1>2 DEF Has

(* The calls of dispatchMessages() that have a request in one list.        *)
Holds(f, d, id) == Has(f.rest, EntriesFor(d, id)) \/ Has(f.back, EntriesFor(d, id))
HoldsOnce(f, d, id) ==
    /\ Once(f.rest, EntriesFor(d, id)) /\ Once(f.back, EntriesFor(d, id))
    /\ ~(Has(f.rest, EntriesFor(d, id)) /\ Has(f.back, EntriesFor(d, id)))

LEMMA Classes ==
    ASSUME NEW p, NEW d \in Mine(p), NEW id, NEW f \in Frames(p)
    PROVE  /\ f \in HoldersOf(d, id) <=> f.op = "dispatch" /\ Holds(f, d, id)
           /\ f \in TanglesOf(d, id) <=> f.op = "dispatch" /\ ~HoldsOnce(f, d, id)
           /\ f \in HandlersOf(d, id) <=> f.op = "handle" /\ f.c = d /\ f.m \in Requests(id)
           /\ f \in AnsweredOf(d, id) <=> f.op = "sync" /\ f.c = d /\ f.id = id /\ f.ok
<1>1. processOf[d] = p
  BY MineFacts
<1>2. /\ f \in DispatchFrames(p) <=> f.op = "dispatch"
      /\ f \in HandleFrames(p) <=> f.op = "handle"
      /\ f \in SyncFrames(p) <=> f.op = "sync"
  BY FrameFacts, Zenon DEF DispatchFrames, HandleFrames, SyncFrames
<1> QED
  BY <1>1, <1>2, Zenon DEF HoldersOf, TanglesOf, HandlersOf, AnsweredOf, Holds, HoldsOnce

LEMMA LessSame ==
    ASSUME NEW q, NEW t, t.stack = q.stack, t.toDispatch = q.toDispatch
    PROVE  \A d, id : ProcLess(q, t, d, id) /\ AnsweredLess(q, t, d, id)
  BY FewerSame DEF ProcLess, AnsweredLess, Listed, ListedOnce

LEMMA TameSame ==
    ASSUME NEW p, NEW q, NEW t, t.stack = q.stack, t.toDispatch = q.toDispatch
    PROVE  ProcTame(p, q, t)
  BY LessSame DEF ProcTame

LEMMA TameTwice ==
    ASSUME NEW p, NEW q, NEW u, NEW t, ProcTame(p, q, u), ProcTame(p, u, t)
    PROVE  ProcTame(p, q, t)
  BY DEF ProcTame, ProcLess, AnsweredLess, Fewer

(* A call that is neither dispatchMessages() nor a handler of a request.   *)
Plain(f) ==
    /\ f.op # "dispatch" /\ (f.op = "handle" => f.m.name # "sync") /\ (f.op = "sync" => ~f.ok)

LEMMA PlainFacts ==
    ASSUME NEW p, NEW d \in Mine(p), NEW id, NEW f \in Frames(p), Plain(f)
    PROVE  f \notin HoldersOf(d, id) /\ f \notin TanglesOf(d, id) /\ f \notin HandlersOf(d, id) /\ f \notin AnsweredOf(d, id)
<1>1. f.op = "handle" => f.m \notin Requests(id)
  BY DEF Plain, Requests
<1> QED
  BY <1>1, Classes DEF Plain

LEMMA TamePush ==
    ASSUME NEW p, NEW q \in States(p), NEW f \in Frames(p), Plain(f), NEW t, t.stack = Cons(f, q.stack),
           t.toDispatch = q.toDispatch
    PROVE  ProcTame(p, q, t)
<1>1. q.stack \in Seq(Frames(p))
  BY DEF States
<1>2. ASSUME NEW d \in Mine(p), NEW id \in Nat PROVE ProcLess(q, t, d, id) /\ AnsweredLess(q, t, d, id)
  <2>1. f \notin HoldersOf(d, id) /\ f \notin TanglesOf(d, id) /\ f \notin HandlersOf(d, id) /\ f \notin AnsweredOf(d, id)
    BY PlainFacts
  <2>2. /\ Has(t.stack, HoldersOf(d, id)) <=> Has(q.stack, HoldersOf(d, id))
        /\ Once(q.stack, HoldersOf(d, id)) => Once(t.stack, HoldersOf(d, id))
    BY <1>1, <2>1, HasCons
  <2>3. /\ Has(t.stack, TanglesOf(d, id)) <=> Has(q.stack, TanglesOf(d, id))
        /\ Has(t.stack, AnsweredOf(d, id)) <=> Has(q.stack, AnsweredOf(d, id))
    BY <1>1, <2>1, HasCons
  <2>4. /\ Has(t.stack, HandlersOf(d, id)) <=> Has(q.stack, HandlersOf(d, id))
        /\ Once(q.stack, HandlersOf(d, id)) => Once(t.stack, HandlersOf(d, id))
    BY <1>1, <2>1, HasCons
  <2> QED
    BY <2>2, <2>3, <2>4 DEF ProcLess, AnsweredLess, Listed, ListedOnce, Fewer
<1> QED
  BY <1>2 DEF ProcTame

(* A call returns. What it is to put back it has put back.                 *)
LEMMA TamePop ==
    ASSUME NEW p, NEW q \in States(p), q.stack # <<>>, NEW t, t.stack = Tail(q.stack), t.toDispatch = q.toDispatch
    PROVE  ProcTame(p, q, t)
<1>1. q.stack \in Seq(Frames(p))
  BY DEF States
<1>2. \A C : Fewer(t.stack, q.stack, C)
  BY <1>1, FewerTail
<1> QED
  BY <1>2 DEF ProcTame, ProcLess, AnsweredLess, Listed, ListedOnce, Fewer

(* The call on top goes on.                                                *)
LEMMA TameTop ==
    ASSUME NEW p, NEW q \in States(p), q.stack # <<>>, NEW f \in Frames(p), NEW t,
           Topped(t.stack, f, q.stack), t.toDispatch = q.toDispatch,
           f.op \in {"sync", "wait"}, f.op = Head(q.stack).op, f.op = "sync" => f.c = Head(q.stack).c /\ f.id = Head(q.stack).id
    PROVE  /\ \A d \in Mine(p), id \in Nat : ProcLess(q, t, d, id)
           /\ \A d \in Mine(p), id \in Nat :
                  Has(t.stack, AnsweredOf(d, id)) => Has(q.stack, AnsweredOf(d, id)) \/ f \in AnsweredOf(d, id)
           /\ (f.op = "sync" /\ f.ok => Head(q.stack).ok) => ProcTame(p, q, t)
<1> DEFINE g == Head(q.stack)
<1>1. q.stack \in Seq(Frames(p)) /\ g \in Frames(p)
  BY TailFacts DEF States
<1>2. ASSUME NEW d \in Mine(p), NEW id \in Nat
      PROVE  /\ ProcLess(q, t, d, id)
             /\ Has(t.stack, AnsweredOf(d, id)) => Has(q.stack, AnsweredOf(d, id)) \/ f \in AnsweredOf(d, id)
             /\ (f.op = "sync" /\ f.ok => Head(q.stack).ok) => AnsweredLess(q, t, d, id)
  <2>1. f \notin HoldersOf(d, id) /\ f \notin TanglesOf(d, id) /\ f \notin HandlersOf(d, id)
    BY Classes
  <2>2. (f.op = "sync" /\ f.ok => g.ok) /\ f \in AnsweredOf(d, id) => g \in AnsweredOf(d, id)
    BY <1>1, Classes
  <2>3. \A C : /\ Has(t.stack, C) <=> Has(Tail(q.stack), C) \/ f \in C
               /\ Once(q.stack, C) /\ (f \in C => g \in C) => Once(t.stack, C)
    BY <1>1, HasTop
  <2>4. \A C : Has(q.stack, C) <=> Has(Tail(q.stack), C) \/ g \in C
    BY <1>1, HasTail
  <2> HIDE DEF g
  <2>5. /\ Has(t.stack, HoldersOf(d, id)) => Has(q.stack, HoldersOf(d, id))
        /\ Has(t.stack, TanglesOf(d, id)) => Has(q.stack, TanglesOf(d, id))
        /\ Has(t.stack, HandlersOf(d, id)) => Has(q.stack, HandlersOf(d, id))
        /\ Once(q.stack, HoldersOf(d, id)) => Once(t.stack, HoldersOf(d, id))
        /\ Once(q.stack, HandlersOf(d, id)) => Once(t.stack, HandlersOf(d, id))
        /\ Has(t.stack, AnsweredOf(d, id)) => Has(q.stack, AnsweredOf(d, id)) \/ f \in AnsweredOf(d, id)
        /\ (f.op = "sync" /\ f.ok => g.ok) /\ Has(t.stack, AnsweredOf(d, id)) => Has(q.stack, AnsweredOf(d, id))
    BY <2>1, <2>2, <2>3, <2>4
  <2> QED
    BY <2>5 DEF ProcLess, AnsweredLess, Listed, ListedOnce, Fewer, g
<1> QED
  BY <1>2 DEF ProcTame

(* dispatchMessages() takes the list.                                      *)
LEMMA TameTake ==
    ASSUME NEW p, NEW q \in States(p), NEW f \in Frames(p), f.op = "dispatch", f.rest = q.toDispatch, f.back = <<>>,
           NEW t, t.stack = Cons(f, q.stack), t.toDispatch = <<>>
    PROVE  ProcTame(p, q, t)
<1>1. q.stack \in Seq(Frames(p))
  BY DEF States
<1>2. ASSUME NEW d \in Mine(p), NEW id \in Nat PROVE ProcLess(q, t, d, id) /\ AnsweredLess(q, t, d, id)
  <2>0. /\ ~Has(f.back, EntriesFor(d, id)) /\ Once(f.back, EntriesFor(d, id))
        /\ ~Has(t.toDispatch, EntriesFor(d, id)) /\ Once(t.toDispatch, EntriesFor(d, id))
    BY HasEmpty
  <2>1. /\ f \in HoldersOf(d, id) <=> Has(q.toDispatch, EntriesFor(d, id))
        /\ f \in TanglesOf(d, id) <=> ~Once(q.toDispatch, EntriesFor(d, id))
        /\ f \notin HandlersOf(d, id) /\ f \notin AnsweredOf(d, id)
    BY <2>0, Classes DEF Holds, HoldsOnce
  <2>2. /\ Has(t.stack, HoldersOf(d, id)) <=> Has(q.stack, HoldersOf(d, id)) \/ f \in HoldersOf(d, id)
        /\ Once(q.stack, HoldersOf(d, id)) /\ ~(f \in HoldersOf(d, id) /\ Has(q.stack, HoldersOf(d, id)))
               => Once(t.stack, HoldersOf(d, id))
    BY <1>1, HasCons
  <2>3. /\ Has(t.stack, TanglesOf(d, id)) <=> Has(q.stack, TanglesOf(d, id)) \/ f \in TanglesOf(d, id)
        /\ Has(t.stack, AnsweredOf(d, id)) <=> Has(q.stack, AnsweredOf(d, id))
    BY <1>1, <2>1, HasCons
  <2>4. /\ Has(t.stack, HandlersOf(d, id)) <=> Has(q.stack, HandlersOf(d, id))
        /\ Once(q.stack, HandlersOf(d, id)) => Once(t.stack, HandlersOf(d, id))
    BY <1>1, <2>1, HasCons
  <2> QED
    BY <2>0, <2>1, <2>2, <2>3, <2>4 DEF ProcLess, AnsweredLess, Listed, ListedOnce, Fewer
<1> QED
  BY <1>2 DEF ProcTame

(* A turn of its loop takes out a request.                                 *)
LEMMA TurnLess ==
    ASSUME NEW p, NEW q \in States(p), q.stack # <<>>, NEW g, g = Head(q.stack), g \in DispatchFrames(p), g.rest # <<>>,
           NEW f \in DispatchFrames(p), f.rest = Tail(g.rest), f.back = g.back,
           NEW u, Topped(u.stack, f, q.stack), u.toDispatch = q.toDispatch
    PROVE  /\ ProcTame(p, q, u)
           /\ \A d \in Mine(p), id \in Nat :
                  Head(g.rest) \in EntriesFor(d, id) => Listed(q, d, id) /\ (ListedOnce(q, d, id) => ~Listed(u, d, id))
<1>1. q.stack \in Seq(Frames(p)) /\ g \in Frames(p) /\ f \in Frames(p) /\ f.op = "dispatch" /\ g.op = "dispatch"
  BY Zenon DEF States, Frames, DispatchFrames
<1>2. g.rest \in Seq(Entries(p))
  BY Zenon DEF DispatchFrames
<1>3. ASSUME NEW d \in Mine(p), NEW id \in Nat
      PROVE  /\ ProcLess(q, u, d, id) /\ AnsweredLess(q, u, d, id)
             /\ Head(g.rest) \in EntriesFor(d, id) => Listed(q, d, id) /\ (ListedOnce(q, d, id) => ~Listed(u, d, id))
  <2>1. /\ Has(g.rest, EntriesFor(d, id)) <=> Has(f.rest, EntriesFor(d, id)) \/ Head(g.rest) \in EntriesFor(d, id)
        /\ Once(g.rest, EntriesFor(d, id)) =>
               /\ Once(f.rest, EntriesFor(d, id))
               /\ ~(Head(g.rest) \in EntriesFor(d, id) /\ Has(f.rest, EntriesFor(d, id)))
    BY <1>2, HasTail
  <2>2. /\ f \in HoldersOf(d, id) => g \in HoldersOf(d, id)
        /\ f \in TanglesOf(d, id) => g \in TanglesOf(d, id)
        /\ Head(g.rest) \in EntriesFor(d, id) =>
               g \in HoldersOf(d, id) /\ (g \notin TanglesOf(d, id) => f \notin HoldersOf(d, id))
        /\ f \notin HandlersOf(d, id) /\ f \notin AnsweredOf(d, id)
    BY <1>1, <2>1, Classes DEF Holds, HoldsOnce
  <2>3. \A C : /\ Has(u.stack, C) <=> Has(Tail(q.stack), C) \/ f \in C
               /\ Once(q.stack, C) /\ (f \in C => g \in C) => Once(u.stack, C)
    BY <1>1, HasTop
  <2>4. \A C : /\ Has(q.stack, C) <=> Has(Tail(q.stack), C) \/ g \in C
               /\ Once(q.stack, C) => ~(g \in C /\ Has(Tail(q.stack), C))
    BY <1>1, HasTail
  <2>5. /\ Has(u.stack, HoldersOf(d, id)) => Has(q.stack, HoldersOf(d, id))
        /\ Has(u.stack, TanglesOf(d, id)) => Has(q.stack, TanglesOf(d, id))
        /\ Has(u.stack, HandlersOf(d, id)) => Has(q.stack, HandlersOf(d, id))
        /\ Has(u.stack, AnsweredOf(d, id)) => Has(q.stack, AnsweredOf(d, id))
        /\ Once(q.stack, HoldersOf(d, id)) => Once(u.stack, HoldersOf(d, id))
        /\ Once(q.stack, HandlersOf(d, id)) => Once(u.stack, HandlersOf(d, id))
        /\ Head(g.rest) \in EntriesFor(d, id) =>
               /\ Has(q.stack, HoldersOf(d, id))
               /\ ~Has(q.stack, TanglesOf(d, id)) /\ Once(q.stack, HoldersOf(d, id)) => ~Has(u.stack, HoldersOf(d, id))
    BY <2>2, <2>3, <2>4
  <2> QED
    BY <2>5 DEF ProcLess, AnsweredLess, Listed, ListedOnce, Fewer
<1> QED
  BY <1>3 DEF ProcTame

(* The other way: the request goes to those that are put back.             *)
LEMMA TameBack ==
    ASSUME NEW p, NEW q \in States(p), q.stack # <<>>, NEW g, g = Head(q.stack), g \in DispatchFrames(p), g.rest # <<>>,
           NEW f \in DispatchFrames(p), f.rest = Tail(g.rest), f.back = Append(g.back, Head(g.rest)),
           NEW u, Topped(u.stack, f, q.stack), u.toDispatch = q.toDispatch
    PROVE  ProcTame(p, q, u)
<1>1. q.stack \in Seq(Frames(p)) /\ g \in Frames(p) /\ f \in Frames(p) /\ f.op = "dispatch" /\ g.op = "dispatch"
  BY Zenon DEF States, Frames, DispatchFrames
<1>2. g.rest \in Seq(Entries(p)) /\ g.back \in Seq(Entries(p)) /\ Head(g.rest) \in Entries(p)
  BY TailFacts, Zenon DEF DispatchFrames
<1>3. ASSUME NEW d \in Mine(p), NEW id \in Nat PROVE ProcLess(q, u, d, id) /\ AnsweredLess(q, u, d, id)
  <2>1. /\ Has(g.rest, EntriesFor(d, id)) <=> Has(f.rest, EntriesFor(d, id)) \/ Head(g.rest) \in EntriesFor(d, id)
        /\ Once(g.rest, EntriesFor(d, id)) =>
               /\ Once(f.rest, EntriesFor(d, id))
               /\ ~(Head(g.rest) \in EntriesFor(d, id) /\ Has(f.rest, EntriesFor(d, id)))
    BY <1>2, HasTail
  <2>a. /\ Has(f.back, EntriesFor(d, id)) <=> Has(g.back, EntriesFor(d, id)) \/ Head(g.rest) \in EntriesFor(d, id)
        /\ Once(g.back, EntriesFor(d, id)) /\ ~(Head(g.rest) \in EntriesFor(d, id) /\ Has(g.back, EntriesFor(d, id)))
               => Once(f.back, EntriesFor(d, id))
    BY <1>2, HasAppend
  <2>2. /\ f \in HoldersOf(d, id) => g \in HoldersOf(d, id)
        /\ f \in TanglesOf(d, id) => g \in TanglesOf(d, id)
        /\ f \notin HandlersOf(d, id) /\ f \notin AnsweredOf(d, id)
    BY <1>1, <2>1, <2>a, Classes DEF Holds, HoldsOnce
  <2>3. \A C : /\ Has(u.stack, C) <=> Has(Tail(q.stack), C) \/ f \in C
               /\ Once(q.stack, C) /\ (f \in C => g \in C) => Once(u.stack, C)
    BY <1>1, HasTop
  <2>4. \A C : Has(q.stack, C) <=> Has(Tail(q.stack), C) \/ g \in C
    BY <1>1, HasTail
  <2>5. /\ Has(u.stack, HoldersOf(d, id)) => Has(q.stack, HoldersOf(d, id))
        /\ Has(u.stack, TanglesOf(d, id)) => Has(q.stack, TanglesOf(d, id))
        /\ Has(u.stack, HandlersOf(d, id)) => Has(q.stack, HandlersOf(d, id))
        /\ Has(u.stack, AnsweredOf(d, id)) => Has(q.stack, AnsweredOf(d, id))
        /\ Once(q.stack, HoldersOf(d, id)) => Once(u.stack, HoldersOf(d, id))
        /\ Once(q.stack, HandlersOf(d, id)) => Once(u.stack, HandlersOf(d, id))
    BY <2>2, <2>3, <2>4
  <2> QED
    BY <2>5 DEF ProcLess, AnsweredLess, Listed, ListedOnce, Fewer
<1> QED
  BY <1>3 DEF ProcTame

(* The end of dispatchMessages().                                          *)
LEMMA TameEnd ==
    ASSUME NEW p, NEW q \in States(p), q.stack # <<>>, NEW g, g = Head(q.stack), g \in DispatchFrames(p),
           NEW t, t.stack = Tail(q.stack), t.toDispatch = q.toDispatch \o g.back
    PROVE  ProcTame(p, q, t)
<1>1. q.stack \in Seq(Frames(p)) /\ g \in Frames(p) /\ g.op = "dispatch"
  BY Zenon DEF States, Frames, DispatchFrames
<1>2. g.back \in Seq(Entries(p)) /\ q.toDispatch \in Seq(Entries(p))
  BY Zenon DEF DispatchFrames, States
<1>3. ASSUME NEW d \in Mine(p), NEW id \in Nat PROVE ProcLess(q, t, d, id) /\ AnsweredLess(q, t, d, id)
  <2>1. /\ Has(t.toDispatch, EntriesFor(d, id)) <=> Has(q.toDispatch, EntriesFor(d, id)) \/ Has(g.back, EntriesFor(d, id))
        /\ Once(q.toDispatch, EntriesFor(d, id)) /\ Once(g.back, EntriesFor(d, id))
           /\ ~(Has(q.toDispatch, EntriesFor(d, id)) /\ Has(g.back, EntriesFor(d, id)))
               => Once(t.toDispatch, EntriesFor(d, id))
    BY <1>2, HasConcat
  <2>2. /\ Has(g.back, EntriesFor(d, id)) => g \in HoldersOf(d, id)
        /\ g \notin TanglesOf(d, id) => Once(g.back, EntriesFor(d, id))
    BY <1>1, Classes DEF Holds, HoldsOnce
  <2>3. \A C : /\ Has(q.stack, C) <=> Has(t.stack, C) \/ g \in C
               /\ Once(q.stack, C) => Once(t.stack, C) /\ ~(g \in C /\ Has(t.stack, C))
    BY <1>1, HasTail
  <2>4. /\ Has(q.stack, HoldersOf(d, id)) <=> Has(t.stack, HoldersOf(d, id)) \/ g \in HoldersOf(d, id)
        /\ Has(q.stack, TanglesOf(d, id)) <=> Has(t.stack, TanglesOf(d, id)) \/ g \in TanglesOf(d, id)
        /\ Has(t.stack, HandlersOf(d, id)) => Has(q.stack, HandlersOf(d, id))
        /\ Has(t.stack, AnsweredOf(d, id)) => Has(q.stack, AnsweredOf(d, id))
        /\ Once(q.stack, HoldersOf(d, id)) =>
               Once(t.stack, HoldersOf(d, id)) /\ ~(g \in HoldersOf(d, id) /\ Has(t.stack, HoldersOf(d, id)))
        /\ Once(q.stack, HandlersOf(d, id)) => Once(t.stack, HandlersOf(d, id))
    BY <2>3
  <2> QED
    BY <2>1, <2>2, <2>4 DEF ProcLess, AnsweredLess, Listed, ListedOnce, Fewer
<1> QED
  BY <1>3 DEF ProcTame

(***************************************************************************)
(* The steps that move no request and no reply.                            *)
(***************************************************************************)

LEMMA TameConn ==
    ASSUME NEW k, NEW j, j.pending = k.pending, j.secondary = k.secondary, j.lastID = k.lastID,
           \A id \in Nat : Fewer(j.outgoing, k.outgoing, Requests(id)) /\ Fewer(j.outgoing, k.outgoing, Replies(id)),
           \A id \in Nat : Fewer(j.incoming, k.incoming, Requests(id)), DecoderInv(k) => DecoderInv(j)
    PROVE  ConnTame(k, j)
<1>1. \A id \in Nat : Replied(j, id) <=> Replied(k, id)
  BY DEF Replied
<1>2. \A id \in Nat : IsPending(j, id) <=> IsPending(k, id)
  BY DEF IsPending
<1> QED
  BY <1>1, <1>2 DEF ConnTame, ConnLess, StillPending

LEMMA TameAlike ==
    ASSUME NEW k, NEW j, j.pending = k.pending, j.secondary = k.secondary, j.lastID = k.lastID,
           j.outgoing = k.outgoing, j.incoming = k.incoming, DecoderInv(k) => DecoderInv(j)
    PROVE  ConnTame(k, j)
  BY TameConn, FewerSame

LEMMA SameDecoder ==
    ASSUME NEW k, NEW j, j.waiting = k.waiting
    PROVE  DecoderInv(k) <=> DecoderInv(j)
  BY DEF DecoderInv

(* Only a synchronous message is a request, only a reply is a reply.       *)
LEMMA FewerPlain ==
    ASSUME NEW s \in Seq(Message), NEW m \in Message, m.name \in Names, NEW id
    PROVE  Fewer(Append(s, m), s, Requests(id)) /\ Fewer(Append(s, m), s, Replies(id))
<1>1. m \notin Requests(id) /\ m \notin Replies(id)
  BY BoundsAssumption DEF Requests, Replies
<1> QED
  BY <1>1, HasAppend DEF Fewer

LEMMA TameMay ==
    ASSUME Inv, NEW c \in Endpoints, NEW op, May(c, op), NEW t, t = Spend(proc[processOf[c]])
    PROVE  ProcTame(processOf[c], proc[processOf[c]], t) /\ proc[processOf[c]].alive
<1>1. t.stack = proc[processOf[c]].stack /\ t.toDispatch = proc[processOf[c]].toDispatch
  BY MayFacts
<1> QED
  BY <1>1, TameSame DEF May

LEMMA DieCalls ==
    ASSUME Inv, CallsInv, NEW p \in Processes, Die(p),
           \A c \in Endpoints : /\ StatusKept(calls[c], calls'[c]) /\ calls'[c] \in Seq(Promise!Call)
                                /\ processOf[c] # p => calls'[c] = calls[c]
    PROVE  CallsInv'
<1>1. ASSUME NEW c \in Endpoints
      PROVE  /\ ConnLess(conn[c], conn'[c]) /\ SocketLess(socket[c], socket'[c])
             /\ \A id \in Nat : ProcLess(proc[processOf[c]], proc'[processOf[c]], c, id)
             /\ StatusKept(calls[c], calls'[c]) /\ CallersOK(c)'
  <2>1. processOf[c] \in Processes /\ conn[c] \in Connections /\ proc[processOf[c]] \in States(processOf[c])
    BY Here
  <2>2. CASE processOf[c] # p
    <3>1. /\ conn'[c] = conn[c] /\ socket'[c] = socket[c] /\ calls'[c] = calls[c]
          /\ proc'[processOf[c]] = proc[processOf[c]]
      BY <2>1, <2>2, Zenon DEF Die, Inv, TypeInv
    <3>2. CallersOK(c)
      BY CallsParts
    <3>3. CallersOK(c)'
      BY <3>1, <3>2 DEF CallersOK
    <3>4. ConnLess(conn[c], conn'[c])
      BY <3>1, SameLess DEF ConnTame
    <3> QED
      BY <3>1, <3>3, <3>4, SameLess
  <2>3. CASE processOf[c] = p
    <3> DEFINE t == proc'[p]
               j == conn'[c]
    <3>1. t = DeadProcess(proc[p]) /\ j = DeadConnection(conn[c]) /\ socket'[c] = <<>>
      BY <2>1, <2>3, Zenon DEF Die, Inv, TypeInv, DeadProcess, DeadConnection
    <3>2. t.stack = <<>> /\ t.toDispatch = <<>> /\ ~t.alive
      BY <2>1, <2>3, <3>1, DeadFacts
    <3>3. j.pending = <<>> /\ j.secondary = {} /\ j.waiting = None /\ j.outgoing = <<>> /\ j.incoming = <<>> /\ j.lastID = 0
      BY <2>1, <3>1, DeadFacts
    <3> HIDE DEF t, j
    <3>4. \A id : ~Replied(j, id) /\ ~IsPending(j, id)
      BY <3>3, EmptyFacts DEF Replied, IsPending
    <3>5. ConnLess(conn[c], j)
      BY <3>3, <3>4, FewerEmpty DEF ConnLess, DecoderInv
    <3>6. SocketLess(socket[c], socket'[c])
      BY <3>1, FewerEmpty DEF SocketLess
    <3>7. \A id \in Nat : ProcLess(proc[p], t, c, id)
      BY <3>2, HasEmpty, FewerEmpty DEF ProcLess, Listed, ListedOnce
    <3>8. CountInv(j, t, calls'[c])
      <4>1. calls'[c] \in Seq(Promise!Call)
        OBVIOUS
      <4>2. Len(calls'[c]) \in Nat
        BY <4>1, LenProperties
      <4> QED
        BY <3>2, <3>3, <4>1, <4>2 DEF CountInv
    <3>9. \A id \in Nat : CallerInv(j, t, c, calls'[c], id)
      BY <3>2, <3>4, HasEmpty DEF CallerInv
    <3>10. CallersOK(c)'
      BY <2>3, <3>8, <3>9 DEF CallersOK, t, j
    <3> QED
      BY <2>3, <3>5, <3>6, <3>7, <3>10 DEF t, j
  <2> QED
    BY <2>2, <2>3
<1> QED
  BY <1>1, LessStep

LEMMA CrashCalls ==
    ASSUME Inv, CallsInv, NEW p \in Processes, Crash(p)
    PROVE  CallsInv'
<1>1. ASSUME NEW c \in Endpoints
      PROVE  StatusKept(calls[c], calls'[c]) /\ calls'[c] \in Seq(Promise!Call) /\ calls'[c] = calls[c]
  <2>1. calls'[c] = calls[c]
    BY DEF Crash
  <2>2. calls[c] \in Seq(Promise!Call)
    BY DEF CallsInv, CountInv
  <2> QED
    BY <2>1, <2>2, SameLess
<1> QED
  BY <1>1, DieCalls DEF Crash

LEMMA SendCalls ==
    ASSUME Inv, CallsInv, NEW c \in Endpoints, NEW name \in Names, NEW flag \in BOOLEAN, Send(c, name, flag)
    PROVE  CallsInv'
<1> DEFINE k == conn[c]
           b == flag /\ Flagged(c)
           z == 0
           m == [name |-> name, flagged |-> b, id |-> z, number |-> k.sent + 1]
           j == SendMessage(k, name, b, z)
           t == Spend(proc[processOf[c]])
           op == IF flag THEN "sendFlagged" ELSE "send"
<1>1. /\ May(c, op) /\ conn' = [conn EXCEPT ![c] = j] /\ proc' = [proc EXCEPT ![processOf[c]] = t] /\ calls' = calls
      /\ UNCHANGED socket
  BY DEF Send, MainMay, Inv, TypeInv
<1>2. b \in BOOLEAN /\ z \in Nat /\ k \in Connections /\ name \in Names \cup {"sync", "SyncMessageReply"}
      /\ j = SendMessage(k, name, b, z) /\ t = Spend(proc[processOf[c]])
  BY Here DEF Flagged, InFlaggedMessage
<1>3. m.name \in Names
  OBVIOUS
<1> HIDE DEF b, z, k, j, t, op
<1>4. j.incoming = k.incoming /\ Alike(k, j) /\ j.outgoing = Append(k.outgoing, m) /\ m \in Message
  BY <1>2, SendEffect
<1>5. k.outgoing \in Seq(Message)
  BY <1>2 DEF Connections
<1> HIDE DEF m
<1>6. ConnTame(k, j)
  BY <1>3, <1>4, <1>5, FewerPlain, FewerSame, SameDecoder, TameConn DEF Alike
<1>7. ProcTame(processOf[c], proc[processOf[c]], t) /\ proc[processOf[c]].alive
  BY <1>1, <1>2, TameMay
<1> QED
  BY <1>1, <1>6, <1>7, SocketsSame, TameStep DEF k

LEMMA InvalidateCalls ==
    ASSUME Inv, CallsInv, NEW c \in Endpoints, Invalidate(c) \/ PostConnectionDidClose(c)
    PROVE  CallsInv'
<1> DEFINE k == conn[c]
           j == conn'[c]
           t == Spend(proc[processOf[c]])
<1>1. /\ \E op : May(c, op)
      /\ conn' = [conn EXCEPT ![c] = j] /\ proc' = [proc EXCEPT ![processOf[c]] = t] /\ calls' = calls
      /\ UNCHANGED socket
  BY DEF Invalidate, PostConnectionDidClose, MainMay, Inv, TypeInv
<1>2. /\ j.pending = k.pending /\ j.secondary = k.secondary /\ j.lastID = k.lastID
      /\ j.outgoing = k.outgoing /\ j.incoming = k.incoming /\ j.waiting = k.waiting
  BY Here DEF Invalidate, PostConnectionDidClose, Inv, TypeInv, Connections
<1>3. t = Spend(proc[processOf[c]])
  OBVIOUS
<1> HIDE DEF k, j, t
<1>4. ConnTame(k, j)
  BY <1>2, SameDecoder, TameAlike
<1>5. ProcTame(processOf[c], proc[processOf[c]], t) /\ proc[processOf[c]].alive
  BY <1>1, <1>3, TameMay
<1> QED
  BY <1>1, <1>4, <1>5, SocketsSame, TameStep DEF k

LEMMA TameGoes ==
    ASSUME NEW p, NEW q \in States(p), q.stack # <<>>, NEW at, CanGo(Head(q.stack), at), NEW u, u = GoOn(q, at),
           NEW t, t.stack = u.stack, t.toDispatch = q.toDispatch
    PROVE  ProcTame(p, q, t) /\ u \in States(p) /\ SameButStack(q, u)
<1> DEFINE f == Head(u.stack)
<1>1. Goes(p, q, u, at) /\ SameButStack(q, u)
  BY GoesOn
<1>2. /\ f \in Frames(p) /\ Topped(t.stack, f, q.stack) /\ f.op = Head(q.stack).op /\ f.c = Head(q.stack).c
      /\ f.op = "sync" => f.id = Head(q.stack).id /\ f.ok = Head(q.stack).ok
  BY <1>1 DEF Goes
<1>3. f.op \in {"sync", "wait"}
  BY <1>2 DEF CanGo
<1> HIDE DEF f
<1>4. ProcTame(p, q, t)
  BY <1>2, <1>3, TameTop
<1> QED
  BY <1>1, <1>4 DEF Goes

LEMMA TameMove ==
    ASSUME Inv, CallsInv, NEW p \in Processes, proc[p].stack # <<>>, NEW at, CanGo(Head(proc[p].stack), at),
           NEW t, t = GoOn(proc[p], at), UNCHANGED <<conn, socket, calls>>, proc' = [proc EXCEPT ![p] = t]
    PROVE  CallsInv'
<1>1. proc[p] \in States(p)
  BY There
<1>2. SameButStack(proc[p], t)
  BY <1>1, GoesOn
<1>3. t.alive = proc[p].alive /\ t.toDispatch = proc[p].toDispatch
  BY <1>2 DEF SameButStack
<1>4. ProcTame(p, proc[p], t)
  BY <1>1, <1>3, TameGoes
<1> QED
  BY <1>3, <1>4, TameProcess

LEMMA TamePopped ==
    ASSUME NEW p, NEW q \in States(p), q.stack # <<>>, NEW t, t = Pop(q)
    PROVE  t \in States(p) /\ ProcTame(p, q, t) /\ t.alive = q.alive /\ t.toDispatch = q.toDispatch
<1>1. t \in States(p) /\ t.stack = Tail(q.stack) /\ SameButStack(q, t)
  BY PopEffect
<1>2. t.alive = q.alive /\ t.toDispatch = q.toDispatch
  BY <1>1 DEF SameButStack
<1> QED
  BY <1>1, <1>2, TamePop

LEMMA TamePushed ==
    ASSUME NEW p, NEW q \in States(p), NEW f \in Frames(p), Plain(f), NEW t, t = Push(q, f)
    PROVE  t \in States(p) /\ ProcTame(p, q, t) /\ t.alive = q.alive
<1>1. t \in States(p) /\ t.stack = Cons(f, q.stack) /\ SameButStack(q, t)
  BY PushEffect
<1>2. t.alive = q.alive /\ t.toDispatch = q.toDispatch
  BY <1>1 DEF SameButStack
<1> QED
  BY <1>1, <1>2, TamePush

LEMMA TameHandler ==
    ASSUME NEW p, NEW c \in Mine(p), NEW m \in Message, m.name # "sync", NEW q \in States(p),
           NEW t, t = Push(q, Handler(c, m))
    PROVE  t \in States(p) /\ ProcTame(p, q, t) /\ t.alive = q.alive
<1> DEFINE f == Handler(c, m)
<1>1. f \in HandleFrames(p) /\ f.op = "handle" /\ f.m = m
  BY Zenon DEF HandleFrames, Handler
<1>2. f \in Frames(p) /\ Plain(f) /\ t = Push(q, f)
  BY <1>1 DEF Frames, Plain
<1> HIDE DEF f
<1> QED
  BY <1>2, TamePushed

LEMMA SyncDispatchCalls ==
    ASSUME Inv, CallsInv, NEW p \in Processes, SyncDispatch(p)
    PROVE  CallsInv'
<1> DEFINE q == proc[p]
           a == "check"
           u == GoOn(q, a)
           n == None
           t == DispatchMessages(u, n)
           f == DispatchFrame(n, u.toDispatch)
<1>1. q.stack # <<>> /\ Head(q.stack).op = "sync"
  BY AtFacts DEF SyncDispatch
<1>2. (proc' = [proc EXCEPT ![p] = u] \/ proc' = [proc EXCEPT ![p] = t]) /\ UNCHANGED <<conn, socket, calls>>
  BY DEF SyncDispatch
<1>3. CanGo(Head(q.stack), a) /\ u = GoOn(q, a)
  BY <1>1 DEF CanGo, SyncPlaces
<1>4. n \in Mine(p) \cup {None} /\ t = DispatchMessages(u, n) /\ f = DispatchFrame(n, u.toDispatch) /\ q \in States(p)
  BY There
<1> HIDE DEF a, u, n, t, f
<1>5. CASE proc' = [proc EXCEPT ![p] = u]
  BY <1>1, <1>2, <1>3, <1>5, TameMove
<1>6. CASE proc' = [proc EXCEPT ![p] = t]
  <2>1. SameButStack(q, u)
    BY <1>1, <1>3, <1>4, GoesOn
  <2>2. u.toDispatch = q.toDispatch /\ u.alive = q.alive
    BY <2>1 DEF SameButStack
  <2>3. ProcTame(p, q, u) /\ u \in States(p)
    BY <1>1, <1>3, <1>4, <2>2, TameGoes
  <2>4. /\ f \in Frames(p) /\ f.op = "dispatch" /\ t.stack = Cons(f, u.stack) /\ f.rest = u.toDispatch
        /\ f.back = <<>> /\ t.toDispatch = <<>> /\ t.alive = u.alive
    BY <1>4, <2>3, DispatchEffect
  <2>5. ProcTame(p, u, t)
    BY <2>3, <2>4, TameTake
  <2>6. ProcTame(p, q, t)
    BY <2>3, <2>5, TameTwice
  <2> QED
    BY <1>2, <1>6, <2>2, <2>4, <2>6, TameProcess
<1> QED
  BY <1>2, <1>5, <1>6

LEMMA SyncWakesCalls ==
    ASSUME Inv, CallsInv, NEW p \in Processes, SyncWakes(p)
    PROVE  CallsInv'
<1> DEFINE q == proc[p]
           a == "dispatch"
           u == GoOn(q, a)
           t == [u EXCEPT !.semaphore = FALSE]
<1>1. q.stack # <<>> /\ Head(q.stack).op = "sync" /\ q \in States(p)
  BY AtFacts, There DEF SyncWakes
<1>2. proc' = [proc EXCEPT ![p] = t] /\ UNCHANGED <<conn, socket, calls>>
  BY DEF SyncWakes
<1>3. CanGo(Head(q.stack), a) /\ u = GoOn(q, a)
  BY <1>1 DEF CanGo, SyncPlaces
<1> HIDE DEF a, u
<1>4. Goes(p, q, u, a) /\ SameButStack(q, u)
  BY <1>1, <1>3, GoesOn
<1>5. t.stack = u.stack /\ t.toDispatch = q.toDispatch /\ t.alive = q.alive
  BY <1>4 DEF States, Goes, SameButStack
<1> HIDE DEF t
<1>6. ProcTame(p, q, t)
  BY <1>1, <1>3, <1>5, TameGoes
<1> QED
  BY <1>2, <1>5, <1>6, TameProcess

LEMMA SyncTimesOutCalls ==
    ASSUME Inv, CallsInv, NEW p \in Processes, SyncTimesOut(p)
    PROVE  CallsInv'
<1> DEFINE a == "return"
           u == GoOn(proc[p], a)
<1>1. proc[p].stack # <<>> /\ Head(proc[p].stack).op = "sync"
  BY AtFacts DEF SyncTimesOut
<1>2. /\ proc' = [proc EXCEPT ![p] = u] /\ u = GoOn(proc[p], a) /\ CanGo(Head(proc[p].stack), a)
      /\ UNCHANGED <<conn, socket, calls>>
  BY <1>1 DEF SyncTimesOut, CanGo, SyncPlaces
<1> HIDE DEF a, u
<1> QED
  BY <1>1, <1>2, TameMove

(* The reply that sendSyncMessage() finds comes from a finished handler.   *)
LEMMA WithOkTop ==
    ASSUME NEW p, NEW u \in States(p), u.stack # <<>>, Head(u.stack).op = "sync", NEW b \in BOOLEAN, NEW t, t = WithOk(u, b)
    PROVE  /\ \E f \in SyncFrames(p) : /\ Topped(t.stack, f, u.stack) /\ f.op = "sync" /\ f.c = Head(u.stack).c
                                      /\ f.id = Head(u.stack).id /\ f.ok = b
           /\ t.toDispatch = u.toDispatch /\ t.alive = u.alive
<1> DEFINE g == u.stack[1]
           f == [g EXCEPT !.ok = b]
<1>1. u.stack \in Seq(Frames(p)) /\ 1 \in DOMAIN u.stack /\ Head(u.stack) = g
  BY TailPlaces DEF States
<1>2. g \in SyncFrames(p)
  BY <1>1, TailFacts, FrameFacts
<1>3. f \in SyncFrames(p) /\ f.op = "sync" /\ f.c = g.c /\ f.id = g.id /\ f.ok = b
  BY <1>2 DEF SyncFrames
<1>4. t = [u EXCEPT !.stack = [u.stack EXCEPT ![1] = f]]
  BY <1>1 DEF WithOk, States
<1> HIDE DEF f
<1>5. t.stack = [u.stack EXCEPT ![1] = f] /\ t.toDispatch = u.toDispatch /\ t.alive = u.alive
  BY <1>4 DEF States
<1> QED
  BY <1>1, <1>3, <1>5 DEF Topped

LEMMA AnsweredStep ==
    ASSUME Inv, CallsInv, NEW p \in Processes, NEW t,
           UNCHANGED <<conn, socket, calls>>, proc' = [proc EXCEPT ![p] = t], t.alive => proc[p].alive,
           \A d \in Mine(p), id \in Nat :
               ProcLess(proc[p], t, d, id) /\ (Has(t.stack, AnsweredOf(d, id)) => Status(calls[d], id) = "done")
    PROVE  CallsInv'
<1>1. ASSUME NEW c \in Endpoints
      PROVE  /\ ConnLess(conn[c], conn'[c]) /\ SocketLess(socket[c], socket'[c])
             /\ \A id \in Nat : ProcLess(proc[processOf[c]], proc'[processOf[c]], c, id)
             /\ StatusKept(calls[c], calls'[c]) /\ CallersOK(c)'
  <2>1. conn'[c] = conn[c] /\ socket'[c] = socket[c] /\ calls'[c] = calls[c]
    OBVIOUS
  <2>2. ConnLess(conn[c], conn'[c]) /\ SocketLess(socket[c], socket'[c]) /\ StatusKept(calls[c], calls'[c])
    BY <2>1, SameLess DEF ConnTame
  <2>3. CallersOK(c)
    BY CallsParts
  <2>4. CASE processOf[c] # p
    <3>1. proc'[processOf[c]] = proc[processOf[c]]
      BY <2>4, Here DEF Inv, TypeInv
    <3>2. CallersOK(c)'
      BY <2>1, <2>3, <3>1 DEF CallersOK
    <3> QED
      BY <2>2, <3>1, <3>2, SameLess
  <2>5. CASE processOf[c] = p
    <3>1. proc'[processOf[c]] = t /\ c \in Mine(p)
      BY <2>5, MineFacts DEF Inv, TypeInv
    <3>2. CountInv(conn[c], t, calls[c])
      BY <2>3, <2>5 DEF CallersOK, CountInv
    <3>3. \A id \in Nat : CallerInv(conn[c], t, c, calls[c], id)
      BY <2>3, <3>1 DEF CallersOK, CallerInv
    <3>4. CallersOK(c)'
      BY <2>1, <3>1, <3>2, <3>3 DEF CallersOK
    <3> QED
      BY <2>2, <2>5, <3>1, <3>4
  <2> QED
    BY <2>4, <2>5
<1> QED
  BY <1>1, LessStep

LEMMA SyncCheckCalls ==
    ASSUME Inv, CallsInv, NEW p \in Processes, SyncCheck(p)
    PROVE  CallsInv'
<1> DEFINE q == proc[p]
           c == Head(q.stack).c
           reply == Last(conn[c].pending).reply
           a == "return"
           b == "wait"
           u == GoOn(q, a)
           v == GoOn(q, b)
           t == WithOk(u, reply)
<1>1. q.stack # <<>> /\ Head(q.stack).op = "sync" /\ q \in States(p) /\ Top(p) = Head(q.stack)
  BY AtFacts, There DEF SyncCheck
<1>2. /\ proc' = [proc EXCEPT ![p] = t] \/ proc' = [proc EXCEPT ![p] = v]
      /\ UNCHANGED <<conn, socket, calls>>
  BY <1>1, Zenon DEF SyncCheck, WithOk
<1>3. CanGo(Head(q.stack), a) /\ u = GoOn(q, a) /\ CanGo(Head(q.stack), b) /\ v = GoOn(q, b) /\ t = WithOk(u, reply)
  BY <1>1 DEF CanGo, SyncPlaces
<1>4. c \in Mine(p) /\ c \in Endpoints /\ conn[c] \in Connections /\ LocalInv(conn[c], q, c)
  BY <1>1, TopConnection
<1>5. /\ conn[c].pending # <<>> /\ Len(conn[c].pending) \in DOMAIN conn[c].pending
      /\ Last(conn[c].pending) = conn[c].pending[Len(conn[c].pending)]
      /\ Last(conn[c].pending).id = Head(q.stack).id /\ Last(conn[c].pending) \in PendingReplies
  <2> DEFINE st == q.stack
             pending == conn[c].pending
  <2>1. st \in Seq(Frames(p)) /\ pending \in Seq(PendingReplies) /\ Matches(pending, st, c) /\ IsSync(Head(st), c)
    BY <1>1, <1>4, ZenonT(30) DEF States, Connections, LocalInv, IsSync
  <2> HIDE DEF st, pending, c
  <2> QED
    BY <1>1, <2>1, TopCall DEF st, pending
<1>6. reply \in BOOLEAN
  BY <1>5 DEF PendingReplies
<1> HIDE DEF a, b, u, v, t
<1>7. CASE proc' = [proc EXCEPT ![p] = v]
  BY <1>1, <1>2, <1>3, <1>7, TameMove
<1>8. CASE proc' = [proc EXCEPT ![p] = t]
  <2>1. Goes(p, q, u, a) /\ SameButStack(q, u)
    BY <1>1, <1>3, GoesOn
  <2>2. u.toDispatch = q.toDispatch /\ u.alive = q.alive /\ u \in States(p) /\ u.stack # <<>>
        /\ Head(u.stack).op = "sync" /\ Head(u.stack).c = c /\ Head(u.stack).id = Head(q.stack).id
    BY <1>1, <2>1 DEF Goes, SameButStack
  <2>3. ProcTame(p, q, u)
    BY <1>1, <1>3, <2>2, TameGoes
  <2> HIDE DEF reply
  <2>4. /\ \E f \in SyncFrames(p) : /\ Topped(t.stack, f, u.stack) /\ f.op = "sync" /\ f.c = Head(u.stack).c
                                   /\ f.id = Head(u.stack).id /\ f.ok = reply
        /\ t.toDispatch = u.toDispatch /\ t.alive = u.alive
    BY <1>3, <1>6, <2>2, WithOkTop
  <2>5. PICK f \in SyncFrames(p) : /\ Topped(t.stack, f, u.stack) /\ f.op = "sync" /\ f.c = Head(u.stack).c
                                   /\ f.id = Head(u.stack).id /\ f.ok = reply
    BY <2>4
  <2>6. f \in Frames(p) /\ f.op = Head(u.stack).op
    BY <2>2, <2>5 DEF Frames
  <2>7. \A d \in Mine(p), id \in Nat :
            /\ ProcLess(u, t, d, id)
            /\ Has(t.stack, AnsweredOf(d, id)) => Has(u.stack, AnsweredOf(d, id)) \/ f \in AnsweredOf(d, id)
    BY <2>2, <2>4, <2>5, <2>6, TameTop
  <2>8. ASSUME NEW d \in Mine(p), NEW id \in Nat
        PROVE  ProcLess(q, t, d, id) /\ (Has(t.stack, AnsweredOf(d, id)) => Status(calls[d], id) = "done")
    <3>1. ProcLess(q, t, d, id)
      BY <2>3, <2>7 DEF ProcTame, ProcLess, Fewer
    <3>2. CASE Has(u.stack, AnsweredOf(d, id))
      <4>1. Has(q.stack, AnsweredOf(d, id))
        BY <2>3, <3>2 DEF ProcTame, AnsweredLess
      <4> QED
        BY <3>1, <4>1, MineFacts DEF CallsInv, CallerInv
    <3>3. CASE f \in AnsweredOf(d, id)
      <4>1. d = c /\ id = Last(conn[c].pending).id /\ reply
        BY <1>5, <2>2, <2>5, <3>3 DEF AnsweredOf
      <4>2. Replied(conn[c], id)
        BY <1>5, <4>1, Zenon DEF Replied, reply
      <4> QED
        BY <1>4, <3>1, <4>1, <4>2, Zenon DEF CallsInv, ReplyInv
    <3> QED
      BY <2>7, <3>1, <3>2, <3>3
  <2>9. \A d \in Mine(p), id \in Nat :
            ProcLess(q, t, d, id) /\ (Has(t.stack, AnsweredOf(d, id)) => Status(calls[d], id) = "done")
    BY <2>8
  <2>10. t.alive => q.alive
    BY <2>2, <2>4
  <2> HIDE DEF c
  <2> QED
    BY <1>2, <1>8, <2>9, <2>10, AnsweredStep
<1> QED
  BY <1>2, <1>7, <1>8

LEMMA WaitForMessageCalls ==
    ASSUME Inv, CallsInv, NEW c \in Endpoints, NEW name \in Names, NEW interrupt \in BOOLEAN,
           WaitForMessage(c, name, interrupt)
    PROVE  CallsInv'
<1> DEFINE p == processOf[c]
           q == proc[p]
           k == conn[c]
           Awaited(m) == m.name = name
           i == SelectInSeq(k.incoming, Awaited)
           m == k.incoming[i]
           j == WithoutMessage(k, i)
           f == WaitFrame(c, name, interrupt)
           u == Spend(q)
           t == Push(u, f)
           v == Push(u, Handler(c, m))
           op == IF interrupt THEN "waitInterruptibly" ELSE "wait"
<1>1. MainMay(c, op) /\ UNCHANGED <<socket, calls>>
  BY DEF WaitForMessage
<1>2. \/ i > 0 /\ proc' = [proc EXCEPT ![p] = v] /\ conn' = [conn EXCEPT ![c] = j]
      \/ proc' = [proc EXCEPT ![p] = u] /\ UNCHANGED conn
      \/ proc' = [proc EXCEPT ![p] = t] /\ UNCHANGED conn
  BY DEF WaitForMessage, WaitFrame, WithoutMessage, Inv, TypeInv
<1>3. p \in Processes /\ k \in Connections /\ c \in Mine(p) /\ q \in States(p)
  BY Here, MineFacts
<1>4. i > 0 => i \in 1 .. Len(k.incoming) /\ m.name = name
  <2>1. i = IF PlacesOf(k.incoming, name) # {} THEN Min(PlacesOf(k.incoming, name)) ELSE 0
    BY DEF SelectInSeq, PlacesOf
  <2> HIDE DEF i, k
  <2> QED
    BY <2>1, SelectedPlace
<1>5. i > 0 => m \in Message /\ m.name # "sync"
  BY <1>3, <1>4, ElementOfSeq, BoundsAssumption DEF Connections
<1>6. f \in Frames(p) /\ Plain(f)
  <2>1. f \in WaitFrames(p) /\ f.op = "wait"
    BY MineFacts DEF WaitFrames, WaitFrame
  <2> QED
    BY <2>1 DEF Frames, Plain
<1>7. u = Spend(q) /\ v = Push(u, Handler(c, m)) /\ t = Push(u, f) /\ j = WithoutMessage(k, i)
  OBVIOUS
<1> HIDE DEF i, k, m, f, u, t, v, op, j
<1>8. u \in States(p) /\ ProcTame(p, q, u) /\ q.alive
  BY <1>1, <1>7, MayFacts, TameMay DEF MainMay
<1>9. CASE i > 0 /\ proc' = [proc EXCEPT ![p] = v] /\ conn' = [conn EXCEPT ![c] = j]
  <2>1. ProcTame(p, u, v)
    BY <1>3, <1>5, <1>7, <1>8, <1>9, TameHandler
  <2>2. ProcTame(p, q, v)
    BY <1>8, <2>1, TameTwice
  <2>3. Alike(k, j) /\ j.incoming = RemoveAt(k.incoming, i) /\ j.outgoing = k.outgoing
    BY <1>3, <1>4, <1>7, <1>9, WithoutMessageEffect
  <2>4. \A C : Fewer(j.incoming, k.incoming, C)
    <3>1. k.incoming \in Seq(Message) /\ i \in 1 .. Len(k.incoming)
      BY <1>3, <1>4, <1>9 DEF Connections
    <3> QED
      BY <2>3, <3>1, FewerRemoved
  <2>5. ConnTame(k, j)
    BY <2>3, <2>4, FewerSame, SameDecoder, TameConn DEF Alike
  <2> QED
    BY <1>1, <1>8, <1>9, <2>2, <2>5, SocketsSame, TameStep DEF k
<1>10. CASE proc' = [proc EXCEPT ![p] = u] /\ UNCHANGED conn
  <2> HIDE DEF p, q
  <2> QED
    BY <1>1, <1>3, <1>8, <1>10, TameProcess DEF q
<1>11. CASE proc' = [proc EXCEPT ![p] = t] /\ UNCHANGED conn
  <2>1. ProcTame(p, u, t)
    BY <1>6, <1>7, <1>8, TamePushed
  <2>2. ProcTame(p, q, t)
    BY <1>8, <2>1, TameTwice
  <2> HIDE DEF p, q
  <2> QED
    BY <1>1, <1>3, <1>8, <1>11, <2>2, TameProcess DEF q
<1> QED
  BY <1>2, <1>9, <1>10, <1>11

(* A wait changes what it waits for, and nothing else of its connection.   *)
LEMMA TameWaiting ==
    ASSUME NEW k \in Connections, NEW w \in WaitForMessageState \cup {None}, NEW j, j = WithWaiting(k, w),
           w # None /\ w.decoder # None => w.decoder.name # "sync"
    PROVE  ConnTame(k, j)
<1>1. AlikeButWaiting(k, j) /\ j.waiting = w /\ j.incoming = k.incoming /\ j.outgoing = k.outgoing
  BY WithWaitingEffect
<1>2. DecoderInv(j)
  BY <1>1 DEF DecoderInv
<1> QED
  BY <1>1, <1>2, TameAlike DEF AlikeButWaiting

LEMMA WaitTimesOutCalls ==
    ASSUME Inv, CallsInv, NEW p \in Processes, WaitTimesOut(p)
    PROVE  CallsInv'
<1> DEFINE a == "timedOut"
           u == GoOn(proc[p], a)
<1>1. proc[p].stack # <<>> /\ Head(proc[p].stack).op = "wait"
  BY AtFacts DEF WaitTimesOut
<1>2. /\ proc' = [proc EXCEPT ![p] = u] /\ u = GoOn(proc[p], a) /\ CanGo(Head(proc[p].stack), a)
      /\ UNCHANGED <<conn, socket, calls>>
  BY <1>1 DEF WaitTimesOut, CanGo, WaitPlaces
<1> HIDE DEF a, u
<1> QED
  BY <1>1, <1>2, TameMove

NewWait(f) == [name |-> f.name, interrupt |-> f.interrupt, interrupted |-> FALSE, decoder |-> None]

LEMMA WaitRegistersCalls ==
    ASSUME Inv, CallsInv, NEW p \in Processes, WaitRegisters(p)
    PROVE  CallsInv'
<1> DEFINE q == proc[p]
           f == Head(q.stack)
           c == f.c
           a == "check"
           t == GoOn(q, a)
           w == NewWait(f)
           k == conn[c]
           j == WithWaiting(k, w)
<1>1. q.stack # <<>> /\ f.op = "wait" /\ Top(p) = f /\ q \in States(p)
  BY AtFacts, There DEF WaitRegisters
<1>2. c \in Endpoints /\ processOf[c] = p /\ k \in Connections
  BY <1>1, TopConnection
<1>3. conn' = [conn EXCEPT ![c] = j] /\ proc' = [proc EXCEPT ![p] = t] /\ UNCHANGED <<socket, calls>>
  BY <1>1, <1>2 DEF WaitRegisters, WithWaiting, NewWait, Inv, TypeInv
<1>4. w \in WaitForMessageState /\ w.decoder = None
  <2>1. f \in WaitFrames(p)
    BY <1>1, TailFacts, FrameFacts DEF States
  <2> QED
    BY <2>1 DEF WaitFrames, WaitForMessageState, NewWait
<1>5. CanGo(f, a) /\ t = GoOn(q, a) /\ j = WithWaiting(k, w)
  BY <1>1 DEF CanGo, WaitPlaces
<1> HIDE DEF w, j, a, t
<1>6. ConnTame(k, j)
  <2> HIDE DEF k
  <2> QED
    BY <1>2, <1>4, <1>5, TameWaiting
<1>7. SameButStack(q, t)
  BY <1>1, <1>5, GoesOn
<1>8. t.toDispatch = q.toDispatch /\ t.alive = q.alive
  BY <1>7 DEF SameButStack
<1>9. ProcTame(p, q, t)
  BY <1>1, <1>5, <1>8, TameGoes
<1> HIDE DEF c, f
<1> QED
  BY <1>2, <1>3, <1>6, <1>8, <1>9, SocketsSame, TameStep

(* The end of a wait.                                                      *)
LEMMA TameUnwaiting ==
    ASSUME Inv, CallsInv, NEW c \in Endpoints, NEW j, j = WithWaiting(conn[c], None), NEW t,
           conn' = [conn EXCEPT ![c] = j], proc' = [proc EXCEPT ![processOf[c]] = t], UNCHANGED <<socket, calls>>,
           ProcTame(processOf[c], proc[processOf[c]], t), t.alive => proc[processOf[c]].alive
    PROVE  CallsInv'
<1> DEFINE w == None
<1>1. w = None /\ w \in WaitForMessageState \cup {None} /\ j = WithWaiting(conn[c], w) /\ conn[c] \in Connections
  BY Here
<1> HIDE DEF w
<1>2. ConnTame(conn[c], j)
  BY <1>1, TameWaiting
<1> QED
  BY <1>2, SocketsSame, TameStep

LEMMA WaitWakesCalls ==
    ASSUME Inv, CallsInv, NEW p \in Processes, WaitWakes(p)
    PROVE  CallsInv'
<1> DEFINE q == proc[p]
           c == Head(q.stack).c
           a == "check"
           u == GoOn(q, a)
           t == Pop(q)
           j == WithWaiting(conn[c], None)
<1>1. q.stack # <<>> /\ Head(q.stack).op = "wait" /\ Top(p) = Head(q.stack) /\ q \in States(p)
  BY AtFacts, There DEF WaitWakes
<1>2. c \in Endpoints /\ processOf[c] = p
  BY <1>1, TopConnection
<1>3. /\ UNCHANGED <<socket, calls>>
      /\ \/ conn' = [conn EXCEPT ![c] = j] /\ proc' = [proc EXCEPT ![p] = t]
         \/ UNCHANGED conn /\ proc' = [proc EXCEPT ![p] = u]
  BY <1>1, <1>2 DEF WaitWakes, WaitEnds, WithWaiting, Inv, TypeInv
<1>4. CanGo(Head(q.stack), a) /\ u = GoOn(q, a) /\ t = Pop(q) /\ j = WithWaiting(conn[c], None)
  BY <1>1 DEF CanGo, WaitPlaces
<1> HIDE DEF a, u, t, j
<1>5. CASE conn' = [conn EXCEPT ![c] = j] /\ proc' = [proc EXCEPT ![p] = t]
  <2>1. ProcTame(p, q, t) /\ t.alive = q.alive
    BY <1>1, <1>4, TamePopped
  <2> HIDE DEF c
  <2> QED
    BY <1>2, <1>3, <1>4, <1>5, <2>1, TameUnwaiting
<1>6. CASE UNCHANGED conn /\ proc' = [proc EXCEPT ![p] = u]
  BY <1>1, <1>3, <1>4, <1>6, TameMove
<1> QED
  BY <1>3, <1>5, <1>6

LEMMA WaitChecksCalls ==
    ASSUME Inv, CallsInv, NEW p \in Processes, WaitChecks(p)
    PROVE  CallsInv'
<1> DEFINE q == proc[p]
           c == Head(q.stack).c
           m == conn[c].waiting.decoder
           a == "asleep"
           u == GoOn(q, a)
           v == Pop(q)
           t == Push(v, Handler(c, m))
           j == WithWaiting(conn[c], None)
<1>1. q.stack # <<>> /\ Head(q.stack).op = "wait" /\ Head(q.stack).at = "check" /\ Top(p) = Head(q.stack) /\ q \in States(p)
  BY AtFacts, There DEF WaitChecks
<1>2. c \in Mine(p) /\ c \in Endpoints /\ processOf[c] = p /\ conn[c] \in Connections /\ LocalInv(conn[c], q, c)
  BY <1>1, TopConnection, SMTT(30)
<1>3. /\ UNCHANGED <<socket, calls>>
      /\ \/ UNCHANGED conn /\ proc' = [proc EXCEPT ![p] = u]
         \/ m # None /\ conn' = [conn EXCEPT ![c] = j] /\ proc' = [proc EXCEPT ![p] = t]
  BY <1>1, <1>2, SMTT(30) DEF WaitChecks, WithWaiting, Inv, TypeInv
<1>4. m \in Message \cup {None} /\ (m # None => m.name # "sync")
  <2>1. Registered(q, c)
    BY <1>1 DEF Registered
  <2>2. conn[c].waiting # None /\ conn[c].waiting \in WaitForMessageState \cup {None}
    BY <1>2, <2>1, Zenon DEF LocalInv, WaitInv, Connections
  <2>3. m \in Message \cup {None}
    BY <2>2 DEF WaitForMessageState
  <2>4. DecoderInv(conn[c])
    BY <1>2, CallsParts
  <2> QED
    BY <2>2, <2>3, <2>4 DEF DecoderInv
<1>5. CanGo(Head(q.stack), a) /\ u = GoOn(q, a)
  BY <1>1 DEF CanGo, WaitPlaces
<1>6. v = Pop(q) /\ t = Push(v, Handler(c, m)) /\ j = WithWaiting(conn[c], None)
  OBVIOUS
<1> HIDE DEF a, u, v, t, m, j
<1>7. CASE UNCHANGED conn /\ proc' = [proc EXCEPT ![p] = u]
  BY <1>1, <1>3, <1>5, <1>7, TameMove
<1>8. CASE m # None /\ conn' = [conn EXCEPT ![c] = j] /\ proc' = [proc EXCEPT ![p] = t]
  <2>1. v \in States(p) /\ ProcTame(p, q, v) /\ v.alive = q.alive
    BY <1>1, <1>6, TamePopped
  <2> HIDE DEF c
  <2>2. ProcTame(p, v, t) /\ t.alive = v.alive
    BY <1>2, <1>4, <1>6, <1>8, <2>1, TameHandler
  <2>3. ProcTame(p, q, t)
    BY <2>1, <2>2, TameTwice
  <2> QED
    BY <1>2, <1>3, <1>6, <1>8, <2>1, <2>2, <2>3, TameUnwaiting
<1> QED
  BY <1>3, <1>7, <1>8

LEMMA DidCloseCalls ==
    ASSUME Inv, CallsInv, NEW p \in Processes, DidClose(p)
    PROVE  CallsInv'
<1> DEFINE c == Head(proc[p].runLoop).c
           k == conn[c]
           j == conn'[c]
           t == Turned(p)
           op == "didClose"
<1>1. RunLoopTurn(p, op) /\ t = Turned(p) /\ proc' = [proc EXCEPT ![p] = t] /\ UNCHANGED <<socket, calls>>
  BY DEF DidClose
<1>2. c \in Mine(p) /\ t.stack = proc[p].stack /\ t.toDispatch = proc[p].toDispatch /\ t.alive
  <2> HIDE DEF t, op
  <2> QED
    BY <1>1, TurnedFacts
<1>3. c \in Endpoints /\ processOf[c] = p /\ k \in Connections
  BY <1>2, MineFacts, Here
<1>4. /\ conn' = [conn EXCEPT ![c] = j]
      /\ j.pending = k.pending /\ j.secondary = k.secondary /\ j.lastID = k.lastID
      /\ j.outgoing = k.outgoing /\ j.incoming = k.incoming /\ j.waiting = k.waiting
  BY <1>3, ZenonT(30) DEF DidClose, Inv, TypeInv, Connections
<1>5. proc[p].alive
  <2>1. ProcessInv(proc[p])
    BY There
  <2> QED
    BY <2>1 DEF ProcessInv, DidClose, RunLoopTurn
<1> HIDE DEF c, k, j, t
<1>6. ConnTame(k, j)
  BY <1>4, SameDecoder, TameAlike
<1>7. ProcTame(p, proc[p], t)
  BY <1>2, TameSame
<1> QED
  BY <1>1, <1>3, <1>4, <1>5, <1>6, <1>7, SocketsSame, TameStep DEF k

LEMMA ResetDidScheduleCalls ==
    ASSUME Inv, CallsInv, NEW p \in Processes, ResetDidSchedule(p)
    PROVE  CallsInv'
<1> DEFINE c == Head(proc[p].runLoop).c
           v == Turned(p)
           u == Unscheduled(v, c)
           f == ResetFrame(c)
           t == Push(u, f)
           op == "dispatchMessages"
<1>1. RunLoopTurn(p, op) /\ v = Turned(p) /\ UNCHANGED <<conn, socket, calls>>
  BY Zenon DEF ResetDidSchedule
<1>2. proc' = [proc EXCEPT ![p] = t]
  BY Zenon DEF ResetDidSchedule, ResetFrame, Unscheduled
<1>3. t = Push(u, f)
  OBVIOUS
<1> HIDE DEF v, t, op
<1>4. c \in Mine(p) /\ v \in States(p) /\ v.stack = proc[p].stack /\ v.toDispatch = proc[p].toDispatch /\ v.alive
  BY <1>1, TurnedFacts
<1>5. proc[p].alive
  <2>1. ProcessInv(proc[p])
    BY There
  <2> QED
    BY <1>1, <2>1 DEF ProcessInv, RunLoopTurn
<1> HIDE DEF c
<1>6. u \in States(p) /\ u.stack = proc[p].stack /\ u.toDispatch = proc[p].toDispatch
  BY <1>4 DEF Unscheduled, States
<1> HIDE DEF u
<1>7. ProcTame(p, proc[p], u)
  BY <1>6, TameSame
<1>8. f \in Frames(p) /\ Plain(f)
  BY <1>4, Zenon DEF Frames, ResetFrame, ResetFrames, Plain
<1> HIDE DEF f
<1>9. ProcTame(p, u, t)
  BY <1>3, <1>6, <1>8, TamePushed
<1>10. ProcTame(p, proc[p], t)
  BY <1>7, <1>9, TameTwice
<1> QED
  BY <1>1, <1>2, <1>5, <1>10, TameProcess

LEMMA DispatchAllowedCalls ==
    ASSUME Inv, CallsInv, NEW p \in Processes, DispatchAllowed(p)
    PROVE  CallsInv'
<1> DEFINE q == proc[p]
           c == Head(q.stack).c
           u == Pop(q)
           t == DispatchMessages(u, c)
           f == DispatchFrame(c, u.toDispatch)
<1>1. q.stack # <<>> /\ Head(q.stack).op = "dispatchMessages" /\ Top(p) = Head(q.stack) /\ q \in States(p)
  BY AtFacts, There, Zenon DEF DispatchAllowed
<1>2. proc' = [proc EXCEPT ![p] = t] /\ UNCHANGED <<conn, socket, calls>>
  BY <1>1, Zenon DEF DispatchAllowed
<1>3. c \in Mine(p) \cup {None}
  BY <1>1, TopConnection
<1>4. u = Pop(q) /\ t = DispatchMessages(u, c) /\ f = DispatchFrame(c, u.toDispatch)
  OBVIOUS
<1> HIDE DEF u, c, t, f
<1>5. u \in States(p) /\ ProcTame(p, q, u) /\ u.alive = q.alive
  BY <1>1, <1>4, TamePopped
<1>6. /\ f \in Frames(p) /\ f.op = "dispatch" /\ t.stack = Cons(f, u.stack) /\ f.rest = u.toDispatch
      /\ f.back = <<>> /\ t.toDispatch = <<>> /\ t.alive = u.alive
  BY <1>3, <1>4, <1>5, DispatchEffect
<1>7. ProcTame(p, u, t)
  BY <1>5, <1>6, TameTake
<1>8. ProcTame(p, q, t)
  BY <1>5, <1>7, TameTwice
<1> QED
  BY <1>2, <1>5, <1>6, <1>8, TameProcess

(***************************************************************************)
(* The connection's thread: what it drops, and what it tells others.       *)
(***************************************************************************)

LEMMA SocketEmptied ==
    ASSUME Inv, NEW c \in Endpoints, socket' = [socket EXCEPT ![c] = <<>>]
    PROVE  \A d \in Endpoints : SocketLess(socket[d], socket'[d])
<1> SUFFICES ASSUME NEW d \in Endpoints PROVE SocketLess(socket[d], socket'[d])
  OBVIOUS
<1>1. socket'[d] = socket[d] \/ socket'[d] = <<>>
  BY DEF Inv, TypeInv
<1> QED
  BY <1>1, SameLess, FewerEmpty DEF SocketLess

LEMMA InvalidateTaskCalls ==
    ASSUME Inv, CallsInv, NEW c \in Endpoints, InvalidateTask(c)
    PROVE  CallsInv'
<1> DEFINE k == conn[c]
           j == conn'[c]
           p == processOf[c]
           t == proc[p]
<1>1. /\ conn' = [conn EXCEPT ![c] = j] /\ socket' = [socket EXCEPT ![c] = <<>>] /\ UNCHANGED <<proc, calls>>
      /\ j.pending = k.pending /\ j.secondary = k.secondary /\ j.lastID = k.lastID
      /\ j.outgoing = k.outgoing /\ j.incoming = k.incoming /\ j.waiting = k.waiting
  BY Here DEF InvalidateTask, PlatformInvalidate, Inv, TypeInv, Connections
<1>2. proc' = proc /\ t = proc[p]
  BY <1>1
<1> HIDE DEF k, j, t
<1>3. ConnTame(k, j)
  BY <1>1, SameDecoder, TameAlike
<1> QED
  BY <1>1, <1>2, <1>3, SocketEmptied, ProcTameItself, TameStep DEF k, p

LEMMA TameStopped ==
    ASSUME NEW k \in Connections, NEW j, j = StopWaiting(k)
    PROVE  ConnTame(k, j)
<1>1. /\ j.secondary = AllSignalled(k.secondary) /\ j.pending = k.pending /\ j.lastID = k.lastID /\ j.waiting = k.waiting
  BY StoppedFacts
<1>2. j.outgoing = k.outgoing /\ j.incoming = k.incoming
  BY DEF StopWaiting, PlatformInvalidate, Connections
<1>3. \A s \in AllSignalled(k.secondary) : \E u \in k.secondary : s.id = u.id /\ s.reply = u.reply
  <2>1. \A u \in k.secondary : u \in SecondaryReplies
    BY DEF Connections
  <2>2. \A u \in k.secondary : SignalledBy(u).id = u.id /\ SignalledBy(u).reply = u.reply
    BY <2>1 DEF SignalledBy, SecondaryReplies
  <2> QED
    BY <2>2 DEF AllSignalled
<1>4. \A id \in Nat : (Replied(j, id) => Replied(k, id)) /\ (IsPending(j, id) => IsPending(k, id))
  BY <1>1, <1>3 DEF Replied, IsPending
<1>5. DecoderInv(k) <=> DecoderInv(j)
  BY <1>1, SameDecoder
<1> QED
  BY <1>1, <1>2, <1>4, <1>5, FewerSame DEF ConnTame, ConnLess, StillPending

LEMMA CloseCalls ==
    ASSUME Inv, CallsInv, NEW c \in Endpoints, NEW k \in Connections, ConnectionDidClose(c, k), ConnTame(conn[c], k)
    PROVE  CallsInv'
<1> DEFINE p == processOf[c]
           q == proc[p]
           u == Signal(q)
           j == StopWaiting(k)
<1>1. /\ conn' = [conn EXCEPT ![c] = j] /\ socket' = [socket EXCEPT ![c] = <<>>] /\ UNCHANGED calls
      /\ proc' = [proc EXCEPT ![p] = u] \/ proc' = [proc EXCEPT ![p] = q]
  BY DEF ConnectionDidClose
<1>2. p \in Processes /\ q \in States(p) /\ u = Signal(q) /\ j = StopWaiting(k)
  BY Here
<1> HIDE DEF u, j
<1>3. ConnTame(k, j)
  BY <1>2, TameStopped
<1>4. ConnTame(conn[c], j)
  BY <1>3 DEF ConnTame, ConnLess, StillPending, Fewer
<1>5. u.stack = q.stack /\ u.toDispatch = q.toDispatch /\ u.alive = q.alive
  BY <1>2, SignalEffect
<1>6. ProcTame(p, q, u) /\ ProcTame(p, q, q)
  BY <1>5, TameSame
<1>7. \A d \in Endpoints : SocketLess(socket[d], socket'[d])
  BY <1>1, SocketEmptied
<1>8. CASE proc' = [proc EXCEPT ![p] = u]
  BY <1>1, <1>4, <1>5, <1>6, <1>7, <1>8, TameStep
<1>9. CASE proc' = [proc EXCEPT ![p] = q]
  <2> DEFINE t == q
  <2>1. proc' = [proc EXCEPT ![p] = t] /\ ProcTame(p, q, t) /\ (t.alive => q.alive)
    BY <1>6, <1>9
  <2> HIDE DEF t
  <2> QED
    BY <1>1, <1>4, <1>7, <2>1, TameStep
<1> QED
  BY <1>1, <1>8, <1>9

LEMMA ClosesCalls ==
    ASSUME Inv, CallsInv, NEW c \in Endpoints, HangUp(c) \/ CloseTask(c)
    PROVE  CallsInv'
<1> DEFINE k == conn[c]
           j == WithoutTask(k)
<1>1. k \in Connections
  BY Here
<1>2. CASE HangUp(c)
  BY <1>1, <1>2, CloseCalls, ConnTameItself DEF HangUp
<1>3. CASE CloseTask(c)
  <2>1. ConnectionDidClose(c, j) /\ k.tasks # <<>> /\ j = WithoutTask(k)
    BY <1>3 DEF CloseTask, QueueTask, WithoutTask
  <2>2. j.outgoing = k.outgoing /\ j.incoming = k.incoming
    BY <1>1 DEF WithoutTask, Connections
  <2> HIDE DEF j
  <2>3. j \in Connections /\ Alike(k, j)
    BY <1>1, <2>1, WithoutTaskEffect
  <2>4. ConnTame(k, j)
    BY <2>2, <2>3, SameDecoder, TameAlike DEF Alike
  <2> QED
    BY <2>1, <2>3, <2>4, CloseCalls
<1> QED
  BY <1>2, <1>3

LEMMA TameNotify ==
    ASSUME NEW p, NEW q \in States(p), NEW c, NEW t, t = Notify(c, q)
    PROVE  ProcTame(p, q, t)
<1>1. CASE ~(q.stack # <<>> /\ Head(q.stack).op = "wait" /\ Head(q.stack).c = c /\ Head(q.stack).at = "asleep")
  <2>1. t = q
    BY <1>1 DEF Notify
  <2> QED
    BY <2>1, ProcTameItself
<1>2. CASE q.stack # <<>> /\ Head(q.stack).op = "wait" /\ Head(q.stack).c = c /\ Head(q.stack).at = "asleep"
  <2> DEFINE a == "notified"
  <2>1. t = GoOn(q, a) /\ CanGo(Head(q.stack), a)
    BY <1>2 DEF Notify, CanGo, WaitPlaces
  <2> HIDE DEF a
  <2>2. SameButStack(q, t)
    BY <1>2, <2>1, GoesOn
  <2>3. t.toDispatch = q.toDispatch
    BY <2>2 DEF SameButStack
  <2> QED
    BY <1>2, <2>1, <2>3, TameGoes
<1> QED
  BY <1>1, <1>2

LEMMA FinishCloseCalls ==
    ASSUME Inv, CallsInv, NEW c \in Endpoints, FinishClose(c)
    PROVE  CallsInv'
<1> DEFINE p == processOf[c]
           q == proc[p]
           u == Notify(c, q)
           op == "didClose"
           t == WithTask(u, op, c)
           k == conn[c]
           j == conn'[c]
<1>1. proc' = [proc EXCEPT ![p] = t] /\ q.alive /\ UNCHANGED <<socket, calls>>
  BY DEF FinishClose, WithTask, TaskOf, IsAt
<1>2. u = Notify(c, q) /\ t = WithTask(u, op, c) /\ op \in {"dispatchOneMessage", "didClose"}
  OBVIOUS
<1>3. p \in Processes /\ q \in States(p) /\ ProcessInv(q) /\ c \in Mine(p) /\ k \in Connections
  BY Here, MineFacts
<1>4. /\ conn' = [conn EXCEPT ![c] = j]
      /\ j.pending = k.pending /\ j.secondary = k.secondary /\ j.lastID = k.lastID
      /\ j.outgoing = k.outgoing /\ j.incoming = k.incoming
      /\ j.waiting = IF k.waiting = None THEN None ELSE [k.waiting EXCEPT !.interrupted = TRUE]
  BY <1>3 DEF FinishClose, Inv, TypeInv, Connections
<1>5. DecoderInv(k) => DecoderInv(j)
  <2>1. CASE k.waiting = None
    BY <1>4, <2>1 DEF DecoderInv
  <2>2. CASE k.waiting # None
    <3>1. k.waiting \in WaitForMessageState
      BY <1>3, <2>2 DEF Connections
    <3>2. j.waiting.decoder = k.waiting.decoder
      BY <1>4, <2>2, <3>1 DEF WaitForMessageState
    <3> QED
      BY <2>2, <3>2 DEF DecoderInv
  <2> QED
    BY <2>1, <2>2
<1> HIDE DEF u, t, op, k, j
<1>6. u \in States(p) /\ u.alive /\ ProcessInv(u)
  BY <1>1, <1>2, <1>3, NotifyFacts
<1>7. ProcTame(p, q, u)
  BY <1>2, <1>3, TameNotify
<1>8. t.stack = u.stack /\ t.toDispatch = u.toDispatch
  BY <1>2, <1>3, <1>6, WithTaskEffect
<1>9. ProcTame(p, u, t)
  BY <1>8, TameSame
<1>10. ProcTame(p, q, t)
  BY <1>7, <1>9, TameTwice
<1>11. ConnTame(k, j)
  BY <1>4, <1>5, TameAlike
<1> QED
  BY <1>1, <1>4, <1>10, <1>11, SocketsSame, TameStep DEF k

(***************************************************************************)
(* A part of the invariant that nothing disturbs.                          *)
(***************************************************************************)

LEMMA RequestsLess ==
    ASSUME CallsInv, NEW e \in Endpoints, NEW id \in Nat,
           Fewer(conn'[e].outgoing, conn[e].outgoing, Requests(id)),
           Fewer(socket'[peerOf[e]], socket[peerOf[e]], Requests(id)),
           Fewer(conn'[peerOf[e]].incoming, conn[peerOf[e]].incoming, Requests(id)),
           ProcLess(proc[processOf[peerOf[e]]], proc'[processOf[peerOf[e]]], peerOf[e], id),
           Status(calls'[e], id) = Status(calls[e], id) \/ Status(calls[e], id) = "unknown"
    PROVE  RequestInv(conn'[e].outgoing, socket'[peerOf[e]], conn'[peerOf[e]].incoming,
                      proc'[processOf[peerOf[e]]], Status(calls'[e], id), peerOf[e], id)
<1> DEFINE d == peerOf[e]
           a == Status(calls[e], id)
           b == Status(calls'[e], id)
<1>1. RequestInv(conn[e].outgoing, socket[d], conn[d].incoming, proc[processOf[d]], a, d, id)
  BY DEF CallsInv
<1>2. b = a \/ a = "unknown"
  OBVIOUS
<1> HIDE DEF a, b
<1>3. RequestInv(conn'[e].outgoing, socket'[d], conn'[d].incoming, proc'[processOf[d]], b, d, id)
  BY <1>1, <1>2, LessRequest
<1> QED
  BY <1>3 DEF b

LEMMA RepliesLess ==
    ASSUME CallsInv, NEW e \in Endpoints, NEW id \in Nat,
           Fewer(conn'[peerOf[e]].outgoing, conn[peerOf[e]].outgoing, Replies(id)),
           Fewer(socket'[e], socket[e], Replies(id)), Replied(conn'[e], id) => Replied(conn[e], id),
           Status(calls'[e], id) = Status(calls[e], id) \/ Status(calls[e], id) = "unknown"
    PROVE  ReplyInv(conn'[peerOf[e]].outgoing, socket'[e], conn'[e], Status(calls'[e], id), id)
<1> DEFINE d == peerOf[e]
           a == Status(calls[e], id)
           b == Status(calls'[e], id)
<1>1. ReplyInv(conn[d].outgoing, socket[e], conn[e], a, id)
  BY DEF CallsInv
<1>2. b = a \/ a = "unknown"
  OBVIOUS
<1> HIDE DEF a, b
<1>3. ReplyInv(conn'[d].outgoing, socket'[e], conn'[e], b, id)
  BY <1>1, <1>2, LessReply
<1> QED
  BY <1>3 DEF b

LEMMA CallersTame ==
    ASSUME CallsInv, NEW e \in Endpoints, StillPending(conn[e], conn'[e]), calls'[e] = calls[e],
           proc'[processOf[e]].alive => proc[processOf[e]].alive,
           \A id \in Nat : AnsweredLess(proc[processOf[e]], proc'[processOf[e]], e, id)
    PROVE  CallersOK(e)'
<1>1. CountInv(conn[e], proc[processOf[e]], calls[e])
      /\ \A id \in Nat : CallerInv(conn[e], proc[processOf[e]], e, calls[e], id)
  BY CallsParts DEF CallersOK
<1>2. CountInv(conn'[e], proc'[processOf[e]], calls[e])
      /\ \A id \in Nat : CallerInv(conn'[e], proc'[processOf[e]], e, calls[e], id)
  BY <1>1, TameCaller
<1> QED
  BY <1>2 DEF CallersOK

LEMMA PartsStep ==
    ASSUME \A e \in Endpoints :
               /\ \A id \in Nat :
                      /\ RequestInv(conn'[e].outgoing, socket'[peerOf[e]], conn'[peerOf[e]].incoming,
                                    proc'[processOf[peerOf[e]]], Status(calls'[e], id), peerOf[e], id)
                      /\ ReplyInv(conn'[peerOf[e]].outgoing, socket'[e], conn'[e], Status(calls'[e], id), id)
               /\ CallersOK(e)' /\ DecoderInv(conn'[e])
    PROVE  CallsInv'
<1>1. \A e \in Endpoints : RequestsOK(e)'
  BY DEF RequestsOK
<1>2. \A e \in Endpoints : RepliesOK(e)'
  BY DEF RepliesOK
<1> QED
  BY <1>1, <1>2, CallsParts

(***************************************************************************)
(* A message is read.                                                      *)
(***************************************************************************)

LEMMA ReadsSocket ==
    ASSUME Inv, NEW c \in Endpoints, NEW m, NEW k, NEW q, Reads(c, m, k, q)
    PROVE  /\ socket[c] \in Seq(Message) /\ socket[c] # <<>> /\ m = Head(socket[c]) /\ socket'[c] = Tail(socket[c])
           /\ \A d \in Endpoints : SocketLess(socket[d], socket'[d])
           /\ \A d \in Endpoints : d # c => socket'[d] = socket[d]
<1>1. socket[c] \in Seq(Message) /\ socket[c] # <<>> /\ m = Head(socket[c]) /\ socket'[c] = Tail(socket[c])
      /\ \A d \in Endpoints : d # c => socket'[d] = socket[d]
  BY DEF Reads, Inv, TypeInv
<1>2. \A C : Fewer(socket'[c], socket[c], C)
  BY <1>1, FewerTail
<1> QED
  BY <1>1, <1>2, SameLess DEF SocketLess

LEMMA ReadAwaitedCalls ==
    ASSUME Inv, CallsInv, NEW c \in Endpoints, NEW m, ReadAwaited(c, m)
    PROVE  CallsInv'
<1> DEFINE p == processOf[c]
           q == proc[p]
           k == conn[c]
           w == [k.waiting EXCEPT !.decoder = m]
           j == WithWaiting(k, w)
           t == Notify(c, q)
<1>1. k \in Connections /\ q \in States(p) /\ ProcessInv(q)
  BY Here
<1>2. k.waiting \in WaitForMessageState /\ m.name = k.waiting.name
  BY <1>1 DEF ReadAwaited, WaitsFor, Connections
<1>3. Reads(c, m, j, t)
  <2>1. j = [k EXCEPT !.waiting.decoder = m]
    BY <1>1 DEF WithWaiting, Connections
  <2> QED
    BY <2>1 DEF ReadAwaited
<1>4. j = WithWaiting(k, w) /\ t = Notify(c, q)
  OBVIOUS
<1> HIDE DEF j, t
<1>5. m \in Message /\ conn' = [conn EXCEPT ![c] = j] /\ proc' = [proc EXCEPT ![p] = t] /\ q.alive
  BY <1>3, ReadsFacts
<1>6. calls' = calls
  BY <1>3 DEF Reads
<1>7. w \in WaitForMessageState /\ w.decoder = m /\ m.name # "sync"
  BY <1>2, <1>5, BoundsAssumption DEF WaitForMessageState
<1> HIDE DEF w, k
<1>8. ConnTame(k, j)
  BY <1>1, <1>4, <1>7, TameWaiting
<1>9. ProcTame(p, q, t)
  BY <1>1, <1>4, TameNotify
<1>10. \A d \in Endpoints : SocketLess(socket[d], socket'[d])
  BY <1>3, ReadsSocket
<1> QED
  BY <1>5, <1>6, <1>8, <1>9, <1>10, TameStep DEF k

(* A request arrives in the queue of incoming messages.                    *)
LEMMA RequestQueued ==
    ASSUME NEW out, NEW sock \in Seq(Message), sock # <<>>, NEW in \in Seq(Message), NEW q, NEW a, NEW d, NEW id,
           RequestInv(out, sock, in, q, a, d, id), NEW m, m = Head(sock), NEW t, ProcLess(q, t, d, id)
    PROVE  RequestInv(out, Tail(sock), Append(in, m), t, a, d, id)
<1> DEFINE C == Requests(id)
           so == Tail(sock)
           i == Append(in, m)
<1>1. m \in Message
  BY TailFacts
<1>2. /\ Has(sock, C) <=> Has(so, C) \/ m \in C
      /\ Once(sock, C) => Once(so, C) /\ ~(m \in C /\ Has(so, C))
  BY HasTail
<1>3. /\ Has(i, C) <=> Has(in, C) \/ m \in C
      /\ Once(in, C) /\ ~(m \in C /\ Has(in, C)) => Once(i, C)
  BY <1>1, HasAppend
<1> HIDE DEF so, i, C
<1>4. CASE m \notin C
  <2>1. Fewer(so, sock, C) /\ Fewer(i, in, C) /\ Fewer(out, out, C)
    BY <1>2, <1>3, <1>4 DEF Fewer
  <2>2. Fewer(so, sock, Requests(id)) /\ Fewer(i, in, Requests(id)) /\ Fewer(out, out, Requests(id))
    BY <2>1 DEF C
  <2>3. RequestInv(out, so, i, t, a, d, id)
    BY <2>2, LessRequest
  <2> QED
    BY <2>3 DEF so, i
<1>5. CASE m \in C
  <2>1. RequestInv(out, so, i, t, a, d, id)
    BY <1>2, <1>3, <1>5 DEF RequestInv, ProcLess, Fewer, C
  <2> QED
    BY <2>1 DEF so, i
<1> QED
  BY <1>4, <1>5

(* It arrives in the list of the messages to dispatch.                     *)
LEMMA RequestListed ==
    ASSUME NEW out, NEW sock \in Seq(Message), sock # <<>>, NEW in, NEW p, NEW q \in States(p), NEW a,
           NEW d \in Mine(p), NEW id,
           RequestInv(out, sock, in, q, a, d, id), NEW m \in FlaggedMessages, m = Head(sock),
           NEW t, t.stack = q.stack, t.toDispatch = Append(q.toDispatch, EntryOf(d, m))
    PROVE  RequestInv(out, Tail(sock), in, t, a, d, id)
<1> DEFINE C == Requests(id)
           E == EntriesFor(d, id)
           so == Tail(sock)
           e == EntryOf(d, m)
<1>2. /\ Has(sock, C) <=> Has(so, C) \/ m \in C
      /\ Once(sock, C) => Once(so, C) /\ ~(m \in C /\ Has(so, C))
  BY HasTail
<1>3. e \in Entries(p) /\ q.toDispatch \in Seq(Entries(p)) /\ (e \in E <=> m \in C)
  BY DEF Entries, States, EntryOf, EntriesFor
<1>4. t.toDispatch = Append(q.toDispatch, e)
  OBVIOUS
<1> HIDE DEF so, C, E, e
<1>5. /\ Has(t.toDispatch, E) <=> Has(q.toDispatch, E) \/ m \in C
      /\ Once(q.toDispatch, E) /\ ~(m \in C /\ Has(q.toDispatch, E)) => Once(t.toDispatch, E)
  BY <1>3, <1>4, HasAppend
<1>6. RequestInv(out, so, in, t, a, d, id)
  BY <1>2, <1>5 DEF RequestInv, Listed, ListedOnce, C, E
<1> QED
  BY <1>6 DEF so

(* The lists of the other connections do not change.                       *)
LEMMA OtherListed ==
    ASSUME NEW p, NEW q \in States(p), NEW c \in Mine(p), NEW m \in FlaggedMessages, NEW d, d # c, NEW id,
           NEW t, t.stack = q.stack, t.toDispatch = Append(q.toDispatch, EntryOf(c, m))
    PROVE  ProcLess(q, t, d, id)
<1> DEFINE E == EntriesFor(d, id)
           e == EntryOf(c, m)
<1>1. e \in Entries(p) /\ q.toDispatch \in Seq(Entries(p)) /\ e \notin E
  BY DEF Entries, States, EntryOf, EntriesFor
<1>2. t.toDispatch = Append(q.toDispatch, e)
  OBVIOUS
<1> HIDE DEF E, e
<1>3. /\ Has(t.toDispatch, E) <=> Has(q.toDispatch, E)
      /\ Once(q.toDispatch, E) => Once(t.toDispatch, E)
  BY <1>1, <1>2, HasAppend
<1> QED
  BY <1>3, FewerSame DEF ProcLess, Listed, ListedOnce, E

LEMMA StepAt ==
    ASSUME Inv, NEW c \in Endpoints, NEW k, NEW t,
           conn' = [conn EXCEPT ![c] = k], proc' = [proc EXCEPT ![processOf[c]] = t]
    PROVE  /\ conn'[c] = k /\ \A d \in Endpoints : d # c => conn'[d] = conn[d]
           /\ \A d \in Endpoints : processOf[d] = processOf[c] => proc'[processOf[d]] = t
           /\ \A d \in Endpoints : processOf[d] # processOf[c] => proc'[processOf[d]] = proc[processOf[d]]
<1>1. \A d \in Endpoints : processOf[d] \in Processes
  BY MineFacts
<1> QED
  BY <1>1 DEF Inv, TypeInv

LEMMA ArrivesStep ==
    ASSUME Inv, CallsInv, NEW c \in Endpoints, NEW m, NEW k, NEW t, Reads(c, m, k, t),
           k.outgoing = conn[c].outgoing, k.pending = conn[c].pending, k.secondary = conn[c].secondary,
           k.lastID = conn[c].lastID, DecoderInv(k), t.alive => proc[processOf[c]].alive,
           \A id \in Nat : \A a :
               RequestInv(conn[peerOf[c]].outgoing, socket[c], conn[c].incoming, proc[processOf[c]], a, c, id)
               => RequestInv(conn[peerOf[c]].outgoing, Tail(socket[c]), k.incoming, t, a, c, id),
           \A d \in Mine(processOf[c]), id \in Nat : d # c => ProcLess(proc[processOf[c]], t, d, id),
           \A d \in Mine(processOf[c]), id \in Nat : AnsweredLess(proc[processOf[c]], t, d, id)
    PROVE  CallsInv'
<1> DEFINE p == processOf[c]
           q == proc[p]
<1>1. conn' = [conn EXCEPT ![c] = k] /\ proc' = [proc EXCEPT ![p] = t] /\ calls' = calls
  BY DEF Reads
<1>2. /\ conn'[c] = k /\ \A d \in Endpoints : d # c => conn'[d] = conn[d]
      /\ \A d \in Endpoints : processOf[d] = p => proc'[processOf[d]] = t
      /\ \A d \in Endpoints : processOf[d] # p => proc'[processOf[d]] = proc[processOf[d]]
  BY <1>1, StepAt
<1>3. /\ socket'[c] = Tail(socket[c]) /\ \A d \in Endpoints : SocketLess(socket[d], socket'[d])
      /\ \A d \in Endpoints : d # c => socket'[d] = socket[d]
  BY ReadsSocket
<1>4. \A d \in Endpoints : /\ conn'[d].outgoing = conn[d].outgoing /\ conn'[d].pending = conn[d].pending
                           /\ conn'[d].secondary = conn[d].secondary /\ conn'[d].lastID = conn[d].lastID
  BY <1>2
<1>5. ASSUME NEW e \in Endpoints, NEW id \in Nat
      PROVE  RequestInv(conn'[e].outgoing, socket'[peerOf[e]], conn'[peerOf[e]].incoming,
                        proc'[processOf[peerOf[e]]], Status(calls'[e], id), peerOf[e], id)
  <2>1. peerOf[e] \in Endpoints /\ peerOf[peerOf[e]] = e
    BY MineFacts
  <2>2. CASE peerOf[e] = c
    <3> DEFINE a == Status(calls[e], id)
    <3>1. RequestInv(conn[e].outgoing, socket[c], conn[c].incoming, q, a, c, id) /\ e = peerOf[c]
      BY <2>1, <2>2 DEF CallsInv
    <3> HIDE DEF a
    <3>2. RequestInv(conn[e].outgoing, Tail(socket[c]), k.incoming, t, a, c, id)
      BY <3>1
    <3> QED
      BY <1>1, <1>2, <1>3, <1>4, <2>2, <3>2 DEF a
  <2>3. CASE peerOf[e] # c
    <3>1. conn'[peerOf[e]] = conn[peerOf[e]] /\ socket'[peerOf[e]] = socket[peerOf[e]]
      BY <1>2, <1>3, <2>1, <2>3
    <3>2. ProcLess(proc[processOf[peerOf[e]]], proc'[processOf[peerOf[e]]], peerOf[e], id)
      <4>1. CASE processOf[peerOf[e]] = p
        BY <1>2, <2>1, <2>3, <4>1, MineFacts
      <4>2. CASE processOf[peerOf[e]] # p
        BY <1>2, <2>1, <4>2, SameLess
      <4> QED
        BY <4>1, <4>2
    <3>3. Status(calls'[e], id) = Status(calls[e], id)
      BY <1>1
    <3> QED
      BY <1>4, <3>1, <3>2, <3>3, FewerSame, RequestsLess
  <2> QED
    BY <2>2, <2>3
<1>6. ASSUME NEW e \in Endpoints, NEW id \in Nat
      PROVE  ReplyInv(conn'[peerOf[e]].outgoing, socket'[e], conn'[e], Status(calls'[e], id), id)
  <2>1. peerOf[e] \in Endpoints
    BY MineFacts
  <2>2. Replied(conn'[e], id) => Replied(conn[e], id)
    BY <1>4 DEF Replied
  <2>3. Fewer(socket'[e], socket[e], Replies(id))
    BY <1>3 DEF SocketLess
  <2>4. Fewer(conn'[peerOf[e]].outgoing, conn[peerOf[e]].outgoing, Replies(id))
    BY <1>4, <2>1, FewerSame
  <2>5. Status(calls'[e], id) = Status(calls[e], id)
    BY <1>1
  <2> QED
    BY <2>2, <2>3, <2>4, <2>5, RepliesLess
<1>7. ASSUME NEW e \in Endpoints PROVE CallersOK(e)' /\ DecoderInv(conn'[e])
  <2>1. StillPending(conn[e], conn'[e])
    BY <1>4 DEF StillPending, IsPending
  <2>2. calls'[e] = calls[e]
    BY <1>1
  <2>3. /\ proc'[processOf[e]].alive => proc[processOf[e]].alive
        /\ \A id \in Nat : AnsweredLess(proc[processOf[e]], proc'[processOf[e]], e, id)
    <3>1. CASE processOf[e] = p
      BY <1>2, <3>1, MineFacts
    <3>2. CASE processOf[e] # p
      BY <1>2, <3>2, SameLess
    <3> QED
      BY <3>1, <3>2
  <2>4. CallersOK(e)'
    BY <2>1, <2>2, <2>3, CallersTame
  <2>5. DecoderInv(conn'[e])
    BY <1>2 DEF CallsInv
  <2> QED
    BY <2>4, <2>5
<1> QED
  BY <1>5, <1>6, <1>7, PartsStep

LEMMA ReadFlaggedCalls ==
    ASSUME Inv, CallsInv, NEW c \in Endpoints, NEW m, ReadFlagged(c, m)
    PROVE  CallsInv'
<1> DEFINE p == processOf[c]
           q == proc[p]
           k == conn[c]
           u == ToDispatch(q, c, m)
           t == Signal(u)
<1>1. Reads(c, m, k, t)
  BY DEF ReadFlagged, ToDispatch, TaskOf, EntryOf
<1>2. m \in FlaggedMessages /\ q.alive
  <2>1. m.flagged
    BY DEF ReadFlagged
  <2> HIDE DEF k, t
  <2> QED
    BY <1>1, <2>1, ReadsFacts DEF FlaggedMessages
<1>3. socket[c] \in Seq(Message) /\ socket[c] # <<>> /\ m = Head(socket[c])
  <2> HIDE DEF k, t
  <2> QED
    BY <1>1, ReadsSocket
<1>4. p \in Processes /\ q \in States(p) /\ c \in Mine(p) /\ DecoderInv(k)
  BY Here, MineFacts DEF CallsInv
<1>5. u \in States(p) /\ u.stack = q.stack /\ u.toDispatch = Append(q.toDispatch, EntryOf(c, m))
  <2>1. u = ToDispatch(q, c, m) /\ q \in States(p) /\ c \in Mine(p) /\ m \in FlaggedMessages
    BY <1>2, <1>4
  <2> HIDE DEF q, u, p
  <2> QED
    BY <2>1, ToDispatchEffect
<1>6. t = Signal(u)
  OBVIOUS
<1> HIDE DEF u, t
<1>7. t.stack = q.stack /\ t.toDispatch = Append(q.toDispatch, EntryOf(c, m))
  BY <1>5, <1>6, SignalEffect
<1>8. ASSUME NEW id \in Nat, NEW a, RequestInv(conn[peerOf[c]].outgoing, socket[c], k.incoming, q, a, c, id)
      PROVE  RequestInv(conn[peerOf[c]].outgoing, Tail(socket[c]), k.incoming, t, a, c, id)
  BY <1>2, <1>3, <1>4, <1>7, <1>8, RequestListed
<1>9. \A d \in Mine(p), id \in Nat : d # c => ProcLess(q, t, d, id)
  BY <1>2, <1>4, <1>7, OtherListed
<1>10. \A d \in Mine(p), id \in Nat : AnsweredLess(q, t, d, id)
  BY <1>7 DEF AnsweredLess
<1> QED
  BY <1>1, <1>2, <1>4, <1>8, <1>9, <1>10, ArrivesStep

LEMMA ReadOtherCalls ==
    ASSUME Inv, CallsInv, NEW c \in Endpoints, NEW m, ReadOther(c, m)
    PROVE  CallsInv'
<1> DEFINE p == processOf[c]
           q == proc[p]
           k == conn[c]
           op == "dispatchOneMessage"
           u == WithTask(q, op, c)
           v == Notify(c, u)
           i == WithIncoming(k, m)
           w == [i EXCEPT !.waiting.interrupted = TRUE]
<1>1. (k.waiting # None /\ Reads(c, m, w, v)) \/ Reads(c, m, i, u)
  BY DEF ReadOther, WithTask, TaskOf, WithIncoming
<1>2. p \in Processes /\ q \in States(p) /\ ProcessInv(q) /\ c \in Mine(p) /\ k \in Connections /\ DecoderInv(k)
  BY Here, MineFacts DEF CallsInv
<1>3. q.alive /\ socket[c] \in Seq(Message) /\ socket[c] # <<>> /\ m = Head(socket[c])
  BY DEF ReadOther, Reads, IsAt, Inv, TypeInv
<1>4. m \in Message
  BY <1>3, TailFacts
<1>5. /\ i.outgoing = k.outgoing /\ i.pending = k.pending /\ i.secondary = k.secondary /\ i.lastID = k.lastID
      /\ i.incoming = Append(k.incoming, m) /\ i.waiting = k.waiting
      /\ w.outgoing = k.outgoing /\ w.pending = k.pending /\ w.secondary = k.secondary /\ w.lastID = k.lastID
      /\ w.incoming = Append(k.incoming, m) /\ w.waiting = [k.waiting EXCEPT !.interrupted = TRUE]
  BY <1>2 DEF WithIncoming, Connections
<1>6. DecoderInv(i)
  BY <1>2, <1>5, SameDecoder
<1>7. k.waiting # None => DecoderInv(w)
  <2> SUFFICES ASSUME k.waiting # None PROVE DecoderInv(w)
    OBVIOUS
  <2>1. k.waiting \in WaitForMessageState
    BY <1>2 DEF Connections
  <2>2. w.waiting.decoder = k.waiting.decoder
    BY <1>5, <2>1 DEF WaitForMessageState
  <2> QED
    BY <1>2, <2>2 DEF DecoderInv
<1>8. u = WithTask(q, op, c) /\ op \in {"dispatchOneMessage", "didClose"} /\ v = Notify(c, u)
  OBVIOUS
<1> HIDE DEF u, v, op, i, w
<1>9. u \in States(p) /\ u.stack = q.stack /\ u.toDispatch = q.toDispatch
  BY <1>2, <1>3, <1>8, WithTaskEffect
<1>10. ProcTame(p, q, u)
  BY <1>9, TameSame
<1>11. ProcTame(p, u, v)
  BY <1>8, <1>9, TameNotify
<1>12. ProcTame(p, q, v)
  BY <1>10, <1>11, TameTwice
<1>13. ASSUME NEW t, ProcTame(p, q, t), NEW j, Reads(c, m, j, t), j.outgoing = k.outgoing, j.pending = k.pending,
              j.secondary = k.secondary, j.lastID = k.lastID, DecoderInv(j), j.incoming = Append(k.incoming, m)
       PROVE  CallsInv'
  <2>1. ASSUME NEW id \in Nat, NEW a, RequestInv(conn[peerOf[c]].outgoing, socket[c], k.incoming, q, a, c, id)
        PROVE  RequestInv(conn[peerOf[c]].outgoing, Tail(socket[c]), j.incoming, t, a, c, id)
    <3>1. k.incoming \in Seq(Message) /\ ProcLess(q, t, c, id)
      BY <1>2, <1>13 DEF Connections, ProcTame
    <3>2. RequestInv(conn[peerOf[c]].outgoing, Tail(socket[c]), Append(k.incoming, m), t, a, c, id)
      BY <1>3, <2>1, <3>1, RequestQueued
    <3> QED
      BY <1>13, <3>2
  <2>2. \A d \in Mine(p), id \in Nat : ProcLess(q, t, d, id) /\ AnsweredLess(q, t, d, id)
    BY <1>13 DEF ProcTame
  <2> QED
    BY <1>3, <1>13, <2>1, <2>2, ArrivesStep
<1> QED
  BY <1>1, <1>5, <1>6, <1>7, <1>10, <1>12, <1>13

(* A reply arrives.                                                        *)
LEMMA ReplyTaken ==
    ASSUME NEW out, NEW sock \in Seq(Message), sock # <<>>, NEW k, NEW a, NEW id, ReplyInv(out, sock, k, a, id),
           NEW m, m = Head(sock), m.name = "SyncMessageReply", NEW j, m.id # id => (Replied(j, id) => Replied(k, id))
    PROVE  ReplyInv(out, Tail(sock), j, a, id)
<1> DEFINE C == Replies(id)
           so == Tail(sock)
<1>1. m \in Message
  BY TailFacts
<1>2. /\ Has(sock, C) <=> Has(so, C) \/ m \in C
      /\ Once(sock, C) => Once(so, C) /\ ~(m \in C /\ Has(so, C))
  BY HasTail
<1>3. m \in C <=> m.id = id
  BY <1>1 DEF Replies
<1> HIDE DEF so, C
<1>4. ReplyInv(out, so, j, a, id)
  BY <1>2, <1>3 DEF ReplyInv, C
<1> QED
  BY <1>4 DEF so

LEMMA ReplyStep ==
    ASSUME Inv, CallsInv, NEW c \in Endpoints, NEW m, m.name = "SyncMessageReply", NEW k, NEW t, Reads(c, m, k, t),
           k.outgoing = conn[c].outgoing, k.incoming = conn[c].incoming, k.waiting = conn[c].waiting,
           StillPending(conn[c], k), \A id \in Nat : m.id # id => (Replied(k, id) => Replied(conn[c], id)),
           t.stack = proc[processOf[c]].stack, t.toDispatch = proc[processOf[c]].toDispatch,
           t.alive => proc[processOf[c]].alive
    PROVE  CallsInv'
<1> DEFINE p == processOf[c]
           q == proc[p]
<1>1. conn' = [conn EXCEPT ![c] = k] /\ proc' = [proc EXCEPT ![p] = t] /\ calls' = calls
  BY DEF Reads
<1>2. /\ conn'[c] = k /\ \A d \in Endpoints : d # c => conn'[d] = conn[d]
      /\ \A d \in Endpoints : processOf[d] = p => proc'[processOf[d]] = t
      /\ \A d \in Endpoints : processOf[d] # p => proc'[processOf[d]] = proc[processOf[d]]
  BY <1>1, StepAt
<1>3. /\ socket[c] \in Seq(Message) /\ socket[c] # <<>> /\ m = Head(socket[c])
      /\ socket'[c] = Tail(socket[c]) /\ \A d \in Endpoints : SocketLess(socket[d], socket'[d])
      /\ \A d \in Endpoints : d # c => socket'[d] = socket[d]
  BY ReadsSocket
<1>4. \A d \in Endpoints : conn'[d].outgoing = conn[d].outgoing /\ conn'[d].incoming = conn[d].incoming
  BY <1>2
<1>5. \A d \in Endpoints, id \in Nat :
          /\ ProcLess(proc[processOf[d]], proc'[processOf[d]], d, id)
          /\ AnsweredLess(proc[processOf[d]], proc'[processOf[d]], d, id)
  <2>1. \A d, id : ProcLess(q, t, d, id) /\ AnsweredLess(q, t, d, id)
    BY LessSame
  <2>2. ASSUME NEW d \in Endpoints, NEW id \in Nat
        PROVE  /\ ProcLess(proc[processOf[d]], proc'[processOf[d]], d, id)
               /\ AnsweredLess(proc[processOf[d]], proc'[processOf[d]], d, id)
    <3>1. CASE processOf[d] = p
      BY <1>2, <2>1, <3>1
    <3>2. CASE processOf[d] # p
      BY <1>2, <3>2, SameLess
    <3> QED
      BY <3>1, <3>2
  <2> QED
    BY <2>2
<1>6. ASSUME NEW e \in Endpoints, NEW id \in Nat
      PROVE  RequestInv(conn'[e].outgoing, socket'[peerOf[e]], conn'[peerOf[e]].incoming,
                        proc'[processOf[peerOf[e]]], Status(calls'[e], id), peerOf[e], id)
  <2>1. peerOf[e] \in Endpoints
    BY MineFacts
  <2>2. Fewer(socket'[peerOf[e]], socket[peerOf[e]], Requests(id))
    BY <1>3, <2>1 DEF SocketLess
  <2>3. Fewer(conn'[e].outgoing, conn[e].outgoing, Requests(id))
        /\ Fewer(conn'[peerOf[e]].incoming, conn[peerOf[e]].incoming, Requests(id))
    BY <1>4, <2>1, FewerSame
  <2>4. ProcLess(proc[processOf[peerOf[e]]], proc'[processOf[peerOf[e]]], peerOf[e], id)
    BY <1>5, <2>1
  <2>5. Status(calls'[e], id) = Status(calls[e], id)
    BY <1>1
  <2> QED
    BY <2>2, <2>3, <2>4, <2>5, RequestsLess
<1>7. ASSUME NEW e \in Endpoints, NEW id \in Nat
      PROVE  ReplyInv(conn'[peerOf[e]].outgoing, socket'[e], conn'[e], Status(calls'[e], id), id)
  <2>1. peerOf[e] \in Endpoints /\ Status(calls'[e], id) = Status(calls[e], id)
    BY <1>1, MineFacts
  <2>2. CASE e = c
    <3> DEFINE a == Status(calls[c], id)
               out == conn[peerOf[c]].outgoing
    <3>1. ReplyInv(out, socket[c], conn[c], a, id)
      BY DEF CallsInv
    <3> HIDE DEF a, out
    <3>2. ReplyInv(out, Tail(socket[c]), k, a, id)
      BY <1>3, <3>1, ReplyTaken
    <3> QED
      BY <1>2, <1>3, <1>4, <2>1, <2>2, <3>2 DEF a, out
  <2>3. CASE e # c
    <3>1. conn'[e] = conn[e] /\ socket'[e] = socket[e]
      BY <1>2, <1>3, <2>3
    <3> QED
      BY <1>4, <2>1, <3>1, FewerSame, RepliesLess
  <2> QED
    BY <2>2, <2>3
<1>8. ASSUME NEW e \in Endpoints PROVE CallersOK(e)' /\ DecoderInv(conn'[e])
  <2>1. StillPending(conn[e], conn'[e])
    BY <1>2 DEF StillPending
  <2>2. calls'[e] = calls[e]
    BY <1>1
  <2>3. proc'[processOf[e]].alive => proc[processOf[e]].alive
    BY <1>2
  <2>4. CallersOK(e)'
    BY <1>5, <2>1, <2>2, <2>3, CallersTame
  <2>5. DecoderInv(conn'[e])
    <3>1. conn'[e].waiting = conn[e].waiting /\ DecoderInv(conn[e])
      BY <1>2 DEF CallsInv
    <3> QED
      BY <3>1, SameDecoder
  <2> QED
    BY <2>4, <2>5
<1> QED
  BY <1>6, <1>7, <1>8, PartsStep

LEMMA ReadReplyCalls ==
    ASSUME Inv, CallsInv, NEW c \in Endpoints, NEW m, ReadReply(c, m)
    PROVE  CallsInv'
<1> DEFINE p == processOf[c]
           q == proc[p]
           k == conn[c]
           i == IF RequestsOf(k.pending, m.id) # {} THEN Max(RequestsOf(k.pending, m.id)) ELSE 0
           t == IF i = Len(k.pending) THEN Signal(q) ELSE q
           j == Answered(k, i)
           w == WithWoken(k, m.id)
<1>1. (i > 0 /\ Reads(c, m, j, t)) \/ Reads(c, m, w, q)
  BY Zenon DEF ReadReply, RequestsOf, SelectLastInSeq, Answered, WithWoken, Woken, WokenBy
<1>2. k \in Connections /\ q \in States(p) /\ m.name = "SyncMessageReply"
  BY Here, Zenon DEF ReadReply
<1>3. k.pending \in Seq(PendingReplies) /\ k.secondary \subseteq SecondaryReplies
  BY <1>2 DEF Connections
<1>4. i > 0 => i \in DOMAIN k.pending /\ k.pending[i].id = m.id
  <2> DEFINE id == m.id
  <2>1. i = IF RequestsOf(k.pending, id) # {} THEN Max(RequestsOf(k.pending, id)) ELSE 0
    OBVIOUS
  <2> HIDE DEF k, i, id
  <2>2. i > 0 => i \in DOMAIN k.pending /\ k.pending[i].id = id
    BY <1>3, <2>1, LastPlace
  <2> QED
    BY <2>2 DEF id
<1>5. (t = Signal(q) \/ t = q) /\ j = Answered(k, i) /\ w = WithWoken(k, m.id)
  OBVIOUS
<1> HIDE DEF k, i, t, j, w
<1>6. t.stack = q.stack /\ t.toDispatch = q.toDispatch /\ t.alive = q.alive
  BY <1>2, <1>5, SignalEffect
<1>7. CASE i > 0 /\ Reads(c, m, j, t)
  <2> DEFINE r == ReplyAt(k.pending, i)
  <2>1. /\ j.outgoing = k.outgoing /\ j.incoming = k.incoming /\ j.waiting = k.waiting /\ j.lastID = k.lastID
        /\ j.secondary = k.secondary /\ j.pending = r
    BY <1>2, <1>5 DEF Answered, ReplyAt, Connections
  <2>2. r = ReplyAt(k.pending, i)
    OBVIOUS
  <2> HIDE DEF r
  <2>3. /\ PendingIDs(r) = PendingIDs(k.pending) /\ DOMAIN r = DOMAIN k.pending
        /\ \A n \in DOMAIN k.pending : r[n].id = k.pending[n].id /\ (n # i => r[n] = k.pending[n])
    BY <1>3, <1>4, <1>7, <2>2, PendingReply, SMTT(30)
  <2>4. StillPending(k, j)
    BY <2>1, <2>3 DEF StillPending, IsPending
  <2>5. \A id \in Nat : m.id # id => (Replied(j, id) => Replied(k, id))
    BY <1>4, <1>7, <2>1, <2>3 DEF Replied
  <2> QED
    BY <1>2, <1>6, <1>7, <2>1, <2>4, <2>5, ReplyStep DEF k
<1>8. CASE Reads(c, m, w, q)
  <2> DEFINE S == Woken(k.secondary, m.id)
             id == m.id
             u == q
  <2>1. /\ w.outgoing = k.outgoing /\ w.incoming = k.incoming /\ w.waiting = k.waiting /\ w.lastID = k.lastID
        /\ w.secondary = S /\ w.pending = k.pending
    BY <1>2, <1>5 DEF WithWoken, Connections
  <2>2. \A s \in S : s \in k.secondary \/ (s.id = m.id /\ \E x \in k.secondary : s.id = x.id)
    <3>1. S = Woken(k.secondary, id)
      OBVIOUS
    <3> HIDE DEF S, id
    <3>2. \A s \in S : s \in k.secondary \/ \E x \in k.secondary : x.id = id /\ s.id = x.id
      BY <1>3, <3>1, WokenFacts
    <3> QED
      BY <3>2 DEF id
  <2> HIDE DEF S
  <2>3. StillPending(k, w)
    BY <2>1, <2>2 DEF StillPending, IsPending
  <2>4. \A n \in Nat : m.id # n => (Replied(w, n) => Replied(k, n))
    BY <2>1, <2>2 DEF Replied
  <2>5. Reads(c, m, w, u) /\ u.stack = q.stack /\ u.toDispatch = q.toDispatch /\ (u.alive => q.alive)
    BY <1>8
  <2> HIDE DEF u
  <2> QED
    BY <1>2, <2>1, <2>3, <2>4, <2>5, ReplyStep DEF k
<1> QED
  BY <1>1, <1>7, <1>8

(***************************************************************************)
(* Messages go from the queue to the socket.                               *)
(***************************************************************************)

Moved(out, sock, o, so, C) ==
    /\ Has(o, C) => Has(out, C)
    /\ Has(so, C) => Has(sock, C) \/ Has(out, C)
    /\ Once(out, C) /\ Once(sock, C) /\ ~(Has(out, C) /\ Has(sock, C))
           => Once(o, C) /\ Once(so, C) /\ ~(Has(o, C) /\ Has(so, C))

LEMMA MovedSplit ==
    ASSUME NEW out \in Seq(Message), NEW sock \in Seq(Message), NEW n \in 0 .. Len(out), NEW C
    PROVE  Moved(out, sock, SubSeq(out, n + 1, Len(out)), sock \o SubSeq(out, 1, n), C)
<1> DEFINE s == SubSeq(out, 1, n)
           o == SubSeq(out, n + 1, Len(out))
           so == sock \o s
<1>1. /\ s \in Seq(Message) /\ (Has(s, C) \/ Has(o, C) => Has(out, C))
      /\ Once(out, C) => Once(s, C) /\ Once(o, C) /\ ~(Has(s, C) /\ Has(o, C))
  BY HasSplit
<1> HIDE DEF s
<1>2. /\ Has(so, C) <=> Has(sock, C) \/ Has(s, C)
      /\ Once(sock, C) /\ Once(s, C) /\ ~(Has(sock, C) /\ Has(s, C)) => Once(so, C)
  BY <1>1, HasConcat
<1> HIDE DEF o, so
<1>3. Moved(out, sock, o, so, C)
  BY <1>1, <1>2 DEF Moved
<1> QED
  BY <1>3 DEF o, so, s

LEMMA RequestMoved ==
    ASSUME NEW out, NEW sock, NEW in, NEW q, NEW a, NEW d, NEW id, RequestInv(out, sock, in, q, a, d, id),
           NEW o, NEW so, Moved(out, sock, o, so, Requests(id))
    PROVE  RequestInv(o, so, in, q, a, d, id)
  BY DEF RequestInv, Moved

LEMMA ReplyMoved ==
    ASSUME NEW out, NEW sock, NEW k, NEW a, NEW id, ReplyInv(out, sock, k, a, id),
           NEW o, NEW so, Moved(out, sock, o, so, Replies(id)), NEW j, Replied(j, id) => Replied(k, id)
    PROVE  ReplyInv(o, so, j, a, id)
  BY DEF ReplyInv, Moved

LEMMA MovesStep ==
    ASSUME Inv, CallsInv, NEW c \in Endpoints, NEW k, conn' = [conn EXCEPT ![c] = k], UNCHANGED <<proc, calls>>,
           Alike(conn[c], k), k.incoming = conn[c].incoming,
           \A d \in Endpoints : d # peerOf[c] => socket'[d] = socket[d],
           \A C : Moved(conn[c].outgoing, socket[peerOf[c]], k.outgoing, socket'[peerOf[c]], C)
    PROVE  CallsInv'
<1>1. /\ conn'[c] = k /\ \A d \in Endpoints : d # c => conn'[d] = conn[d]
  BY DEF Inv, TypeInv
<1>2. \A d \in Endpoints : /\ conn'[d].incoming = conn[d].incoming /\ conn'[d].pending = conn[d].pending
                           /\ conn'[d].secondary = conn[d].secondary /\ conn'[d].lastID = conn[d].lastID
                           /\ conn'[d].waiting = conn[d].waiting
  BY <1>1 DEF Alike
<1>3. ASSUME NEW e \in Endpoints, NEW id \in Nat
      PROVE  RequestInv(conn'[e].outgoing, socket'[peerOf[e]], conn'[peerOf[e]].incoming,
                        proc'[processOf[peerOf[e]]], Status(calls'[e], id), peerOf[e], id)
  <2>1. peerOf[e] \in Endpoints /\ peerOf[peerOf[e]] = e /\ peerOf[peerOf[c]] = c
    BY MineFacts
  <2>2. CASE e = c
    <3> DEFINE a == Status(calls[c], id)
               d == peerOf[c]
    <3>1. RequestInv(conn[c].outgoing, socket[d], conn[d].incoming, proc[processOf[d]], a, d, id)
      BY DEF CallsInv
    <3>2. Moved(conn[c].outgoing, socket[d], k.outgoing, socket'[d], Requests(id))
      OBVIOUS
    <3> HIDE DEF a, d
    <3>3. RequestInv(k.outgoing, socket'[d], conn[d].incoming, proc[processOf[d]], a, d, id)
      BY <3>1, <3>2, RequestMoved
    <3> QED
      BY <1>1, <1>2, <2>1, <2>2, <3>3 DEF a, d
  <2>3. CASE e # c
    <3>1. conn'[e] = conn[e] /\ socket'[peerOf[e]] = socket[peerOf[e]]
      BY <1>1, <2>1, <2>3
    <3> QED
      BY <1>2, <2>1, <3>1, FewerSame, SameLess, RequestsLess
  <2> QED
    BY <2>2, <2>3
<1>4. ASSUME NEW e \in Endpoints, NEW id \in Nat
      PROVE  ReplyInv(conn'[peerOf[e]].outgoing, socket'[e], conn'[e], Status(calls'[e], id), id)
  <2>1. peerOf[e] \in Endpoints /\ peerOf[peerOf[e]] = e /\ peerOf[peerOf[c]] = c
    BY MineFacts
  <2>2. Replied(conn'[e], id) => Replied(conn[e], id)
    BY <1>2 DEF Replied
  <2>3. CASE peerOf[e] = c
    <3> DEFINE a == Status(calls[e], id)
               j == conn'[e]
               so == socket'[e]
    <3>1. ReplyInv(conn[c].outgoing, socket[e], conn[e], a, id) /\ e = peerOf[c]
      BY <2>1, <2>3 DEF CallsInv
    <3>2. Moved(conn[c].outgoing, socket[e], k.outgoing, so, Replies(id)) /\ (Replied(j, id) => Replied(conn[e], id))
      BY <2>2, <3>1
    <3> HIDE DEF a, j, so
    <3>3. ReplyInv(k.outgoing, so, j, a, id)
      BY <3>1, <3>2, ReplyMoved
    <3> QED
      BY <1>1, <2>3, <3>3 DEF a, j, so
  <2>4. CASE peerOf[e] # c
    <3>1. conn'[peerOf[e]] = conn[peerOf[e]] /\ socket'[e] = socket[e]
      BY <1>1, <2>1, <2>4
    <3> QED
      BY <2>2, <3>1, FewerSame, RepliesLess
  <2> QED
    BY <2>3, <2>4
<1>5. ASSUME NEW e \in Endpoints PROVE CallersOK(e)' /\ DecoderInv(conn'[e])
  <2>1. StillPending(conn[e], conn'[e])
    BY <1>2 DEF StillPending, IsPending
  <2>2. CallersOK(e)'
    BY <2>1, SameLess, CallersTame
  <2>3. DecoderInv(conn[e])
    BY DEF CallsInv
  <2> QED
    BY <1>2, <2>2, <2>3, SameDecoder
<1> QED
  BY <1>3, <1>4, <1>5, PartsStep

LEMMA SendOutgoingMessagesCalls ==
    ASSUME Inv, CallsInv, NEW c \in Endpoints, SendOutgoingMessages(c)
    PROVE  CallsInv'
<1> DEFINE k == conn[c]
           e == peerOf[c]
           room == capacity - Len(socket[e])
           n == Min({room, Len(k.outgoing)})
           open == conn[e].connected
           ts == IF k.thread = "idle" THEN Tail(k.tasks) ELSE k.tasks
           o == IF ~k.connected \/ k.outgoing = <<>> THEN k.outgoing
                ELSE IF open THEN SubSeq(k.outgoing, n + 1, Len(k.outgoing)) ELSE Tail(k.outgoing)
           th == IF k.connected /\ open /\ n < Len(k.outgoing) THEN "sending" ELSE "idle"
           j == [k EXCEPT !.tasks = ts, !.outgoing = o, !.thread = th]
           s == SubSeq(k.outgoing, 1, n)
           r == SubSeq(k.outgoing, n + 1, Len(k.outgoing))
           so == socket'[e]
<1>1. k \in Connections /\ e \in Endpoints /\ k.outgoing \in Seq(Message)
  BY Here, MineFacts DEF Connections
<1>2. socket \in [Endpoints -> Seq(Message)] /\ Len(socket[e]) <= capacity /\ capacity \in Nat
  BY <1>1, BoundsAssumption DEF Inv, TypeInv
<1>3. room \in Nat /\ Len(k.outgoing) \in Nat
  BY <1>1, <1>2, LenProperties
<1>4. n \in 0 .. Len(k.outgoing)
  <2>1. n \in Nat /\ n <= Len(k.outgoing)
    <3> HIDE DEF room
    <3> QED
      BY <1>3, MinOfTwo
  <2> HIDE DEF n
  <2> QED
    BY <1>3, <2>1
<1>5. conn' = [conn EXCEPT ![c] = j] /\ UNCHANGED <<proc, calls>>
      /\ socket' = IF k.connected /\ open THEN [socket EXCEPT ![e] = socket[e] \o s] ELSE socket
  BY DEF SendOutgoingMessages
<1> HIDE DEF s, r, n, open, th, ts
<1>6. /\ k.connected /\ open => so = socket[e] \o s
      /\ ~(k.connected /\ open) => so = socket[e]
      /\ \A d \in Endpoints : d # e => socket'[d] = socket[d]
  BY <1>1, <1>2, <1>5
<1>7. /\ o = k.outgoing \/ (k.outgoing # <<>> /\ (o = r \/ o = Tail(k.outgoing)))
      /\ o = r => (k.connected /\ open) \/ o = k.outgoing \/ o = Tail(k.outgoing)
      /\ k.connected /\ open => o = r \/ (k.outgoing = <<>> /\ o = k.outgoing)
      /\ ~(k.connected /\ open) => o = k.outgoing \/ (k.outgoing # <<>> /\ o = Tail(k.outgoing))
  BY DEF r
<1> HIDE DEF o, so
<1>8. Alike(k, j) /\ j.incoming = k.incoming /\ j.outgoing = o
  BY <1>1 DEF Connections, Alike
<1> HIDE DEF j, k
<1>9. ASSUME NEW C PROVE Moved(k.outgoing, socket[e], o, so, C)
  <2>1. Moved(k.outgoing, socket[e], r, socket[e] \o s, C)
    <3>1. socket[e] \in Seq(Message)
      BY <1>1, <1>2
    <3> QED
      BY <1>1, <1>4, <3>1, MovedSplit DEF r, s
  <2>2. CASE k.connected /\ open /\ o = r
    BY <1>6, <2>1, <2>2
  <2>3. CASE k.connected /\ open /\ k.outgoing = <<>> /\ o = k.outgoing
    <3>1. ~Has(o, C) /\ Once(o, C)
      BY <2>3, HasEmpty
    <3>2. so = socket[e] \o s
      BY <1>6, <2>3
    <3> QED
      BY <2>1, <3>1, <3>2 DEF Moved
  <2>4. CASE ~(k.connected /\ open)
    <3>1. Fewer(o, k.outgoing, C)
      BY <1>1, <1>7, <2>4, FewerSame, FewerTail
    <3>2. so = socket[e]
      BY <1>6, <2>4
    <3> QED
      BY <3>1, <3>2 DEF Moved, Fewer
  <2> QED
    BY <1>7, <2>2, <2>3, <2>4
<1>10. \A C : Moved(k.outgoing, socket[e], j.outgoing, so, C)
  BY <1>8, <1>9
<1> QED
  BY <1>5, <1>6, <1>8, <1>10, MovesStep DEF k, so

(***************************************************************************)
(* Calls begin and end.                                                    *)
(***************************************************************************)

CallOf(caller, handler) == [caller |-> caller, handler |-> handler]

Appended(cs, ds, id, x) ==
    /\ ds \in Seq(Promise!Call) /\ Len(ds) = id /\ Len(cs) \in Nat
    /\ \A i \in 1 .. Len(cs) : ds[i] = cs[i]
    /\ ds[id] = x /\ Status(ds, id) = x.handler /\ Status(cs, id) = "unknown"
    /\ \A i \in Nat : i # id => Status(ds, i) = Status(cs, i)

LEMMA CallAppended ==
    ASSUME NEW cs \in Seq(Promise!Call), NEW x \in Promise!Call, NEW ds, ds = Append(cs, x),
           NEW id, id = Len(cs) + 1
    PROVE  Appended(cs, ds, id, x)
<1>1. /\ ds \in Seq(Promise!Call) /\ Len(ds) = id /\ Len(cs) \in Nat
      /\ \A i \in 1 .. Len(cs) : ds[i] = cs[i]
      /\ ds[id] = x /\ DOMAIN ds = 1 .. id /\ DOMAIN cs = 1 .. Len(cs)
  <2>1. ds \in Seq(Promise!Call) /\ Len(ds) = Len(cs) + 1 /\ Len(cs) \in Nat /\ DOMAIN cs = 1 .. Len(cs)
        /\ (\A i \in 1 .. Len(cs) : ds[i] = cs[i]) /\ ds[Len(cs) + 1] = x
    BY AppendProperties, LenProperties
  <2> QED
    BY <2>1, LenProperties
<1>2. id \in DOMAIN ds /\ id \notin DOMAIN cs /\ \A i \in Nat : i # id => (i \in DOMAIN ds <=> i \in DOMAIN cs)
  BY <1>1
<1>3. \A i \in DOMAIN cs : ds[i] = cs[i]
  BY <1>1
<1> QED
  BY <1>1, <1>2, <1>3 DEF Status, Appended

LEMMA PendingBound ==
    ASSUME Inv, NEW e \in Endpoints, NEW id \in Nat, IsPending(conn[e], id)
    PROVE  id \in 1 .. conn[e].lastID
<1>1. IDsInv(conn[e])
  BY Here DEF LocalInv
<1> QED
  BY <1>1 DEF IDsInv, IsPending

(* What is known of the calls on an endpoint.                              *)
LEMMA CallsHere ==
    ASSUME CallsInv, NEW e \in Endpoints
    PROVE  /\ calls[e] \in Seq(Promise!Call) /\ Len(calls[e]) \in Nat /\ DOMAIN calls[e] = 1 .. Len(calls[e])
           /\ conn[e].lastID <= Len(calls[e]) /\ (proc[processOf[e]].alive => Len(calls[e]) = conn[e].lastID)
           /\ \A id \in Nat : CallerInv(conn[e], proc[processOf[e]], e, calls[e], id)
<1>1. CountInv(conn[e], proc[processOf[e]], calls[e]) /\ calls[e] \in Seq(Promise!Call)
      /\ \A id \in Nat : CallerInv(conn[e], proc[processOf[e]], e, calls[e], id)
  BY DEF CallsInv, CountInv
<1> QED
  BY <1>1, LenProperties DEF CountInv

LEMMA RequestPushed ==
    ASSUME NEW out \in Seq(Message), NEW sock, NEW in, NEW q, NEW a, a = "unknown", NEW d, NEW id,
           RequestInv(out, sock, in, q, a, d, id), NEW m \in Message, m \in Requests(id),
           NEW t, ProcLess(q, t, d, id), NEW b, b = "none"
    PROVE  RequestInv(Append(out, m), sock, in, t, b, d, id)
<1> DEFINE o == Append(out, m)
           C == Requests(id)
<1>1. /\ Has(o, C) <=> Has(out, C) \/ m \in C
      /\ Once(out, C) /\ ~(m \in C /\ Has(out, C)) => Once(o, C)
  BY HasAppend
<1> HIDE DEF o
<1>2. ~Has(out, C) /\ ~Has(sock, C) /\ ~Has(in, C) /\ ~Listed(q, d, id) /\ ~Has(q.stack, HandlersOf(d, id))
  BY DEF RequestInv
<1>3. RequestInv(o, sock, in, t, b, d, id)
  BY <1>1, <1>2 DEF RequestInv, ProcLess, Fewer
<1> QED
  BY <1>3 DEF o

LEMMA FewerAppend ==
    ASSUME NEW s \in Seq(Message), NEW m \in Message, NEW C, m \notin C
    PROVE  Fewer(Append(s, m), s, C)
<1> DEFINE o == Append(s, m)
<1>1. /\ Has(o, C) <=> Has(s, C) \/ m \in C
      /\ Once(s, C) /\ ~(m \in C /\ Has(s, C)) => Once(o, C)
  BY HasAppend
<1> HIDE DEF o
<1>2. Fewer(o, s, C)
  BY <1>1 DEF Fewer
<1> QED
  BY <1>2 DEF o

LEMMA BeginStep ==
    ASSUME Inv, CallsInv, NEW c \in Endpoints, NEW id, id = conn[c].lastID + 1,
           NEW m \in Message, m.name = "sync", m.id = id, NEW k, NEW t,
           conn' = [conn EXCEPT ![c] = k], proc' = [proc EXCEPT ![processOf[c]] = t], UNCHANGED socket,
           NEW x, x = CallOf("waiting", "none"), calls' = [calls EXCEPT ![c] = Append(@, x)],
           proc[processOf[c]].alive, ProcTame(processOf[c], proc[processOf[c]], t),
           k.outgoing = Append(conn[c].outgoing, m), k.incoming = conn[c].incoming, k.waiting = conn[c].waiting,
           k.lastID = id, \A i \in Nat : Replied(k, i) => Replied(conn[c], i),
           \A i \in Nat : IsPending(k, i) => IsPending(conn[c], i) \/ i = id
    PROVE  CallsInv' /\ Promise!Begin(c)
<1> DEFINE p == processOf[c]
           q == proc[p]
           cs == calls[c]
           ds == calls'[c]
<1>1. /\ conn'[c] = k /\ \A d \in Endpoints : d # c => conn'[d] = conn[d]
      /\ \A d \in Endpoints : processOf[d] = p => proc'[processOf[d]] = t
      /\ \A d \in Endpoints : processOf[d] # p => proc'[processOf[d]] = proc[processOf[d]]
  BY StepAt
<1>2. /\ cs \in Seq(Promise!Call) /\ id = Len(cs) + 1 /\ id \in Nat /\ Len(cs) = conn[c].lastID
      /\ \A i \in Nat : CallerInv(conn[c], q, c, cs, i)
  BY CallsHere
<1>3. x \in Promise!Call /\ x.handler = "none" /\ x.caller = "waiting"
  BY DEF CallOf, Promise!Call
<1>4. ds = Append(cs, x) /\ \A d \in Endpoints : d # c => calls'[d] = calls[d]
  BY DEF Inv, TypeInv
<1> HIDE DEF cs, ds
<1>5. /\ ds \in Seq(Promise!Call) /\ Len(ds) = id /\ Len(cs) \in Nat
      /\ \A i \in 1 .. Len(cs) : ds[i] = cs[i]
      /\ ds[id] = x /\ Status(ds, id) = "none" /\ Status(cs, id) = "unknown"
      /\ \A i \in Nat : i # id => Status(ds, i) = Status(cs, i)
  <2>1. cs \in Seq(Promise!Call) /\ x \in Promise!Call /\ ds = Append(cs, x) /\ id = Len(cs) + 1
    BY <1>2, <1>3, <1>4
  <2>2. Appended(cs, ds, id, x)
    BY <2>1, CallAppended
  <2> QED
    BY <1>3, <2>2 DEF Appended
<1>6. \A d \in Endpoints : StatusKept(calls[d], calls'[d])
  <2>1. StatusKept(cs, ds)
    BY <1>5 DEF StatusKept
  <2> QED
    BY <1>4, <2>1, SameLess DEF cs, ds
<1>7. \A d \in Endpoints, i \in Nat :
          /\ ProcLess(proc[processOf[d]], proc'[processOf[d]], d, i)
          /\ AnsweredLess(proc[processOf[d]], proc'[processOf[d]], d, i)
  <2>1. ASSUME NEW d \in Endpoints, NEW i \in Nat
        PROVE  /\ ProcLess(proc[processOf[d]], proc'[processOf[d]], d, i)
               /\ AnsweredLess(proc[processOf[d]], proc'[processOf[d]], d, i)
    <3>1. CASE processOf[d] = p
      BY <1>1, <3>1, MineFacts DEF ProcTame
    <3>2. CASE processOf[d] # p
      BY <1>1, <3>2, SameLess
    <3> QED
      BY <3>1, <3>2
  <2> QED
    BY <2>1
<1>8. \A d \in Endpoints : conn'[d].incoming = conn[d].incoming /\ conn'[d].waiting = conn[d].waiting
  BY <1>1
<1>9. conn[c].outgoing \in Seq(Message)
  BY Here DEF Connections
<1>10. ASSUME NEW e \in Endpoints, NEW i \in Nat
       PROVE  RequestInv(conn'[e].outgoing, socket'[peerOf[e]], conn'[peerOf[e]].incoming,
                         proc'[processOf[peerOf[e]]], Status(calls'[e], i), peerOf[e], i)
  <2>1. peerOf[e] \in Endpoints
    BY MineFacts
  <2>2. CASE e = c /\ i = id
    <3> DEFINE a == Status(cs, id)
               b == Status(ds, id)
               d == peerOf[c]
               u == proc'[processOf[d]]
               out == conn[c].outgoing
    <3>1. RequestInv(out, socket[d], conn[d].incoming, proc[processOf[d]], a, d, id)
      BY <1>2 DEF CallsInv, cs
    <3>2. a = "unknown" /\ b = "none" /\ out \in Seq(Message) /\ ProcLess(proc[processOf[d]], u, d, id)
      BY <1>2, <1>5, <1>7, <1>9, <2>1, <2>2
    <3>3. m \in Requests(id)
      BY DEF Requests
    <3> HIDE DEF a, b, d, u, out
    <3>4. RequestInv(Append(out, m), socket[d], conn[d].incoming, u, b, d, id)
      BY <3>1, <3>2, <3>3, RequestPushed
    <3> QED
      BY <1>1, <1>8, <2>1, <2>2, <3>4 DEF b, d, u, out, ds
  <2>3. CASE ~(e = c /\ i = id)
    <3>1. Fewer(conn'[e].outgoing, conn[e].outgoing, Requests(i))
      <4>1. CASE e # c
        BY <1>1, <4>1, FewerSame
      <4>2. CASE e = c
        <5>1. m \notin Requests(i)
          BY <2>3, <4>2 DEF Requests
        <5>2. Fewer(k.outgoing, conn[c].outgoing, Requests(i))
          <6> DEFINE out == conn[c].outgoing
                     o == k.outgoing
                     C == Requests(i)
          <6>1. out \in Seq(Message) /\ m \in Message /\ m \notin C /\ o = Append(out, m)
            BY <1>9, <5>1
          <6> HIDE DEF out, o, C
          <6>2. Fewer(o, out, C)
            BY <6>1, FewerAppend
          <6> QED
            BY <6>2 DEF out, o, C
        <5> QED
          BY <1>1, <4>2, <5>2
      <4> QED
        BY <4>1, <4>2
    <3>2. Status(calls'[e], i) = Status(calls[e], i) \/ Status(calls[e], i) = "unknown"
      BY <1>6 DEF StatusKept
    <3>3. Fewer(conn'[peerOf[e]].incoming, conn[peerOf[e]].incoming, Requests(i))
          /\ Fewer(socket'[peerOf[e]], socket[peerOf[e]], Requests(i))
      BY <1>8, <2>1, FewerSame
    <3>4. ProcLess(proc[processOf[peerOf[e]]], proc'[processOf[peerOf[e]]], peerOf[e], i)
      BY <1>7, <2>1
    <3> QED
      BY <3>1, <3>2, <3>3, <3>4, RequestsLess
  <2> QED
    BY <2>2, <2>3
<1>11. ASSUME NEW e \in Endpoints, NEW i \in Nat
       PROVE  ReplyInv(conn'[peerOf[e]].outgoing, socket'[e], conn'[e], Status(calls'[e], i), i)
  <2>1. peerOf[e] \in Endpoints
    BY MineFacts
  <2>2. Replied(conn'[e], i) => Replied(conn[e], i)
    BY <1>1
  <2>3. Fewer(conn'[peerOf[e]].outgoing, conn[peerOf[e]].outgoing, Replies(i))
    <3>1. CASE peerOf[e] # c
      BY <1>1, <2>1, <3>1, FewerSame
    <3>2. CASE peerOf[e] = c
      <4>1. m \notin Replies(i)
        BY DEF Replies
      <4>2. Fewer(k.outgoing, conn[c].outgoing, Replies(i))
        <5> DEFINE out == conn[c].outgoing
                   o == k.outgoing
                   C == Replies(i)
        <5>1. out \in Seq(Message) /\ m \in Message /\ m \notin C /\ o = Append(out, m)
          BY <1>9, <4>1
        <5> HIDE DEF out, o, C
        <5>2. Fewer(o, out, C)
          BY <5>1, FewerAppend
        <5> QED
          BY <5>2 DEF out, o, C
      <4> QED
        BY <1>1, <2>1, <3>2, <4>2
    <3> QED
      BY <3>1, <3>2
  <2>4. Fewer(socket'[e], socket[e], Replies(i))
    BY FewerSame
  <2>5. Status(calls'[e], i) = Status(calls[e], i) \/ Status(calls[e], i) = "unknown"
    BY <1>6 DEF StatusKept
  <2> QED
    BY <2>2, <2>3, <2>4, <2>5, RepliesLess
<1>12. ASSUME NEW e \in Endpoints PROVE CallersOK(e)' /\ DecoderInv(conn'[e])
  <2>1. DecoderInv(conn'[e])
    <3>1. DecoderInv(conn[e])
      BY DEF CallsInv
    <3> QED
      BY <1>8, <3>1, SameDecoder
  <2>2. CASE e # c
    <3>1. StillPending(conn[e], conn'[e]) /\ calls'[e] = calls[e]
      BY <1>1, <1>4, <2>2 DEF StillPending
    <3>2. proc'[processOf[e]].alive => proc[processOf[e]].alive
      BY <1>1
    <3>3. CallersOK(e)'
      BY <1>7, <3>1, <3>2, CallersTame
    <3> QED
      BY <2>1, <3>3
  <2>3. CASE e = c
    <3>1. CountInv(k, t, ds)
      BY <1>2, <1>5 DEF CountInv
    <3>2. ASSUME NEW i \in Nat PROVE CallerInv(k, t, c, ds, i)
      <4>1. IsPending(k, i) => ds[i].caller = "waiting"
        <5>1. CASE i = id
          BY <1>3, <1>5, <5>1
        <5>2. CASE i # id /\ IsPending(k, i)
          <6>1. IsPending(conn[c], i)
            BY <5>2
          <6>2. i \in 1 .. Len(cs)
            BY <1>2, <6>1, PendingBound
          <6> QED
            BY <1>2, <1>5, <6>1, <6>2 DEF CallerInv
        <5> QED
          BY <5>1, <5>2
      <4>2. Has(t.stack, AnsweredOf(c, i)) => Status(ds, i) = "done"
        <5>1. Has(t.stack, AnsweredOf(c, i)) => Has(q.stack, AnsweredOf(c, i))
          BY <1>1, <1>7 DEF AnsweredLess
        <5>2. Has(t.stack, AnsweredOf(c, i)) => Status(cs, i) = "done"
          BY <1>2, <5>1 DEF CallerInv
        <5> QED
          BY <1>5, <5>2
      <4> QED
        BY <4>1, <4>2 DEF CallerInv
    <3>3. proc'[p] = t
      BY <1>1
    <3>4. CallersOK(c)'
      BY <1>1, <3>1, <3>2, <3>3 DEF CallersOK, ds
    <3> QED
      BY <2>1, <2>3, <3>4
  <2> QED
    BY <2>2, <2>3
<1>13. CallsInv'
  BY <1>10, <1>11, <1>12, PartsStep
<1>14. Promise!Begin(c)
  BY DEF Promise!Begin, Promise!NewCall, CallOf
<1> QED
  BY <1>13, <1>14

(* The request is sent once.                                               *)
Sends(k, j, m) == j.outgoing = Append(k.outgoing, m) /\ j.incoming = k.incoming
IsRequest(m, id) == m.name = "sync" /\ m.id = id

LEMMA RequestSent ==
    ASSUME NEW k \in Connections, NEW b \in BOOLEAN, NEW id \in Nat, NEW i, i = SendMessage(k, "sync", b, id)
    PROVE  i \in Connections /\ \E m \in Message : IsRequest(m, id) /\ Sends(k, i, m)
<1> DEFINE n == "sync"
           m == [name |-> n, flagged |-> b, id |-> id, number |-> k.sent + 1]
<1>1. n \in Names \cup {"sync", "SyncMessageReply"} /\ IsRequest(m, id) /\ i = SendMessage(k, n, b, id)
  BY DEF IsRequest
<1>2. m = [name |-> n, flagged |-> b, id |-> id, number |-> k.sent + 1]
  OBVIOUS
<1> HIDE DEF m, n
<1>3. i \in Connections /\ i.outgoing = Append(k.outgoing, m) /\ m \in Message /\ i.incoming = k.incoming
  BY <1>1, <1>2, SendEffect
<1> QED
  BY <1>1, <1>3 DEF Sends

LEMMA WithRequestSends ==
    ASSUME NEW k \in Connections, NEW b \in BOOLEAN, NEW id \in Nat, NEW x, NEW j,
           j = WithRequest(k, b, id, x) \/ (~b /\ j = WithSecondary(k, id, x))
    PROVE  \E m \in Message : IsRequest(m, id) /\ Sends(k, j, m)
<1> DEFINE i == SendMessage(k, "sync", b, id)
<1>1. i \in Connections /\ \E m \in Message : IsRequest(m, id) /\ Sends(k, i, m)
  BY RequestSent
<1>2. \/ j = [i EXCEPT !.lastID = @ + 1, !.pending = Append(@, x)]
      \/ j = [i EXCEPT !.lastID = @ + 1, !.secondary = @ \cup {x}]
  <2>1. CASE j = WithRequest(k, b, id, x)
    BY <2>1 DEF WithRequest
  <2>2. CASE ~b /\ j = WithSecondary(k, id, x)
    <3>1. b = FALSE
      BY <2>2
    <3> QED
      BY <2>2, <3>1, Zenon DEF WithSecondary
  <2> QED
    BY <2>1, <2>2
<1> HIDE DEF i
<1>3. j.outgoing = i.outgoing /\ j.incoming = i.incoming
  BY <1>1, <1>2 DEF Connections
<1> QED
  BY <1>1, <1>3 DEF Sends

LEMMA RepliedBy ==
    ASSUME NEW k, NEW j, NEW x,
           \/ k.pending \in Seq(PendingReplies) /\ x \in PendingReplies /\ ~x.reply
              /\ j.pending = Append(k.pending, x) /\ j.secondary = k.secondary
           \/ ~x.reply /\ j.pending = k.pending /\ j.secondary = k.secondary \cup {x}
    PROVE  \A i \in Nat : /\ Replied(j, i) => Replied(k, i)
                          /\ IsPending(j, i) => IsPending(k, i) \/ i = x.id
<1>1. CASE /\ k.pending \in Seq(PendingReplies) /\ x \in PendingReplies /\ ~x.reply
           /\ j.pending = Append(k.pending, x) /\ j.secondary = k.secondary
  <2> DEFINE r == k.pending
             s == j.pending
  <2>1. r \in Seq(PendingReplies) /\ x \in PendingReplies /\ s = Append(r, x)
    BY <1>1
  <2> HIDE DEF r, s
  <2>2. /\ DOMAIN s = DOMAIN r \cup {Len(r) + 1}
        /\ \A i \in DOMAIN r : s[i] = r[i]
        /\ s[Len(r) + 1] = x
    BY <2>1, AppendPlaces
  <2>3. PendingIDs(s) = PendingIDs(r) \cup {x.id}
    BY <2>1, PendingPush
  <2> QED
    BY <1>1, <2>2, <2>3 DEF Replied, IsPending, r, s
<1>2. CASE ~x.reply /\ j.pending = k.pending /\ j.secondary = k.secondary \cup {x}
  BY <1>2 DEF Replied, IsPending
<1> QED
  BY <1>1, <1>2

LEMMA SendSyncCalls ==
    ASSUME Inv, CallsInv, NEW c \in Endpoints, SendSync(c)
    PROVE  CallsInv' /\ Promise!Begin(c)
<1> DEFINE p == processOf[c]
           q == proc[p]
           id == conn[c].lastID + 1
           b == Flagged(c)
           x == [id |-> id, reply |-> FALSE]
           y == CallOf("waiting", "none")
           f == [op |-> "sync", at |-> "dispatch", c |-> c, id |-> id, ok |-> FALSE]
           k == conn[c]
           j == WithRequest(k, b, id, x)
           u == Spend(q)
           t == Push(u, f)
<1>1. conn' = [conn EXCEPT ![c] = j]
  BY Zenon DEF SendSync, NextID, WithRequest
<1>2. proc' = [proc EXCEPT ![p] = t] /\ MainMay(c, "sync") /\ UNCHANGED socket
  BY Zenon DEF SendSync, NextID
<1>3. calls' = [calls EXCEPT ![c] = Append(@, y)]
  BY Zenon DEF SendSync, CallOf
<1>4. /\ p \in Processes /\ k \in Connections /\ q \in States(p)
  BY Here
<1>5. id \in Nat /\ b \in BOOLEAN /\ x \in PendingReplies /\ x.id = id /\ ~x.reply /\ k.pending \in Seq(PendingReplies)
  BY <1>4 DEF Connections, PendingReplies, Flagged, InFlaggedMessage
<1>6. f \in Frames(p) /\ Plain(f)
  BY <1>5, MineFacts DEF Frames, SyncFrames, Plain
<1>7. u \in States(p) /\ ProcTame(p, q, u) /\ q.alive
  BY <1>2, MayFacts, TameMay DEF MainMay
<1>8. IsNextID(k, id) /\ j = WithRequest(k, b, id, x) /\ id = conn[c].lastID + 1 /\ y = CallOf("waiting", "none") /\ t = Push(u, f)
  BY DEF IsNextID
<1> HIDE DEF q, id, b, x, y, f, j, u, t
<1>9. ProcTame(p, q, t)
  <2>1. ProcTame(p, u, t)
    BY <1>6, <1>7, <1>8, TamePushed
  <2> QED
    BY <1>7, <2>1, TameTwice
<1>10. /\ j.pending = Append(k.pending, x) /\ j.lastID = id /\ j.secondary = k.secondary /\ j.waiting = k.waiting
       /\ \E m \in Message : IsRequest(m, id) /\ Sends(k, j, m)
  <2> HIDE DEF k
  <2>1. j.pending = Append(k.pending, x) /\ j.lastID = id /\ j.secondary = k.secondary /\ j.waiting = k.waiting
    BY <1>4, <1>5, <1>8, RequestEffect
  <2>2. \E m \in Message : IsRequest(m, id) /\ Sends(k, j, m)
    BY <1>4, <1>5, <1>8, WithRequestSends
  <2> QED
    BY <2>1, <2>2
<1>11. PICK m \in Message : IsRequest(m, id) /\ Sends(k, j, m)
  BY <1>10
<1>12. m.name = "sync" /\ m.id = id /\ j.outgoing = Append(conn[c].outgoing, m) /\ j.incoming = conn[c].incoming
       /\ j.waiting = conn[c].waiting /\ j.lastID = id
  BY <1>10, <1>11 DEF IsRequest, Sends
<1>13. \A i \in Nat : (Replied(j, i) => Replied(conn[c], i)) /\ (IsPending(j, i) => IsPending(conn[c], i) \/ i = id)
  <2> HIDE DEF k
  <2>1. \A i \in Nat : (Replied(j, i) => Replied(k, i)) /\ (IsPending(j, i) => IsPending(k, i) \/ i = x.id)
    BY <1>5, <1>10, RepliedBy
  <2> QED
    BY <1>5, <2>1 DEF k
<1> QED
  BY <1>1, <1>2, <1>3, <1>7, <1>8, <1>9, <1>11, <1>12, <1>13, BeginStep DEF q

LEMMA SecondarySendCalls ==
    ASSUME Inv, CallsInv, NEW c \in Endpoints, SecondarySend(c)
    PROVE  CallsInv' /\ Promise!Begin(c)
<1> DEFINE p == processOf[c]
           q == proc[p]
           k == conn[c]
           id == k.lastID + 1
           x == [id |-> id, reply |-> FALSE, signalled |-> FALSE]
           y == CallOf("waiting", "none")
           b == FALSE
           j == WithSecondary(k, id, x)
           t == Spend(q)
<1>1. May(c, "secondary") /\ UNCHANGED socket
  BY DEF SecondarySend
<1>2. conn' = [conn EXCEPT ![c] = j] /\ proc' = [proc EXCEPT ![p] = t]
  BY Zenon DEF SecondarySend, NextID, WithSecondary
<1>3. calls' = [calls EXCEPT ![c] = Append(@, y)]
  BY Zenon DEF SecondarySend, CallOf
<1>4. k \in Connections
  BY Here
<1>5. id \in Nat /\ x \in SecondaryReplies /\ x.id = id /\ ~x.reply /\ b \in BOOLEAN /\ ~b
  BY <1>4 DEF Connections, SecondaryReplies
<1>6. IsNextID(k, id) /\ j = WithSecondary(k, id, x) /\ id = conn[c].lastID + 1 /\ y = CallOf("waiting", "none")
  BY DEF IsNextID
<1>7. ProcTame(p, q, t) /\ q.alive
  BY <1>1, TameMay
<1> HIDE DEF q, id, x, y, b, j, t
<1>8. /\ j.pending = k.pending /\ j.lastID = id /\ j.secondary = k.secondary \cup {x} /\ j.waiting = k.waiting
      /\ \E m \in Message : IsRequest(m, id) /\ Sends(k, j, m)
  <2> HIDE DEF k
  <2>1. j.pending = k.pending /\ j.lastID = id /\ j.secondary = k.secondary \cup {x} /\ j.waiting = k.waiting
    BY <1>4, <1>5, <1>6, SecondaryEffect
  <2>2. \E m \in Message : IsRequest(m, id) /\ Sends(k, j, m)
    BY <1>4, <1>5, <1>6, WithRequestSends
  <2> QED
    BY <2>1, <2>2
<1>9. PICK m \in Message : IsRequest(m, id) /\ Sends(k, j, m)
  BY <1>8
<1>10. m.name = "sync" /\ m.id = id /\ j.outgoing = Append(conn[c].outgoing, m) /\ j.incoming = conn[c].incoming
       /\ j.waiting = conn[c].waiting /\ j.lastID = id
  BY <1>8, <1>9 DEF IsRequest, Sends
<1>11. \A i \in Nat : (Replied(j, i) => Replied(conn[c], i)) /\ (IsPending(j, i) => IsPending(conn[c], i) \/ i = id)
  <2> HIDE DEF k
  <2>1. \A i \in Nat : (Replied(j, i) => Replied(k, i)) /\ (IsPending(j, i) => IsPending(k, i) \/ i = x.id)
    BY <1>5, <1>8, RepliedBy
  <2> QED
    BY <1>5, <2>1 DEF k
<1> QED
  BY <1>1, <1>2, <1>3, <1>6, <1>7, <1>9, <1>10, <1>11, BeginStep DEF q

(* A step of one connection that changes the caller's side of its calls.   *)
LEMMA CallersStep ==
    ASSUME Inv, CallsInv, NEW c \in Endpoints, NEW k, NEW t, conn' = [conn EXCEPT ![c] = k], UNCHANGED socket,
           proc' = [proc EXCEPT ![processOf[c]] = t] \/ (proc' = proc /\ t = proc[processOf[c]]),
           ConnLess(conn[c], k), ProcTame(processOf[c], proc[processOf[c]], t),
           t.alive => proc[processOf[c]].alive,
           \A d \in Endpoints : d # c => calls'[d] = calls[d],
           StatusKept(calls[c], calls'[c]), CountInv(k, t, calls'[c]),
           \A i \in Nat : IsPending(k, i) => calls'[c][i].caller = "waiting"
    PROVE  CallsInv'
<1> DEFINE p == processOf[c]
<1>1. /\ conn'[c] = k /\ \A d \in Endpoints : d # c => conn'[d] = conn[d]
  BY DEF Inv, TypeInv
<1>2. /\ \A d \in Endpoints : processOf[d] = p => proc'[processOf[d]] = t
      /\ \A d \in Endpoints : processOf[d] # p => proc'[processOf[d]] = proc[processOf[d]]
  <2>1. CASE proc' = [proc EXCEPT ![p] = t]
    <3>1. p \in DOMAIN proc /\ \A d \in Endpoints : processOf[d] \in DOMAIN proc
      BY MineFacts DEF Inv, TypeInv
    <3> QED
      BY <2>1, <3>1
  <2>2. CASE proc' = proc /\ t = proc[p]
    BY <2>2
  <2> QED
    BY <2>1, <2>2
<1>3. \A d \in Endpoints, i \in Nat :
          /\ ProcLess(proc[processOf[d]], proc'[processOf[d]], d, i)
          /\ AnsweredLess(proc[processOf[d]], proc'[processOf[d]], d, i)
  <2>1. ASSUME NEW d \in Endpoints, NEW i \in Nat
        PROVE  /\ ProcLess(proc[processOf[d]], proc'[processOf[d]], d, i)
               /\ AnsweredLess(proc[processOf[d]], proc'[processOf[d]], d, i)
    <3>1. CASE processOf[d] = p
      BY <1>2, <3>1, MineFacts DEF ProcTame
    <3>2. CASE processOf[d] # p
      BY <1>2, <3>2, SameLess
    <3> QED
      BY <3>1, <3>2
  <2> QED
    BY <2>1
<1>4. ASSUME NEW d \in Endpoints
      PROVE  /\ ConnLess(conn[d], conn'[d]) /\ SocketLess(socket[d], socket'[d])
             /\ StatusKept(calls[d], calls'[d]) /\ CallersOK(d)'
  <2>1. SocketLess(socket[d], socket'[d])
    BY SameLess
  <2>2. CASE d # c
    <3>1. ConnLess(conn[d], conn'[d]) /\ StatusKept(calls[d], calls'[d])
      BY <1>1, <2>2, SameLess DEF ConnTame
    <3>2. StillPending(conn[d], conn'[d]) /\ calls'[d] = calls[d]
      BY <1>1, <2>2 DEF StillPending
    <3>3. proc'[processOf[d]].alive => proc[processOf[d]].alive
      BY <1>2
    <3>4. CallersOK(d)'
      BY <1>3, <3>2, <3>3, CallersTame
    <3> QED
      BY <2>1, <3>1, <3>4
  <2>3. CASE d = c
    <3>1. ASSUME NEW i \in Nat PROVE CallerInv(k, t, c, calls'[c], i)
      <4>1. Has(t.stack, AnsweredOf(c, i)) => Has(proc[p].stack, AnsweredOf(c, i))
        BY <1>2, <1>3 DEF AnsweredLess
      <4>2. Has(t.stack, AnsweredOf(c, i)) => Status(calls[c], i) = "done"
        BY <4>1, CallsHere DEF CallerInv
      <4>3. Has(t.stack, AnsweredOf(c, i)) => Status(calls'[c], i) = "done"
        BY <4>2 DEF StatusKept
      <4> QED
        BY <4>3 DEF CallerInv
    <3>2. CallersOK(c)'
      BY <1>1, <1>2, <3>1 DEF CallersOK
    <3> QED
      BY <1>1, <2>1, <2>3, <3>2
  <2> QED
    BY <2>2, <2>3
<1> QED
  BY <1>3, <1>4, LessStep

WithoutCall(k) == [k EXCEPT !.lastID = @ + 1]

LEMMA SendSyncFailsCalls ==
    ASSUME Inv, CallsInv, NEW c \in Endpoints, SendSyncFails(c)
    PROVE  CallsInv' /\ Promise!Refuse(c)
<1> DEFINE p == processOf[c]
           q == proc[p]
           k == conn[c]
           j == WithoutCall(k)
           t == Spend(q)
           y == CallOf("failed", "none")
           cs == calls[c]
           ds == calls'[c]
           id == Len(cs) + 1
<1>1. /\ May(c, "sync") /\ DidFailToSendSyncMessage(c, t, j)
      /\ calls' = [calls EXCEPT ![c] = Append(@, y)]
  BY DEF SendSyncFails, MainMay, WithoutCall, CallOf
<1>2. ds = Append(cs, y) /\ \A d \in Endpoints : d # c => calls'[d] = calls[d]
  BY <1>1 DEF Inv, TypeInv
<1>3. ProcTame(p, q, t) /\ q.alive /\ k \in Connections /\ p \in Processes
  BY <1>1, TameMay, Here
<1>4. /\ cs \in Seq(Promise!Call) /\ Len(cs) \in Nat /\ Len(cs) = k.lastID /\ DOMAIN cs = 1 .. Len(cs)
      /\ \A i \in Nat : CallerInv(k, q, c, cs, i)
  BY <1>3, CallsHere
<1>5. y \in Promise!Call
  BY DEF CallOf, Promise!Call
<1>6. Promise!Refuse(c)
  <2>1. y = [Promise!NewCall EXCEPT !.caller = "failed"]
    BY DEF CallOf, Promise!NewCall
  <2> QED
    BY <1>1, <2>1 DEF Promise!Refuse
<1>7. id = Len(cs) + 1
  OBVIOUS
<1> HIDE DEF cs, ds, y, id
<1>8. Appended(cs, ds, id, y)
  BY <1>2, <1>4, <1>5, <1>7, CallAppended
<1>9. StatusKept(cs, ds) /\ ds \in Seq(Promise!Call)
  BY <1>8 DEF Appended, StatusKept
<1>10. CASE c \in ExitOnFailure
  <2>1. Die(p)
    BY <1>1, <1>10 DEF DidFailToSendSyncMessage
  <2>2. \A d \in Endpoints : /\ StatusKept(calls[d], calls'[d]) /\ calls'[d] \in Seq(Promise!Call)
                             /\ processOf[d] # p => calls'[d] = calls[d]
    BY <1>2, <1>9, SameLess, CallsHere DEF cs, ds
  <2> QED
    BY <1>3, <1>6, <2>1, <2>2, DieCalls
<1>11. CASE c \notin ExitOnFailure
  <2>1. conn' = [conn EXCEPT ![c] = j] /\ proc' = [proc EXCEPT ![p] = t] /\ UNCHANGED socket
    BY <1>1, <1>11 DEF DidFailToSendSyncMessage
  <2>2. /\ j.pending = k.pending /\ j.secondary = k.secondary /\ j.outgoing = k.outgoing /\ j.incoming = k.incoming
        /\ j.waiting = k.waiting /\ j.lastID = k.lastID + 1
    <3> HIDE DEF k
    <3> QED
      BY <1>3 DEF Connections, WithoutCall
  <2>3. ConnLess(k, j)
    <3>1. \A i : Replied(j, i) => Replied(k, i)
      BY <2>2 DEF Replied
    <3> HIDE DEF j, k
    <3> QED
      BY <2>2, <3>1, FewerSame, SameDecoder DEF ConnLess
  <2>4. CountInv(j, t, ds)
    BY <1>4, <1>7, <1>8, <2>2 DEF CountInv, Appended
  <2>5. ASSUME NEW i \in Nat, IsPending(j, i) PROVE ds[i].caller = "waiting"
    <3>1. IsPending(k, i)
      BY <2>2, <2>5 DEF IsPending
    <3>2. i \in 1 .. Len(cs)
      BY <1>4, <3>1, PendingBound
    <3>3. cs[i].caller = "waiting"
      BY <1>4, <3>1 DEF CallerInv
    <3> QED
      BY <1>8, <3>2, <3>3 DEF Appended
  <2>6. \A i \in Nat : IsPending(j, i) => ds[i].caller = "waiting"
    BY <2>5
  <2> HIDE DEF j, t
  <2>7. CallsInv'
    BY <1>2, <1>3, <1>9, <2>1, <2>3, <2>4, <2>6, CallersStep DEF cs, ds
  <2> QED
    BY <1>6, <2>7
<1> QED
  BY <1>10, <1>11

Changed(cs, ds, id) ==
    /\ ds \in Seq(Promise!Call) /\ Len(ds) = Len(cs) /\ \A i \in Nat : Status(ds, i) = Status(cs, i)
    /\ \A i \in DOMAIN cs : i # id => ds[i] = cs[i]

LEMMA CallChanged ==
    ASSUME NEW cs \in Seq(Promise!Call), NEW id \in DOMAIN cs, NEW x \in {"answered", "failed"},
           NEW ds, ds = [cs EXCEPT ![id].caller = x]
    PROVE  Changed(cs, ds, id)
<1> DEFINE y == [cs[id] EXCEPT !.caller = x]
<1>1. cs[id] \in Promise!Call
  OBVIOUS
<1>2. y \in Promise!Call /\ y.handler = cs[id].handler
  BY <1>1 DEF Promise!Call
<1>3. ds = [cs EXCEPT ![id] = y]
  OBVIOUS
<1> HIDE DEF y
<1>4. Len(cs) \in Nat /\ DOMAIN cs = 1 .. Len(cs) /\ cs \in [1 .. Len(cs) -> Promise!Call]
  BY LenProperties
<1>5. ds \in [1 .. Len(cs) -> Promise!Call] /\ ds[id] = y /\ \A i \in DOMAIN cs : i # id => ds[i] = cs[i]
  BY <1>2, <1>3, <1>4
<1>6. ds \in Seq(Promise!Call) /\ Len(ds) = Len(cs) /\ DOMAIN ds = DOMAIN cs
  BY <1>4, <1>5
<1>7. \A i \in Nat : Status(ds, i) = Status(cs, i)
  BY <1>2, <1>5, <1>6 DEF Status
<1> QED
  BY <1>5, <1>6, <1>7 DEF Changed

LEMMA EndCall ==
    ASSUME Inv, CallsInv, NEW c \in Endpoints, NEW id \in Nat, IsPending(conn[c], id), NEW x \in {"answered", "failed"},
           x = "answered" => Status(calls[c], id) = "done", calls' = [calls EXCEPT ![c][id].caller = x]
    PROVE  /\ Changed(calls[c], calls'[c], id) /\ \A d \in Endpoints : d # c => calls'[d] = calls[d]
           /\ id \in DOMAIN calls[c] /\ (Promise!Answer(c, id) \/ Promise!Fail(c, id))
<1> DEFINE cs == calls[c]
<1>1. /\ cs \in Seq(Promise!Call) /\ Len(cs) \in Nat /\ DOMAIN cs = 1 .. Len(cs) /\ conn[c].lastID <= Len(cs)
      /\ CallerInv(conn[c], proc[processOf[c]], c, cs, id)
  BY CallsHere
<1>2. conn[c].lastID \in Nat
  BY Here DEF Connections
<1>3. id \in DOMAIN cs
  BY <1>1, <1>2, PendingBound
<1>4. calls'[c] = [cs EXCEPT ![id].caller = x] /\ \A d \in Endpoints : d # c => calls'[d] = calls[d]
  BY DEF Inv, TypeInv
<1>5. Changed(cs, calls'[c], id)
  BY <1>1, <1>3, <1>4, CallChanged
<1>6. cs[id].caller = "waiting" /\ cs[id] \in Promise!Call
  BY <1>1, <1>3 DEF CallerInv
<1>7. CASE x = "failed"
  BY <1>3, <1>4, <1>5, <1>6, <1>7 DEF Promise!Fail
<1>8. CASE x = "answered"
  <2>1. cs[id].handler = "done"
    BY <1>3, <1>8 DEF Status
  <2>2. cs[id] = [caller |-> "waiting", handler |-> "done"]
    BY <1>6, <2>1 DEF Promise!Call
  <2> QED
    BY <1>3, <1>4, <1>5, <1>8, <2>2 DEF Promise!Answer
<1> QED
  BY <1>7, <1>8

LEMMA EndStep ==
    ASSUME Inv, CallsInv, NEW c \in Endpoints, NEW id \in Nat, NEW k, NEW t,
           conn' = [conn EXCEPT ![c] = k], UNCHANGED socket,
           proc' = [proc EXCEPT ![processOf[c]] = t] \/ (proc' = proc /\ t = proc[processOf[c]]),
           ConnTame(conn[c], k), ~IsPending(k, id),
           ProcTame(processOf[c], proc[processOf[c]], t), t.alive => proc[processOf[c]].alive,
           id \in DOMAIN calls[c], Changed(calls[c], calls'[c], id),
           \A d \in Endpoints : d # c => calls'[d] = calls[d]
    PROVE  CallsInv'
<1> DEFINE cs == calls[c]
           ds == calls'[c]
<1>1. /\ cs \in Seq(Promise!Call) /\ Len(cs) \in Nat /\ DOMAIN cs = 1 .. Len(cs) /\ conn[c].lastID <= Len(cs)
      /\ (proc[processOf[c]].alive => Len(cs) = conn[c].lastID)
      /\ \A i \in Nat : CallerInv(conn[c], proc[processOf[c]], c, cs, i)
  BY CallsHere
<1>2. ConnLess(conn[c], k) /\ k.lastID = conn[c].lastID /\ \A i \in Nat : IsPending(k, i) => IsPending(conn[c], i)
  BY DEF ConnTame, StillPending
<1> HIDE DEF cs, ds
<1>3. StatusKept(cs, ds) /\ ds \in Seq(Promise!Call) /\ Len(ds) = Len(cs)
  BY DEF Changed, StatusKept, cs, ds
<1>4. CountInv(k, t, ds)
  BY <1>1, <1>2, <1>3 DEF CountInv
<1>5. ASSUME NEW i \in Nat, IsPending(k, i) PROVE ds[i].caller = "waiting"
  <2>1. IsPending(conn[c], i) /\ i # id
    BY <1>2, <1>5
  <2>2. conn[c].lastID \in Nat
    BY Here DEF Connections
  <2>3. i \in DOMAIN cs
    BY <1>1, <2>1, <2>2, PendingBound
  <2>4. cs[i].caller = "waiting"
    BY <1>1, <2>1 DEF CallerInv
  <2> QED
    BY <2>1, <2>3, <2>4 DEF Changed, cs, ds
<1>6. \A i \in Nat : IsPending(k, i) => ds[i].caller = "waiting"
  BY <1>5
<1> QED
  BY <1>2, <1>3, <1>4, <1>6, CallersStep DEF cs, ds

Shorter(k) == [k EXCEPT !.pending = Front(@)]
Outcome(ok) == IF ok THEN "answered" ELSE "failed"

LEMMA ShorterEffect ==
    ASSUME NEW k \in Connections, k.pending # <<>>, PendingNest(k.pending), IDsInv(k), NEW j, j = Shorter(k)
    PROVE  ConnTame(k, j) /\ ~IsPending(j, Last(k.pending).id)
<1>1. k.pending \in Seq(PendingReplies)
  BY DEF Connections
<1>2. /\ j.pending = Front(k.pending) /\ j.lastID = k.lastID /\ j.secondary = k.secondary /\ j.waiting = k.waiting
      /\ j.outgoing = k.outgoing /\ j.incoming = k.incoming
  BY DEF Connections, Shorter
<1>3. /\ PendingIDs(j.pending) = PendingIDs(k.pending) \ {Last(k.pending).id}
      /\ \A i \in DOMAIN j.pending : i \in DOMAIN k.pending /\ j.pending[i] = k.pending[i]
  BY <1>1, <1>2, PendingPop
<1>4. Last(k.pending).id \in PendingIDs(k.pending)
  <2>1. Len(k.pending) \in DOMAIN k.pending /\ Last(k.pending) = k.pending[Len(k.pending)]
    BY <1>1, LenProperties, EmptySeq DEF Last
  <2> QED
    BY <2>1 DEF PendingIDs
<1>5. \A i \in Nat : Replied(j, i) => Replied(k, i)
  BY <1>2, <1>3 DEF Replied
<1>6. \A i \in Nat : IsPending(j, i) => IsPending(k, i)
  BY <1>2, <1>3 DEF IsPending
<1>7. ~IsPending(j, Last(k.pending).id)
  BY <1>2, <1>3, <1>4 DEF IsPending, IDsInv
<1>8. ConnLess(k, j)
  BY <1>2, <1>5, FewerSame, SameDecoder DEF ConnLess
<1> QED
  BY <1>2, <1>6, <1>7, <1>8 DEF ConnTame, StillPending

LEMMA SyncReturnsCalls ==
    ASSUME Inv, CallsInv, NEW p \in Processes, SyncReturns(p)
    PROVE  /\ CallsInv'
           /\ \E c \in Endpoints : \E id \in DOMAIN calls[c] : Promise!Answer(c, id) \/ Promise!Fail(c, id)
<1> DEFINE q == proc[p]
           g == Head(q.stack)
           c == g.c
           id == g.id
           k == conn[c]
           j == Shorter(k)
           t == Pop(q)
           x == Outcome(g.ok)
<1>1. q.stack # <<>> /\ g.op = "sync" /\ Top(p) = g
  BY AtFacts DEF SyncReturns
<1>2. c \in Mine(p) /\ LocalInv(k, q, c) /\ k \in Connections /\ c \in Endpoints /\ processOf[c] = p
  BY <1>1, TopConnection
<1>3. q \in States(p) /\ q.stack \in Seq(Frames(p)) /\ g \in Frames(p) /\ q.alive
  BY <1>1, TopFacts
<1>4. g \in SyncFrames(p) /\ id \in Nat /\ g.ok \in BOOLEAN
  <2> HIDE DEF q, g
  <2>1. g \in SyncFrames(p)
    BY <1>1, <1>3, Zenon DEF Frames, HandleFrames, SyncFrames, DispatchFrames, ResetFrames, WaitFrames
  <2> QED
    BY <2>1 DEF SyncFrames
<1>5. /\ calls' = [calls EXCEPT ![c][id].caller = x]
      /\ \/ DidFailToSendSyncMessage(c, t, j)
         \/ proc' = [proc EXCEPT ![p] = t] /\ conn' = [conn EXCEPT ![c] = j] /\ UNCHANGED socket
  BY <1>1, Zenon DEF SyncReturns, Shorter, Outcome
<1>6. k.pending # <<>> /\ Last(k.pending).id = id /\ Len(k.pending) \in DOMAIN k.pending
      /\ Last(k.pending) = k.pending[Len(k.pending)] /\ PendingNest(k.pending) /\ IDsInv(k)
  <2> DEFINE st == q.stack
             pending == k.pending
  <2>1. /\ st \in Seq(Frames(p)) /\ pending \in Seq(PendingReplies) /\ Matches(pending, st, c) /\ IsSync(Head(st), c)
        /\ PendingNest(pending) /\ IDsInv(k) /\ st # <<>>
    BY <1>1, <1>2, <1>3, Zenon DEF States, Connections, LocalInv, IsSync, Matches
  <2> HIDE DEF st, pending, c
  <2>2. pending # <<>> /\ Last(pending) = pending[Len(pending)] /\ Len(pending) \in DOMAIN pending
        /\ Last(pending).id = Head(st).id
    BY <2>1, TopCall
  <2> QED
    BY <2>1, <2>2 DEF st, pending
<1>7. IsPending(conn[c], id)
  BY <1>6, Zenon DEF IsPending, PendingIDs
<1>8. x \in {"answered", "failed"} /\ (x = "answered" => Status(calls[c], id) = "done")
  <2>1. x = "answered" => g.ok
    BY DEF Outcome
  <2>2. g.ok => g \in AnsweredOf(c, id)
    BY <1>1, <1>2, <1>4 DEF AnsweredOf
  <2>3. g \in AnsweredOf(c, id) => Has(q.stack, AnsweredOf(c, id))
    BY <1>1, <1>3, HasTail
  <2>4. CallerInv(conn[c], q, c, calls[c], id)
    BY <1>2, <1>4, CallsHere
  <2>5. x \in {"answered", "failed"}
    BY DEF Outcome
  <2> QED
    BY <2>1, <2>2, <2>3, <2>4, <2>5 DEF CallerInv
<1>9. j = Shorter(k) /\ t = Pop(q)
  OBVIOUS
<1> HIDE DEF x, j, t, q, g, c, id
<1>10. /\ Changed(calls[c], calls'[c], id) /\ \A d \in Endpoints : d # c => calls'[d] = calls[d]
       /\ id \in DOMAIN calls[c] /\ (Promise!Answer(c, id) \/ Promise!Fail(c, id))
  BY <1>2, <1>4, <1>5, <1>7, <1>8, EndCall
<1>11. CASE Die(p)
  <2>1. ASSUME NEW d \in Endpoints
        PROVE  /\ StatusKept(calls[d], calls'[d]) /\ calls'[d] \in Seq(Promise!Call)
               /\ processOf[d] # p => calls'[d] = calls[d]
    <3>1. CASE d = c
      BY <1>2, <1>10, <3>1 DEF Changed, StatusKept
    <3>2. CASE d # c
      BY <1>10, <3>2, SameLess, CallsHere
    <3> QED
      BY <3>1, <3>2
  <2>2. CallsInv'
    BY <1>11, <2>1, DieCalls
  <2> QED
    BY <1>2, <1>10, <2>2
<1>12. CASE proc' = [proc EXCEPT ![p] = t] /\ conn' = [conn EXCEPT ![c] = j] /\ UNCHANGED socket
  <2>1. ProcTame(p, q, t) /\ t.alive = q.alive
    BY <1>1, <1>3, <1>9, TamePopped
  <2>2. ConnTame(conn[c], j) /\ ~IsPending(j, id)
    <3>1. ConnTame(k, j) /\ ~IsPending(j, Last(k.pending).id)
      <4> HIDE DEF k
      <4> QED
        BY <1>2, <1>6, <1>9, ShorterEffect
    <3> QED
      BY <1>6, <3>1
  <2>3. CallsInv'
    BY <1>2, <1>3, <1>4, <1>10, <1>12, <2>1, <2>2, EndStep DEF q
  <2> QED
    BY <1>2, <1>10, <2>3
<1> QED
  BY <1>2, <1>5, <1>11, <1>12 DEF DidFailToSendSyncMessage

LEMMA WithoutSecondaryEffect ==
    ASSUME NEW k \in Connections, IDsInv(k), NEW s \in k.secondary, NEW j, j = WithoutSecondary(k, s)
    PROVE  ConnTame(k, j) /\ ~IsPending(j, s.id) /\ s.id \in Nat /\ s.reply \in BOOLEAN
<1>1. k.secondary \subseteq SecondaryReplies
  BY DEF Connections
<1>2. /\ j.pending = k.pending /\ j.lastID = k.lastID /\ j.secondary = k.secondary \ {s} /\ j.waiting = k.waiting
      /\ j.outgoing = k.outgoing /\ j.incoming = k.incoming
  BY DEF Connections, WithoutSecondary
<1>3. \A i \in Nat : Replied(j, i) => Replied(k, i)
  BY <1>2 DEF Replied
<1>4. \A i \in Nat : IsPending(j, i) => IsPending(k, i)
  BY <1>2 DEF IsPending
<1>5. ~IsPending(j, s.id)
  BY <1>2 DEF IsPending, IDsInv
<1>6. ConnLess(k, j)
  BY <1>2, <1>3, FewerSame, SameDecoder DEF ConnLess
<1>7. s.id \in Nat /\ s.reply \in BOOLEAN
  BY <1>1 DEF SecondaryReplies
<1> QED
  BY <1>2, <1>4, <1>5, <1>6, <1>7 DEF ConnTame, StillPending

LEMMA SecondaryEndsCalls ==
    ASSUME Inv, CallsInv, NEW c \in Endpoints, NEW s \in conn[c].secondary, SecondaryEnds(c, s)
    PROVE  CallsInv' /\ \E id \in DOMAIN calls[c] : Promise!Answer(c, id) \/ Promise!Fail(c, id)
<1> DEFINE k == conn[c]
           j == WithoutSecondary(k, s)
           id == s.id
           x == Outcome(s.reply)
           t == proc[processOf[c]]
<1>1. conn' = [conn EXCEPT ![c] = j] /\ UNCHANGED <<proc, socket>> /\ calls' = [calls EXCEPT ![c][id].caller = x]
  BY DEF SecondaryEnds, WithoutSecondary, Outcome
<1>2. k \in Connections /\ IDsInv(k) /\ j = WithoutSecondary(k, s) /\ t = proc[processOf[c]]
  BY Here DEF LocalInv
<1>3. IsPending(conn[c], id)
  BY DEF IsPending
<1> HIDE DEF j, t
<1>4. ConnTame(k, j) /\ ~IsPending(j, id) /\ id \in Nat /\ s.reply \in BOOLEAN
  <2>1. s \in k.secondary
    OBVIOUS
  <2> HIDE DEF k
  <2> QED
    BY <1>2, <2>1, WithoutSecondaryEffect
<1>5. x \in {"answered", "failed"} /\ (x = "answered" => Status(calls[c], id) = "done")
  <2>1. x = "answered" => s.reply
    BY DEF Outcome
  <2>2. s.reply => Replied(k, id)
    BY DEF Replied
  <2>3. ReplyInv(conn[peerOf[c]].outgoing, socket[c], k, Status(calls[c], id), id)
    BY <1>4 DEF CallsInv
  <2>4. x \in {"answered", "failed"}
    BY DEF Outcome
  <2> QED
    BY <2>1, <2>2, <2>3, <2>4 DEF ReplyInv
<1> HIDE DEF x, id
<1>6. /\ Changed(calls[c], calls'[c], id) /\ \A d \in Endpoints : d # c => calls'[d] = calls[d]
      /\ id \in DOMAIN calls[c] /\ (Promise!Answer(c, id) \/ Promise!Fail(c, id))
  BY <1>1, <1>3, <1>4, <1>5, EndCall
<1>7. ProcTame(processOf[c], proc[processOf[c]], t) /\ (t.alive => proc[processOf[c]].alive)
  BY <1>2, ProcTameItself
<1>8. CallsInv'
  BY <1>1, <1>2, <1>4, <1>6, <1>7, EndStep
<1> QED
  BY <1>6, <1>8
-----------------------------------------------------------------------------
(***************************************************************************)
(* A handler begins or ends: the call of the other side moves on.          *)
(***************************************************************************)

Advanced(cs, ds, id, s) ==
    /\ ds \in Seq(Promise!Call) /\ Len(ds) = Len(cs) /\ Status(ds, id) = s
    /\ \A i \in Nat : i # id => Status(ds, i) = Status(cs, i)
    /\ \A i \in DOMAIN cs : ds[i].caller = cs[i].caller

LEMMA CallAdvanced ==
    ASSUME NEW cs \in Seq(Promise!Call), NEW id \in DOMAIN cs, NEW s \in {"running", "done"},
           NEW ds, ds = [cs EXCEPT ![id].handler = s]
    PROVE  Advanced(cs, ds, id, s)
<1> DEFINE y == [cs[id] EXCEPT !.handler = s]
<1>1. cs[id] \in Promise!Call
  OBVIOUS
<1>2. y \in Promise!Call /\ y.handler = s /\ y.caller = cs[id].caller
  BY <1>1 DEF Promise!Call
<1>3. ds = [cs EXCEPT ![id] = y]
  OBVIOUS
<1> HIDE DEF y
<1>4. Len(cs) \in Nat /\ DOMAIN cs = 1 .. Len(cs) /\ cs \in [1 .. Len(cs) -> Promise!Call]
  BY LenProperties
<1>5. ds \in [1 .. Len(cs) -> Promise!Call] /\ ds[id] = y /\ \A i \in DOMAIN cs : i # id => ds[i] = cs[i]
  BY <1>2, <1>3, <1>4
<1>6. ds \in Seq(Promise!Call) /\ Len(ds) = Len(cs) /\ DOMAIN ds = DOMAIN cs
  BY <1>4, <1>5
<1>7. Status(ds, id) = s /\ \A i \in Nat : i # id => Status(ds, i) = Status(cs, i)
  BY <1>2, <1>5, <1>6 DEF Status
<1>8. \A i \in DOMAIN cs : ds[i].caller = cs[i].caller
  BY <1>2, <1>5
<1> QED
  BY <1>6, <1>7, <1>8 DEF Advanced

LEMMA StatusDomain ==
    ASSUME NEW cs, NEW id, Status(cs, id) \in {"none", "running", "done"}
    PROVE  id \in DOMAIN cs /\ cs[id].handler = Status(cs, id)
  BY DEF Status

LEMMA AdvanceCalls ==
    ASSUME Inv, CallsInv, NEW e \in Endpoints, NEW id \in Nat, NEW s \in {"running", "done"},
           Status(calls[e], id) \in {"none", "running"}, calls' = [calls EXCEPT ![e][id].handler = s]
    PROVE  /\ Advanced(calls[e], calls'[e], id, s) /\ id \in DOMAIN calls[e]
           /\ \A d \in Endpoints : d # e => calls'[d] = calls[d]
           /\ Status(calls[e], id) = "none" /\ s = "running" => Promise!Handle(e, id)
           /\ Status(calls[e], id) = "running" /\ s = "done" => Promise!Finish(e, id)
<1> DEFINE cs == calls[e]
<1>1. id \in DOMAIN cs /\ cs[id].handler = Status(cs, id)
  BY StatusDomain
<1>2. cs \in Seq(Promise!Call)
  BY CallsHere
<1>3. calls'[e] = [cs EXCEPT ![id].handler = s] /\ \A d \in Endpoints : d # e => calls'[d] = calls[d]
  BY DEF Inv, TypeInv
<1>4. Advanced(cs, calls'[e], id, s)
  BY <1>1, <1>2, <1>3, CallAdvanced
<1> QED
  BY <1>1, <1>3, <1>4 DEF Promise!Handle, Promise!Finish

(* What the caller knows is not touched.                                   *)
LEMMA AdvanceCaller ==
    ASSUME Inv, CallsInv, NEW e \in Endpoints, NEW id \in Nat, NEW s, Advanced(calls[e], calls'[e], id, s),
           Status(calls[e], id) # "done", StillPending(conn[e], conn'[e]),
           proc'[processOf[e]].alive => proc[processOf[e]].alive,
           \A i \in Nat : AnsweredLess(proc[processOf[e]], proc'[processOf[e]], e, i)
    PROVE  CallersOK(e)'
<1> DEFINE cs == calls[e]
           ds == calls'[e]
           k == conn[e]
           j == conn'[e]
           q == proc[processOf[e]]
           t == proc'[processOf[e]]
<1>1. /\ cs \in Seq(Promise!Call) /\ Len(cs) \in Nat /\ DOMAIN cs = 1 .. Len(cs) /\ k.lastID <= Len(cs)
      /\ (q.alive => Len(cs) = k.lastID) /\ k.lastID \in Nat
      /\ \A i \in Nat : CallerInv(k, q, e, cs, i)
  BY CallsHere, Here DEF Connections
<1> HIDE DEF cs, ds, k, j, q, t
<1>2. /\ ds \in Seq(Promise!Call) /\ Len(ds) = Len(cs) /\ \A i \in Nat : i # id => Status(ds, i) = Status(cs, i)
      /\ \A i \in DOMAIN cs : ds[i].caller = cs[i].caller
  BY DEF Advanced, cs, ds
<1>3. j.lastID = k.lastID /\ \A i \in Nat : IsPending(j, i) => IsPending(k, i)
  BY DEF StillPending, j, k
<1>4. CountInv(j, t, ds)
  BY <1>1, <1>2, <1>3 DEF CountInv, t, q
<1>5. ASSUME NEW i \in Nat PROVE CallerInv(j, t, e, ds, i)
  <2>1. IsPending(j, i) => ds[i].caller = "waiting"
    <3>1. SUFFICES ASSUME IsPending(j, i) PROVE ds[i].caller = "waiting"
      OBVIOUS
    <3>2. IsPending(k, i)
      BY <1>3, <3>1
    <3>3. i \in DOMAIN cs
      BY <1>1, <3>2, PendingBound DEF k
    <3> QED
      BY <1>1, <1>2, <3>2, <3>3 DEF CallerInv
  <2>2. Has(t.stack, AnsweredOf(e, i)) => Has(q.stack, AnsweredOf(e, i))
    BY DEF AnsweredLess, t, q
  <2>3. Has(t.stack, AnsweredOf(e, i)) => Status(cs, i) = "done"
    BY <1>1, <2>2 DEF CallerInv
  <2>4. Has(t.stack, AnsweredOf(e, i)) => i # id
    BY <2>3 DEF cs
  <2> QED
    BY <1>2, <2>1, <2>3, <2>4 DEF CallerInv
<1> QED
  BY <1>4, <1>5 DEF CallersOK, j, t, ds

(* All that a step of c to k and of its process to t does is to move the   *)
(* request id of e, its peer, on to s.                                     *)
MovesOn(c, e, id, k, t, s) ==
    /\ StillPending(conn[c], k) /\ DecoderInv(k) /\ \A i \in Nat : Replied(k, i) => Replied(conn[c], i)
    /\ \A i \in Nat : /\ Fewer(k.incoming, conn[c].incoming, Requests(i))
                      /\ Fewer(k.outgoing, conn[c].outgoing, Requests(i))
                      /\ i # id => Fewer(k.outgoing, conn[c].outgoing, Replies(i))
    /\ t.alive => proc[processOf[c]].alive
    /\ \A d \in Mine(processOf[c]), i \in Nat :
           /\ AnsweredLess(proc[processOf[c]], t, d, i)
           /\ ~(d = c /\ i = id) => ProcLess(proc[processOf[c]], t, d, i)
    /\ RequestInv(conn[e].outgoing, socket[c], k.incoming, t, s, c, id)
    /\ ReplyInv(k.outgoing, socket[e], conn[e], s, id)

Elsewhere(cs, ds, e) == \A d \in Endpoints : d # e => ds[d] = cs[d]

LEMMA HandleStep ==
    ASSUME Inv, CallsInv, NEW c \in Endpoints, NEW e, e = peerOf[c], NEW id \in Nat, NEW k, NEW t, NEW s,
           conn' = [conn EXCEPT ![c] = k], proc' = [proc EXCEPT ![processOf[c]] = t], UNCHANGED socket,
           Status(calls[e], id) # "done", Advanced(calls[e], calls'[e], id, s),
           Elsewhere(calls, calls', e), MovesOn(c, e, id, k, t, s)
    PROVE  CallsInv'
<1> USE DEF MovesOn, Elsewhere
<1> DEFINE p == processOf[c]
<1>1. /\ conn'[c] = k /\ \A d \in Endpoints : d # c => conn'[d] = conn[d]
      /\ \A d \in Endpoints : processOf[d] = p => proc'[processOf[d]] = t
      /\ \A d \in Endpoints : processOf[d] # p => proc'[processOf[d]] = proc[processOf[d]]
  BY StepAt
<1>2. e \in Endpoints /\ e # c /\ peerOf[e] = c /\ \A d \in Endpoints : d # e => peerOf[d] # c
  BY MineFacts
<1>3. Status(calls'[e], id) = s /\ \A i \in Nat : i # id => Status(calls'[e], i) = Status(calls[e], i)
  BY DEF Advanced
<1>4. ASSUME NEW d \in Endpoints, NEW i \in Nat
      PROVE  /\ AnsweredLess(proc[processOf[d]], proc'[processOf[d]], d, i)
             /\ ~(d = c /\ i = id) => ProcLess(proc[processOf[d]], proc'[processOf[d]], d, i)
  <2>1. CASE processOf[d] = p
    BY <1>1, <2>1, MineFacts
  <2>2. CASE processOf[d] # p
    BY <1>1, <2>2, SameLess
  <2> QED
    BY <2>1, <2>2
<1>5. ASSUME NEW d \in Endpoints, NEW i \in Nat
      PROVE  RequestInv(conn'[d].outgoing, socket'[peerOf[d]], conn'[peerOf[d]].incoming,
                        proc'[processOf[peerOf[d]]], Status(calls'[d], i), peerOf[d], i)
  <2>1. CASE d = e /\ i = id
    <3>1. conn'[e] = conn[e] /\ proc'[processOf[c]] = t /\ socket'[c] = socket[c]
      BY <1>1, <1>2
    <3> QED
      BY <1>1, <1>2, <1>3, <2>1, <3>1
  <2>2. CASE ~(d = e /\ i = id)
    <3>1. peerOf[d] \in Endpoints
      BY MineFacts
    <3>2. Status(calls'[d], i) = Status(calls[d], i)
      BY <1>3, <2>2
    <3>3. ~(peerOf[d] = c /\ i = id)
      BY <1>2, <2>2
    <3>4. ProcLess(proc[processOf[peerOf[d]]], proc'[processOf[peerOf[d]]], peerOf[d], i)
      BY <1>4, <3>1, <3>3
    <3>5. Fewer(conn'[d].outgoing, conn[d].outgoing, Requests(i))
      BY <1>1, FewerSame
    <3>6. Fewer(conn'[peerOf[d]].incoming, conn[peerOf[d]].incoming, Requests(i))
      BY <1>1, <3>1, FewerSame
    <3>7. Fewer(socket'[peerOf[d]], socket[peerOf[d]], Requests(i))
      BY FewerSame
    <3> QED
      BY <3>2, <3>4, <3>5, <3>6, <3>7, RequestsLess
  <2> QED
    BY <2>1, <2>2
<1>6. ASSUME NEW d \in Endpoints, NEW i \in Nat
      PROVE  ReplyInv(conn'[peerOf[d]].outgoing, socket'[d], conn'[d], Status(calls'[d], i), i)
  <2>1. CASE d = e /\ i = id
    <3>1. conn'[e] = conn[e] /\ socket'[e] = socket[e]
      BY <1>1, <1>2
    <3> QED
      BY <1>1, <1>2, <1>3, <2>1, <3>1
  <2>2. CASE ~(d = e /\ i = id)
    <3>1. peerOf[d] \in Endpoints
      BY MineFacts
    <3>2. Status(calls'[d], i) = Status(calls[d], i)
      BY <1>3, <2>2
    <3>3. ~(peerOf[d] = c /\ i = id)
      BY <1>2, <2>2
    <3>4. Fewer(conn'[peerOf[d]].outgoing, conn[peerOf[d]].outgoing, Replies(i))
      <4>1. CASE peerOf[d] = c
        BY <1>1, <3>3, <4>1
      <4>2. CASE peerOf[d] # c
        BY <1>1, <3>1, <4>2, FewerSame
      <4> QED
        BY <4>1, <4>2
    <3>5. Replied(conn'[d], i) => Replied(conn[d], i)
      BY <1>1
    <3>6. Fewer(socket'[d], socket[d], Replies(i))
      BY FewerSame
    <3> QED
      BY <3>2, <3>4, <3>5, <3>6, RepliesLess
  <2> QED
    BY <2>1, <2>2
<1>7. ASSUME NEW d \in Endpoints PROVE CallersOK(d)' /\ DecoderInv(conn'[d])
  <2>1. DecoderInv(conn'[d])
    <3>1. DecoderInv(conn[d])
      BY DEF CallsInv
    <3> QED
      BY <1>1, <3>1
  <2>2. StillPending(conn[d], conn'[d])
    BY <1>1 DEF StillPending
  <2>3. proc'[processOf[d]].alive => proc[processOf[d]].alive
    BY <1>1
  <2>4. \A i \in Nat : AnsweredLess(proc[processOf[d]], proc'[processOf[d]], d, i)
    BY <1>4
  <2>5. CASE d # e
    BY <2>1, <2>2, <2>3, <2>4, <2>5, CallersTame
  <2>6. CASE d = e
    BY <1>2, <2>1, <2>2, <2>3, <2>4, <2>6, AdvanceCaller
  <2> QED
    BY <2>5, <2>6
<1> QED
  BY <1>5, <1>6, <1>7, PartsStep

(* The request has been taken out of where it was, and nothing handles it. *)
Taken(out, sock, in, q, a, d, id) ==
    /\ RequestInv(out, sock, in, q, a, d, id) /\ a = "none"
    /\ ~Has(out, Requests(id)) /\ ~Has(sock, Requests(id)) /\ ~Has(in, Requests(id)) /\ ~Listed(q, d, id)

LEMMA TakenFirst ==
    ASSUME NEW out, NEW sock, NEW in \in Seq(Message), in # <<>>, NEW q, NEW a, NEW d, NEW id,
           RequestInv(out, sock, in, q, a, d, id), NEW m, m = Head(in), m \in Requests(id),
           NEW r, r = Tail(in), NEW u, ProcLess(q, u, d, id)
    PROVE  Taken(out, sock, r, u, a, d, id)
<1> DEFINE C == Requests(id)
<1>1. /\ Has(in, C) <=> Has(r, C) \/ m \in C
      /\ Once(in, C) => Once(r, C) /\ ~(m \in C /\ Has(r, C))
  BY HasTail
<1>2. Once(r, C) /\ ~Has(r, C) /\ ~Has(out, C) /\ ~Has(sock, C) /\ ~Listed(q, d, id) /\ a = "none"
  BY <1>1 DEF RequestInv
<1> QED
  BY <1>2 DEF Taken, RequestInv, ProcLess, Fewer

LEMMA TakenListed ==
    ASSUME NEW out, NEW sock, NEW in, NEW q, NEW a, NEW d, NEW id, RequestInv(out, sock, in, q, a, d, id),
           NEW u, ProcLess(q, u, d, id), Listed(q, d, id), ~Listed(u, d, id)
    PROVE  Taken(out, sock, in, u, a, d, id)
  BY DEF Taken, RequestInv, ProcLess, Fewer

(* A handler for it is called.                                             *)
LEMMA HandlerPushed ==
    ASSUME NEW p, NEW c \in Mine(p), NEW m \in Message, NEW u \in States(p), NEW t, t = Push(u, Handler(c, m))
    PROVE  /\ t.alive = u.alive
           /\ \A d \in Mine(p), i \in Nat :
                  AnsweredLess(u, t, d, i) /\ (~(d = c /\ i = m.id) => ProcLess(u, t, d, i))
           /\ \A out, sock, in, a, s :
                  Taken(out, sock, in, u, a, c, m.id) /\ s = "running" => RequestInv(out, sock, in, t, s, c, m.id)
<1> DEFINE f == Handler(c, m)
<1>1. f \in Frames(p) /\ f.op = "handle" /\ f.c = c /\ f.m = m /\ t = Push(u, f)
  <2>1. f \in HandleFrames(p) /\ f.op = "handle" /\ f.c = c /\ f.m = m
    BY Zenon DEF HandleFrames, Handler
  <2> QED
    BY <2>1 DEF Frames
<1> HIDE DEF f
<1>2. t.stack = Cons(f, u.stack) /\ t.toDispatch = u.toDispatch /\ t.alive = u.alive /\ u.stack \in Seq(Frames(p))
  BY <1>1, PushEffect DEF SameButStack, States
<1>3. m.id \in Nat
  BY DEF Message
<1>4. ASSUME NEW d \in Mine(p), NEW i \in Nat
      PROVE  /\ Has(t.stack, HoldersOf(d, i)) <=> Has(u.stack, HoldersOf(d, i))
             /\ Once(u.stack, HoldersOf(d, i)) => Once(t.stack, HoldersOf(d, i))
             /\ Has(t.stack, TanglesOf(d, i)) <=> Has(u.stack, TanglesOf(d, i))
             /\ Has(t.stack, AnsweredOf(d, i)) <=> Has(u.stack, AnsweredOf(d, i))
             /\ ~(d = c /\ i = m.id) => Fewer(t.stack, u.stack, HandlersOf(d, i))
             /\ ~Has(u.stack, HandlersOf(d, i)) /\ Once(u.stack, HandlersOf(d, i)) => Once(t.stack, HandlersOf(d, i))
  <2>1. f \notin HoldersOf(d, i) /\ f \notin TanglesOf(d, i) /\ f \notin AnsweredOf(d, i)
    BY <1>1, Classes
  <2>2. /\ Has(t.stack, HoldersOf(d, i)) <=> Has(u.stack, HoldersOf(d, i))
        /\ Once(u.stack, HoldersOf(d, i)) => Once(t.stack, HoldersOf(d, i))
    BY <1>1, <1>2, <2>1, HasCons
  <2>3. /\ Has(t.stack, TanglesOf(d, i)) <=> Has(u.stack, TanglesOf(d, i))
        /\ Has(t.stack, AnsweredOf(d, i)) <=> Has(u.stack, AnsweredOf(d, i))
    BY <1>1, <1>2, <2>1, HasCons
  <2>4. ~(d = c /\ i = m.id) => f \notin HandlersOf(d, i)
    BY <1>1, Classes DEF Requests
  <2>5. /\ Has(t.stack, HandlersOf(d, i)) <=> Has(u.stack, HandlersOf(d, i)) \/ f \in HandlersOf(d, i)
        /\ Once(u.stack, HandlersOf(d, i)) /\ ~(f \in HandlersOf(d, i) /\ Has(u.stack, HandlersOf(d, i)))
              => Once(t.stack, HandlersOf(d, i))
    BY <1>1, <1>2, HasCons
  <2> QED
    BY <2>2, <2>3, <2>4, <2>5 DEF Fewer
<1>5. ASSUME NEW d \in Mine(p), NEW i \in Nat
      PROVE  /\ (Listed(t, d, i) <=> Listed(u, d, i)) /\ (ListedOnce(u, d, i) => ListedOnce(t, d, i))
             /\ AnsweredLess(u, t, d, i) /\ (~(d = c /\ i = m.id) => ProcLess(u, t, d, i))
  BY <1>2, <1>4 DEF Listed, ListedOnce, AnsweredLess, ProcLess
<1>6. ASSUME NEW out, NEW sock, NEW in, NEW a, NEW s, Taken(out, sock, in, u, a, c, m.id), s = "running"
      PROVE  RequestInv(out, sock, in, t, s, c, m.id)
  <2> DEFINE i == m.id
  <2>1. /\ (Listed(t, c, i) <=> Listed(u, c, i)) /\ (ListedOnce(u, c, i) => ListedOnce(t, c, i))
        /\ ~Has(u.stack, HandlersOf(c, i)) /\ Once(u.stack, HandlersOf(c, i)) => Once(t.stack, HandlersOf(c, i))
    BY <1>3, <1>4, <1>5
  <2> HIDE DEF i
  <2>2. RequestInv(out, sock, in, u, a, c, i) /\ a = "none"
        /\ ~Has(out, Requests(i)) /\ ~Has(sock, Requests(i)) /\ ~Has(in, Requests(i)) /\ ~Listed(u, c, i)
    BY <1>6 DEF Taken, i
  <2>3. ~Has(u.stack, HandlersOf(c, i))
    BY <2>2 DEF RequestInv
  <2>4. RequestInv(out, sock, in, t, s, c, i)
    BY <1>6, <2>1, <2>2, <2>3 DEF RequestInv
  <2> QED
    BY <2>4 DEF i
<1> QED
  BY <1>2, <1>5, <1>6

LEMMA ReplyNotYet ==
    ASSUME NEW out, NEW sock, NEW k, NEW a, NEW id, ReplyInv(out, sock, k, a, id), a # "done",
           NEW o, Fewer(o, out, Replies(id)), NEW b
    PROVE  ReplyInv(o, sock, k, b, id)
  BY DEF ReplyInv, Fewer

LEMMA DispatchStep ==
    ASSUME Inv, CallsInv, NEW p \in Processes, NEW c \in Mine(p), NEW m \in Message, NEW u \in States(p), NEW k,
           conn' = [conn EXCEPT ![c] = k], UNCHANGED socket, DispatchMessage(c, m, u),
           ConnTame(conn[c], k), ProcTame(p, proc[p], u), u.alive => proc[p].alive,
           m.name = "sync" => Taken(conn[peerOf[c]].outgoing, socket[c], k.incoming, u,
                                    Status(calls[peerOf[c]], m.id), c, m.id)
    PROVE  /\ CallsInv'
           /\ calls' = calls \/ \E d \in Endpoints : \E id \in DOMAIN calls[d] : Promise!Handle(d, id)
<1> DEFINE t == Push(u, Handler(c, m))
           e == peerOf[c]
           id == m.id
           q == proc[p]
<1>1. processOf[c] = p /\ c \in Endpoints /\ e \in Endpoints /\ e # c /\ peerOf[e] = c
  BY MineFacts
<1>2. t = Push(u, Handler(c, m)) /\ id \in Nat /\ e = peerOf[c]
  BY DEF Message
<1>3. CASE ~conn[c].client
  <2>1. proc' = [proc EXCEPT ![p] = u] /\ calls' = calls
    BY <1>1, <1>3 DEF DispatchMessage
  <2>2. CallsInv'
    BY <1>1, <2>1, SocketsSame, TameStep
  <2> QED
    BY <2>1, <2>2
<1>4. CASE conn[c].client /\ m.name # "sync"
  <2>1. proc' = [proc EXCEPT ![p] = t] /\ calls' = calls
    BY <1>1, <1>4 DEF DispatchMessage
  <2> HIDE DEF t
  <2>2. ProcTame(p, u, t) /\ t.alive = u.alive
    BY <1>2, <1>4, TameHandler
  <2>3. ProcTame(p, q, t)
    BY <2>2, TameTwice
  <2>4. CallsInv'
    BY <1>1, <2>1, <2>2, <2>3, SocketsSame, TameStep
  <2> QED
    BY <2>1, <2>4
<1>5. CASE conn[c].client /\ m.name = "sync"
  <2> DEFINE s == "running"
  <2>1. proc' = [proc EXCEPT ![p] = t] /\ calls' = [calls EXCEPT ![e][id].handler = s] /\ s \in {"running", "done"} /\ s = "running"
    BY <1>1, <1>5 DEF DispatchMessage
  <2>2. Taken(conn[e].outgoing, socket[c], k.incoming, u, Status(calls[e], id), c, id)
    BY <1>5
  <2>3. Status(calls[e], id) = "none"
    BY <2>2 DEF Taken
  <2> HIDE DEF t, s, e
  <2>4. /\ t.alive = u.alive
        /\ \A d \in Mine(p), i \in Nat : AnsweredLess(u, t, d, i) /\ (~(d = c /\ i = id) => ProcLess(u, t, d, i))
        /\ RequestInv(conn[e].outgoing, socket[c], k.incoming, t, s, c, id)
    BY <1>2, <2>1, <2>2, HandlerPushed, SMTT(30)
  <2> HIDE DEF id
  <2>5. Status(calls[e], id) \in {"none", "running"} /\ Status(calls[e], id) # "done"
    BY <2>3
  <2>6. /\ Advanced(calls[e], calls'[e], id, s) /\ id \in DOMAIN calls[e] /\ Promise!Handle(e, id)
        /\ \A d \in Endpoints : d # e => calls'[d] = calls[d]
    <3>1. /\ e \in Endpoints /\ id \in Nat /\ s \in {"running", "done"} /\ Status(calls[e], id) \in {"none", "running"}
          /\ calls' = [calls EXCEPT ![e][id].handler = s]
      BY <1>1, <1>2, <2>1, <2>5
    <3>2. /\ Advanced(calls[e], calls'[e], id, s) /\ id \in DOMAIN calls[e]
          /\ \A d \in Endpoints : d # e => calls'[d] = calls[d]
          /\ Status(calls[e], id) = "none" /\ s = "running" => Promise!Handle(e, id)
      BY <3>1, AdvanceCalls
    <3> QED
      BY <2>1, <2>3, <3>2
  <2>7. ASSUME NEW d \in Mine(p), NEW i \in Nat
        PROVE  AnsweredLess(q, t, d, i) /\ (~(d = c /\ i = id) => ProcLess(q, t, d, i))
    <3>1. ProcLess(q, u, d, i) /\ AnsweredLess(q, u, d, i)
      BY DEF ProcTame
    <3>2. AnsweredLess(u, t, d, i) /\ (~(d = c /\ i = id) => ProcLess(u, t, d, i))
      BY <2>4
    <3> QED
      BY <3>1, <3>2 DEF AnsweredLess, ProcLess, Fewer
  <2>8. /\ StillPending(conn[c], k) /\ \A i \in Nat : Replied(k, i) => Replied(conn[c], i)
        /\ \A i \in Nat : /\ Fewer(k.incoming, conn[c].incoming, Requests(i))
                          /\ Fewer(k.outgoing, conn[c].outgoing, Requests(i))
                          /\ Fewer(k.outgoing, conn[c].outgoing, Replies(i))
        /\ DecoderInv(k)
    <3>1. DecoderInv(conn[c])
      BY <1>1 DEF CallsInv
    <3> QED
      BY <3>1 DEF ConnTame, ConnLess
  <2>9. ReplyInv(k.outgoing, socket[e], conn[e], s, id)
    <3> DEFINE a == Status(calls[e], id)
    <3>1. ReplyInv(conn[c].outgoing, socket[e], conn[e], a, id)
      BY <1>1, <1>2 DEF CallsInv
    <3>2. Fewer(k.outgoing, conn[c].outgoing, Replies(id)) /\ a # "done"
      BY <1>2, <2>5, <2>8
    <3> HIDE DEF a
    <3> QED
      BY <3>1, <3>2, ReplyNotYet
  <2>10. CallsInv'
    <3>1. \A d \in Mine(processOf[c]), i \in Nat :
              /\ AnsweredLess(proc[processOf[c]], t, d, i)
              /\ ~(d = c /\ i = id) => ProcLess(proc[processOf[c]], t, d, i)
      BY <1>1, <2>7
    <3>2. MovesOn(c, e, id, k, t, s)
      BY <1>1, <2>4, <2>8, <2>9, <3>1 DEF MovesOn
    <3>3. /\ c \in Endpoints /\ e = peerOf[c] /\ id \in Nat /\ conn' = [conn EXCEPT ![c] = k]
          /\ proc' = [proc EXCEPT ![processOf[c]] = t] /\ UNCHANGED socket
          /\ Status(calls[e], id) # "done" /\ Advanced(calls[e], calls'[e], id, s)
          /\ Elsewhere(calls, calls', e)
      BY <1>1, <1>2, <2>1, <2>5, <2>6 DEF Elsewhere
    <3> QED
      BY <3>2, <3>3, HandleStep
  <2> QED
    BY <1>1, <2>6, <2>10
<1> QED
  BY <1>3, <1>4, <1>5

HandlesOne == \E d \in Endpoints : \E id \in DOMAIN calls[d] : Promise!Handle(d, id) \/ Promise!Finish(d, id)

LEMMA DispatchOneMessageCalls ==
    ASSUME Inv, CallsInv, NEW p \in Processes, DispatchOneMessage(p)
    PROVE  CallsInv' /\ (calls' = calls \/ HandlesOne)
<1> DEFINE q == proc[p]
           c == Head(q.runLoop).c
           k == conn[c]
           j == WithoutFirst(k)
           m == Head(k.incoming)
           t == Turned(p)
           op == "dispatchOneMessage"
<1>1. RunLoopTurn(p, op) /\ t = Turned(p) /\ UNCHANGED socket
  BY DEF DispatchOneMessage
<1>2. /\ q \in States(p) /\ c \in Mine(p)
      /\ t \in States(p) /\ t.stack = q.stack /\ t.toDispatch = q.toDispatch /\ t.alive /\ q.alive
  <2> HIDE DEF t, op
  <2>1. /\ q \in States(p) /\ c \in Mine(p) /\ ProcessInv(q) /\ q.runLoop # <<>>
        /\ t \in States(p) /\ t.stack = q.stack /\ t.toDispatch = q.toDispatch /\ t.alive
    BY <1>1, TurnedFacts
  <2>2. q.alive
    BY <2>1 DEF ProcessInv
  <2> QED
    BY <2>1, <2>2
<1>3. k \in Connections /\ c \in Endpoints /\ processOf[c] = p
  BY <1>2, MineFacts, Here
<1>4. \/ proc' = [proc EXCEPT ![p] = t] /\ UNCHANGED <<conn, calls>>
      \/ k.incoming # <<>> /\ conn' = [conn EXCEPT ![c] = j] /\ DispatchMessage(c, m, t)
  <2>1. [conn EXCEPT ![c].incoming = Tail(@)] = [conn EXCEPT ![c] = j]
    BY <1>3 DEF WithoutFirst, Inv, TypeInv
  <2> QED
    BY <2>1, Zenon DEF DispatchOneMessage
<1> HIDE DEF t
<1>5. ProcTame(p, q, t)
  BY <1>2, TameSame
<1>6. CASE proc' = [proc EXCEPT ![p] = t] /\ UNCHANGED <<conn, calls>>
  BY <1>1, <1>2, <1>5, <1>6, TameProcess
<1>7. CASE k.incoming # <<>> /\ conn' = [conn EXCEPT ![c] = j] /\ DispatchMessage(c, m, t)
  <2>1. k.incoming \in Seq(Message) /\ Tail(k.incoming) \in Seq(Message) /\ m \in Message
    BY <1>3, <1>7, TailFacts, Zenon DEF Connections
  <2>2. /\ j.pending = k.pending /\ j.secondary = k.secondary /\ j.lastID = k.lastID /\ j.waiting = k.waiting
        /\ j.outgoing = k.outgoing /\ j.incoming = Tail(k.incoming)
    <3> HIDE DEF k
    <3> QED
      BY <1>3, <2>1 DEF WithoutFirst, Connections
  <2>3. \A C : Fewer(j.incoming, k.incoming, C)
    BY <1>7, <2>1, <2>2, FewerTail, Zenon
  <2>4. m.name = "sync" => Taken(conn[peerOf[c]].outgoing, socket[c], j.incoming, t,
                                 Status(calls[peerOf[c]], m.id), c, m.id)
    <3>1. SUFFICES ASSUME m.name = "sync"
                   PROVE  Taken(conn[peerOf[c]].outgoing, socket[c], j.incoming, t,
                                Status(calls[peerOf[c]], m.id), c, m.id)
      OBVIOUS
    <3> DEFINE e == peerOf[c]
               id == m.id
               a == Status(calls[e], id)
               in == k.incoming
               r == j.incoming
    <3>2. id \in Nat /\ m \in Requests(id)
      BY <2>1, <3>1, ZenonT(30) DEF Message, Requests
    <3>3. RequestInv(conn[e].outgoing, socket[c], in, q, a, c, id)
      <4>1. e \in Endpoints /\ peerOf[e] = c
        BY <1>3, MineFacts
      <4> QED
        BY <1>3, <3>2, <4>1 DEF CallsInv
    <3>4. in \in Seq(Message) /\ in # <<>> /\ m = Head(in) /\ r = Tail(in) /\ ProcLess(q, t, c, id)
      BY <1>2, <1>5, <1>7, <2>1, <2>2, <3>2, Zenon DEF ProcTame
    <3> HIDE DEF a, in, r, id, m, q, e
    <3>5. Taken(conn[e].outgoing, socket[c], r, t, a, c, id)
      BY <3>2, <3>3, <3>4, TakenFirst
    <3> QED
      BY <3>5, SMTT(30) DEF a, r, id, e
  <2> HIDE DEF j, m, c
  <2>5. ConnTame(k, j)
    <3> HIDE DEF k
    <3> QED
      BY <2>2, <2>3, FewerSame, SameDecoder, TameConn
  <2>6. /\ CallsInv'
        /\ calls' = calls \/ \E d \in Endpoints : \E id \in DOMAIN calls[d] : Promise!Handle(d, id)
    BY <1>1, <1>2, <1>5, <1>7, <2>1, <2>4, <2>5, DispatchStep
  <2> QED
    BY <2>6 DEF HandlesOne
<1> QED
  BY <1>4, <1>6, <1>7

LEMMA DispatchNextCalls ==
    ASSUME Inv, CallsInv, NEW p \in Processes, DispatchNext(p)
    PROVE  CallsInv' /\ (calls' = calls \/ HandlesOne)
<1> DEFINE q == proc[p]
           g == Head(q.stack)
           n == Head(g.rest)
           u == Turn(q)
           t == PutBack(u, n)
           v == Pop(q)
           w == [v EXCEPT !.toDispatch = @ \o g.back]
<1>1. q.stack # <<>> /\ g.op = "dispatch" /\ g \in DispatchFrames(p) /\ UNCHANGED <<conn, socket>>
  BY DispatchNextFacts
<1>2. \/ /\ g.rest = <<>> /\ UNCHANGED calls
         /\ proc' = [proc EXCEPT ![p] = w]
      \/ /\ g.rest # <<>> /\ DispatchMessage(n.c, n.m, u)
      \/ /\ g.rest # <<>> /\ UNCHANGED calls /\ proc' = [proc EXCEPT ![p] = t]
  BY DispatchNextFacts, Zenon
<1>3. q \in States(p) /\ q.alive /\ q.stack \in Seq(Frames(p))
  BY <1>1, TopFacts
<1>4. CASE g.rest = <<>> /\ UNCHANGED calls /\ proc' = [proc EXCEPT ![p] = w]
  <2>1. v \in States(p) /\ v.stack = Tail(q.stack) /\ SameButStack(q, v)
    BY <1>1, <1>3, PopEffect
  <2> HIDE DEF v
  <2>2. w.stack = v.stack /\ w.alive = v.alive /\ w.toDispatch = v.toDispatch \o g.back
    BY <2>1 DEF States
  <2> HIDE DEF w
  <2>3. w.stack = Tail(q.stack) /\ w.alive = q.alive /\ w.toDispatch = q.toDispatch \o g.back
    BY <2>1, <2>2 DEF SameButStack
  <2>4. ProcTame(p, q, w)
    <3> DEFINE h == g
    <3>1. h = Head(q.stack) /\ h \in DispatchFrames(p) /\ w.toDispatch = q.toDispatch \o h.back
      BY <1>1, <2>3
    <3> HIDE DEF h
    <3> QED
      BY <1>1, <1>3, <2>3, <3>1, TameEnd
  <2> QED
    BY <1>1, <1>3, <1>4, <2>3, <2>4, TameProcess
<1>5. ASSUME g.rest # <<>>
      PROVE  /\ u \in States(p) /\ u.alive = q.alive /\ u.toDispatch = q.toDispatch /\ u.stack # <<>>
             /\ n \in Entries(p) /\ ProcTame(p, q, u)
             /\ Head(u.stack) \in DispatchFrames(p) /\ Head(u.stack).rest = Tail(g.rest) /\ Head(u.stack).back = g.back
             /\ Topped(u.stack, Head(u.stack), q.stack)
             /\ \A d \in Mine(p), id \in Nat :
                    n \in EntriesFor(d, id) => Listed(q, d, id) /\ (ListedOnce(q, d, id) => ~Listed(u, d, id))
  <2>1. g = Head(q.stack) /\ u = Turn(q)
    OBVIOUS
  <2> DEFINE f == TurnedFrame(g)
  <2> HIDE DEF g, u, f
  <2>2. /\ u \in States(p) /\ SameButStack(q, u)
        /\ f \in DispatchFrames(p) /\ Head(u.stack) = f /\ u.stack # <<>> /\ Topped(u.stack, f, q.stack)
        /\ f.rest = Tail(g.rest) /\ f.back = g.back
    BY <1>1, <1>3, <1>5, <2>1, TurnEffect DEF f
  <2>3. u.alive = q.alive /\ u.toDispatch = q.toDispatch
    BY <2>2 DEF SameButStack
  <2>4. /\ ProcTame(p, q, u)
        /\ \A d \in Mine(p), id \in Nat :
               n \in EntriesFor(d, id) => Listed(q, d, id) /\ (ListedOnce(q, d, id) => ~Listed(u, d, id))
    BY <1>1, <1>3, <1>5, <2>1, <2>2, <2>3, TurnLess
  <2>5. n \in Entries(p)
    BY <1>1, <1>5, TailFacts, ZenonT(30) DEF DispatchFrames
  <2> QED
    BY <2>2, <2>3, <2>4, <2>5
<1>6. CASE g.rest # <<>> /\ DispatchMessage(n.c, n.m, u)
  <2> DEFINE c == n.c
             m == n.m
             k == conn[c]
  <2>1. c \in Mine(p) /\ m \in Message /\ DispatchMessage(c, m, u) /\ n = [c |-> c, m |-> m]
    BY <1>5, <1>6, SMTT(30) DEF Entries, FlaggedMessages
  <2>2. c \in Endpoints /\ processOf[c] = p
    BY <2>1, MineFacts
  <2>3. conn' = [conn EXCEPT ![c] = k] /\ UNCHANGED socket
    BY <1>1, <2>2 DEF Inv, TypeInv
  <2>4. u \in States(p) /\ u.alive = q.alive /\ ProcTame(p, q, u)
    BY <1>5, <1>6
  <2>5. m.name = "sync" => Taken(conn[peerOf[c]].outgoing, socket[c], k.incoming, u,
                                 Status(calls[peerOf[c]], m.id), c, m.id)
    <3>1. SUFFICES ASSUME m.name = "sync"
                   PROVE  Taken(conn[peerOf[c]].outgoing, socket[c], k.incoming, u,
                                Status(calls[peerOf[c]], m.id), c, m.id)
      BY Zenon
    <3> DEFINE e == peerOf[c]
               id == m.id
               a == Status(calls[e], id)
               in == k.incoming
    <3>2. id \in Nat /\ m \in Requests(id)
      BY <2>1, <3>1, Zenon DEF Message, Requests
    <3>3. RequestInv(conn[e].outgoing, socket[c], in, q, a, c, id)
      <4>1. e \in Endpoints /\ peerOf[e] = c
        BY <2>2, MineFacts, Zenon
      <4> QED
        BY <2>2, <3>2, <4>1, Zenon DEF CallsInv
    <3>4. n \in EntriesFor(c, id)
      BY <2>1, <3>2, Zenon DEF EntriesFor
    <3>5. Listed(q, c, id) /\ (ListedOnce(q, c, id) => ~Listed(u, c, id))
      BY <1>5, <1>6, <2>1, <3>2, <3>4, Zenon
    <3>6. ListedOnce(q, c, id)
      BY <3>3, Zenon DEF RequestInv
    <3>7. ProcLess(q, u, c, id)
      BY <2>1, <2>4, <3>2, Zenon DEF ProcTame
    <3> HIDE DEF a, in, id, m, q, e, c, u
    <3>8. Taken(conn[e].outgoing, socket[c], in, u, a, c, id)
      BY <3>3, <3>5, <3>6, <3>7, TakenListed
    <3> QED
      BY <3>8 DEF a, in, id, e
  <2>6. ConnTame(conn[c], k)
    BY ConnTameItself
  <2> HIDE DEF c, m, k, u
  <2>7. /\ CallsInv'
        /\ calls' = calls \/ \E d \in Endpoints : \E id \in DOMAIN calls[d] : Promise!Handle(d, id)
    BY <2>1, <2>3, <2>4, <2>5, <2>6, DispatchStep
  <2> QED
    BY <2>7 DEF HandlesOne
<1>7. CASE g.rest # <<>> /\ UNCHANGED calls /\ proc' = [proc EXCEPT ![p] = t]
  <2> DEFINE h == Head(u.stack)
             f == BackFrame(h, n)
  <2>1. t = PutBack(u, n) /\ h = Head(u.stack) /\ f = BackFrame(h, n) /\ g = Head(q.stack) /\ n = Head(g.rest)
    OBVIOUS
  <2>2. /\ u \in States(p) /\ u.stack # <<>> /\ h \in DispatchFrames(p) /\ n \in Entries(p)
        /\ u.alive = q.alive /\ u.toDispatch = q.toDispatch /\ Topped(u.stack, h, q.stack)
        /\ h.rest = Tail(g.rest) /\ h.back = g.back
    BY <1>5, <1>7
  <2> HIDE DEF u, t, n, h, f, g
  <2>3. /\ SameButStack(u, t) /\ f \in DispatchFrames(p) /\ Topped(t.stack, f, u.stack)
        /\ f.rest = h.rest /\ f.back = Append(h.back, n)
    <3>1. /\ u \in States(p) /\ u.stack # <<>> /\ h = Head(u.stack) /\ h \in DispatchFrames(p)
          /\ n \in Entries(p) /\ t = PutBack(u, n)
      BY <2>1, <2>2, Zenon
    <3>2. /\ SameButStack(u, t) /\ BackFrame(h, n) \in DispatchFrames(p) /\ Topped(t.stack, BackFrame(h, n), u.stack)
          /\ BackFrame(h, n).rest = h.rest /\ BackFrame(h, n).back = Append(h.back, n)
      BY <3>1, PutBackEffect
    <3> QED
      BY <2>1, <3>2, Zenon
  <2>4. f \in Frames(p) /\ h \in Frames(p)
    BY <2>2, <2>3 DEF Frames
  <2>5. Topped(t.stack, f, q.stack)
    BY <1>1, <1>3, <2>2, <2>3, <2>4, ToppedTwice
  <2>6. /\ t.alive = q.alive /\ t.toDispatch = q.toDispatch
        /\ f.rest = Tail(g.rest) /\ f.back = Append(g.back, Head(g.rest))
    BY <2>1, <2>2, <2>3, Zenon DEF SameButStack
  <2>7. ProcTame(p, q, t)
    BY <1>1, <1>3, <1>7, <2>1, <2>3, <2>5, <2>6, TameBack, Zenon
  <2> QED
    BY <1>1, <1>3, <1>7, <2>6, <2>7, TameProcess
<1> QED
  BY <1>2, <1>4, <1>6, <1>7

(* A handler returns: its request is over, and its reply is sent unless    *)
(* the connection has been invalidated.                                    *)
LEMMA HandlerOver ==
    ASSUME NEW out, NEW sock, NEW in, NEW S, NEW q, q.stack \in Seq(S), q.stack # <<>>, NEW a, NEW d, NEW id,
           RequestInv(out, sock, in, q, a, d, id), Head(q.stack) \in HandlersOf(d, id),
           NEW t, t.stack = Tail(q.stack), ProcLess(q, t, d, id), NEW b
    PROVE  a = "running" /\ RequestInv(out, sock, in, t, b, d, id)
<1> DEFINE C == HandlersOf(d, id)
<1>1. /\ Has(q.stack, C) <=> Has(t.stack, C) \/ Head(q.stack) \in C
      /\ Once(q.stack, C) => Once(t.stack, C) /\ ~(Head(q.stack) \in C /\ Has(t.stack, C))
  BY HasTail
<1>2. Once(t.stack, C) /\ ~Has(t.stack, C) /\ a = "running"
  BY <1>1 DEF RequestInv
<1> HIDE DEF C
<1>3. ~Has(out, Requests(id)) /\ ~Has(sock, Requests(id)) /\ ~Has(in, Requests(id)) /\ ~Listed(q, d, id)
  BY <1>2 DEF RequestInv
<1> QED
  BY <1>2, <1>3 DEF C, RequestInv, ProcLess

Answers(k, j, id) ==
    /\ j.pending = k.pending /\ j.secondary = k.secondary /\ j.waiting = k.waiting /\ j.lastID = k.lastID
    /\ j.incoming = k.incoming
    /\ j.outgoing = k.outgoing \/ \E r \in Replies(id) : j.outgoing = Append(k.outgoing, r)

LEMMA MessageSent ==
    ASSUME NEW k \in Connections, NEW n \in Names \cup {"sync", "SyncMessageReply"}, NEW b \in BOOLEAN, NEW id \in Nat,
           NEW j, j = SendMessage(k, n, b, id)
    PROVE  Alike(k, j) /\ \E m \in Message : m.name = n /\ m.id = id /\ Sends(k, j, m)
<1> DEFINE m == [name |-> n, flagged |-> b, id |-> id, number |-> k.sent + 1]
<1>1. m = [name |-> n, flagged |-> b, id |-> id, number |-> k.sent + 1] /\ m.name = n /\ m.id = id
  OBVIOUS
<1> HIDE DEF m
<1>2. Alike(k, j) /\ j.outgoing = Append(k.outgoing, m) /\ m \in Message /\ j.incoming = k.incoming
  BY <1>1, SendEffect
<1> QED
  BY <1>1, <1>2 DEF Sends

LEMMA AnswerSent ==
    ASSUME NEW k \in Connections, NEW n, n = "SyncMessageReply", NEW b \in BOOLEAN, NEW id \in Nat,
           NEW j, j = SendMessage(k, n, b, id)
    PROVE  Answers(k, j, id)
<1>1. n \in Names \cup {"sync", "SyncMessageReply"}
  OBVIOUS
<1>2. Alike(k, j) /\ \E m \in Message : m.name = n /\ m.id = id /\ Sends(k, j, m)
  BY <1>1, MessageSent
<1>3. PICK r \in Message : r.name = n /\ r.id = id /\ Sends(k, j, r)
  BY <1>2
<1>4. r \in Replies(id)
  BY <1>3 DEF Replies
<1> QED
  BY <1>2, <1>3, <1>4 DEF Answers, Alike, Sends

LEMMA AnswerMoves ==
    ASSUME NEW k \in Connections, NEW id \in Nat, NEW j, Answers(k, j, id)
    PROVE  /\ StillPending(k, j) /\ (DecoderInv(k) => DecoderInv(j)) /\ \A i \in Nat : Replied(j, i) => Replied(k, i)
           /\ \A i \in Nat : /\ Fewer(j.incoming, k.incoming, Requests(i))
                             /\ Fewer(j.outgoing, k.outgoing, Requests(i))
                             /\ i # id => Fewer(j.outgoing, k.outgoing, Replies(i))
<1>1. StillPending(k, j) /\ (DecoderInv(k) => DecoderInv(j)) /\ \A i \in Nat : Replied(j, i) => Replied(k, i)
  BY DEF Answers, StillPending, IsPending, DecoderInv, Replied
<1>2. k.outgoing \in Seq(Message)
  BY DEF Connections
<1>3. ASSUME NEW i \in Nat
      PROVE  /\ Fewer(j.incoming, k.incoming, Requests(i)) /\ Fewer(j.outgoing, k.outgoing, Requests(i))
             /\ i # id => Fewer(j.outgoing, k.outgoing, Replies(i))
  <2>1. Fewer(j.incoming, k.incoming, Requests(i))
    BY FewerSame DEF Answers
  <2>2. CASE j.outgoing = k.outgoing
    BY <2>1, <2>2, FewerSame
  <2>3. CASE \E r \in Replies(id) : j.outgoing = Append(k.outgoing, r)
    <3>1. PICK r \in Replies(id) : j.outgoing = Append(k.outgoing, r)
      BY <2>3
    <3>2. r \in Message /\ r \notin Requests(i) /\ (i # id => r \notin Replies(i))
      BY DEF Replies, Requests
    <3> QED
      BY <1>2, <2>1, <3>1, <3>2, FewerAppend
  <2> QED
    BY <2>2, <2>3 DEF Answers
<1> QED
  BY <1>1, <1>3

LEMMA ReplyQueued ==
    ASSUME NEW k \in Connections, NEW id \in Nat, NEW j, Answers(k, j, id),
           NEW sock, NEW h, NEW a, a = "running", ReplyInv(k.outgoing, sock, h, a, id), NEW b, b = "done"
    PROVE  ReplyInv(j.outgoing, sock, h, b, id)
<1> DEFINE C == Replies(id)
           o == k.outgoing
<1>1. ~Has(o, C) /\ ~Has(sock, C) /\ ~Replied(h, id) /\ Once(o, C) /\ Once(sock, C) /\ o \in Seq(Message)
  BY DEF ReplyInv, Connections
<1>2. Once(j.outgoing, C)
  <2>1. ASSUME NEW r \in C PROVE Once(Append(o, r), C)
    <3>1. r \in Message
      BY DEF Replies
    <3> HIDE DEF C, o
    <3> QED
      BY <1>1, <3>1, HasAppend
  <2> QED
    BY <1>1, <2>1 DEF Answers
<1> QED
  BY <1>1, <1>2 DEF ReplyInv

LEMMA HandlerReturnsCalls ==
    ASSUME Inv, CallsInv, NEW p \in Processes, HandlerReturns(p)
    PROVE  CallsInv' /\ (calls' = calls \/ HandlesOne)
<1> DEFINE q == proc[p]
           g == Head(q.stack)
           c == g.c
           m == g.m
           t == Pop(q)
           id == m.id
           e == peerOf[c]
           k == conn'[c]
           s == "done"
<1>1. q.stack # <<>> /\ g.op = "handle" /\ Top(p) = g /\ UNCHANGED socket
  BY AtFacts, Zenon DEF HandlerReturns
<1>2. c \in Mine(p) /\ conn[c] \in Connections /\ c \in Endpoints /\ processOf[c] = p
  BY <1>1, TopConnection
<1>3. q \in States(p) /\ q.alive /\ g \in Frames(p) /\ q.stack \in Seq(Frames(p))
  BY <1>1, TopFacts
<1>4. g \in HandleFrames(p) /\ m \in Message /\ id \in Nat
  <2>1. g \in HandleFrames(p)
    BY <1>1, <1>3, FrameFacts
  <2>2. m \in Message
    BY <2>1, Zenon DEF HandleFrames
  <2> QED
    BY <2>1, <2>2 DEF Message
<1>5. /\ proc' = [proc EXCEPT ![p] = t]
      /\ m.name # "sync" => UNCHANGED <<conn, calls>>
      /\ m.name = "sync" => /\ calls' = [calls EXCEPT ![e][id].handler = s]
                            /\ \/ UNCHANGED conn
                               \/ conn' = [conn EXCEPT ![c] = SendMessage(conn[c], "SyncMessageReply", FALSE, id)]
  BY <1>1, Zenon DEF HandlerReturns
<1>6. t = Pop(q) /\ s = "done" /\ s \in {"running", "done"}
  OBVIOUS
<1> HIDE DEF t, s
<1>7. ProcTame(p, q, t) /\ t.alive = q.alive /\ t.stack = Tail(q.stack)
  BY <1>1, <1>3, <1>6, TamePopped, PopEffect, Zenon
<1>8. CASE m.name # "sync"
  BY <1>1, <1>3, <1>5, <1>7, <1>8, TameProcess, Zenon
<1>9. CASE m.name = "sync"
  <2>1. e = peerOf[c] /\ e \in Endpoints /\ peerOf[e] = c
    BY <1>2, MineFacts
  <2>2. g \in HandlersOf(c, id)
    BY <1>2, <1>4, <1>9 DEF HandlersOf, Requests
  <2>3. RequestInv(conn[e].outgoing, socket[c], conn[c].incoming, q, Status(calls[e], id), c, id)
        /\ ReplyInv(conn[c].outgoing, socket[e], conn[e], Status(calls[e], id), id) /\ DecoderInv(conn[c])
    BY <1>2, <1>4, <2>1 DEF CallsInv
  <2>0. conn' = [conn EXCEPT ![c] = k]
    BY <1>2, <1>5, <1>9, Zenon DEF Inv, TypeInv
  <2>4. Answers(conn[c], k, id) /\ conn' = [conn EXCEPT ![c] = k]
    <3>1. CASE UNCHANGED conn
      BY <1>2, <3>1 DEF Answers, Inv, TypeInv
    <3>2. CASE conn' = [conn EXCEPT ![c] = SendMessage(conn[c], "SyncMessageReply", FALSE, id)]
      <4> DEFINE n == "SyncMessageReply"
                 b == FALSE
      <4>1. k = SendMessage(conn[c], n, b, id) /\ n = "SyncMessageReply" /\ b \in BOOLEAN
        BY <1>2, <3>2 DEF Inv, TypeInv
      <4> HIDE DEF n, b, k, c, id
      <4>2. Answers(conn[c], k, id)
        BY <1>2, <1>4, <4>1, AnswerSent
      <4> QED
        BY <2>0, <4>2
    <3> QED
      BY <1>5, <1>9, <3>1, <3>2, Zenon
  <2>5. ProcLess(q, t, c, id)
    BY <1>2, <1>4, <1>7 DEF ProcTame
  <2> DEFINE a == Status(calls[e], id)
             j == conn[c]
             w == k
  <2>6. /\ calls' = [calls EXCEPT ![e][id].handler = s] /\ conn' = [conn EXCEPT ![c] = w] /\ Answers(j, w, id)
        /\ RequestInv(conn[e].outgoing, socket[c], j.incoming, q, a, c, id)
        /\ ReplyInv(j.outgoing, socket[e], conn[e], a, id) /\ j \in Connections /\ DecoderInv(j) /\ j = conn[c]
    BY <1>2, <1>5, <1>9, <2>3, <2>4, Zenon
  <2> HIDE DEF a, j, w, c, m, id, e, k
  <2>7. a = "running" /\ RequestInv(conn[e].outgoing, socket[c], j.incoming, t, s, c, id)
    BY <1>1, <1>3, <1>7, <2>2, <2>5, <2>6, HandlerOver
  <2>8. ReplyInv(w.outgoing, socket[e], conn[e], s, id)
    BY <1>4, <1>6, <2>6, <2>7, ReplyQueued
  <2>9. /\ StillPending(j, w) /\ DecoderInv(w) /\ \A i \in Nat : Replied(w, i) => Replied(j, i)
        /\ \A i \in Nat : /\ Fewer(w.incoming, j.incoming, Requests(i))
                          /\ Fewer(w.outgoing, j.outgoing, Requests(i))
                          /\ i # id => Fewer(w.outgoing, j.outgoing, Replies(i))
    BY <1>4, <2>6, AnswerMoves
  <2>10. Status(calls[e], id) = "running"
    BY <2>7 DEF a
  <2>11. /\ Advanced(calls[e], calls'[e], id, s) /\ id \in DOMAIN calls[e] /\ Promise!Finish(e, id)
         /\ \A d \in Endpoints : d # e => calls'[d] = calls[d]
    <3>1. /\ e \in Endpoints /\ id \in Nat /\ s \in {"running", "done"} /\ Status(calls[e], id) \in {"none", "running"}
          /\ calls' = [calls EXCEPT ![e][id].handler = s]
      BY <1>4, <1>6, <2>1, <2>6, <2>10
    <3>2. /\ Advanced(calls[e], calls'[e], id, s) /\ id \in DOMAIN calls[e]
          /\ \A d \in Endpoints : d # e => calls'[d] = calls[d]
          /\ Status(calls[e], id) = "running" /\ s = "done" => Promise!Finish(e, id)
      BY <3>1, AdvanceCalls
    <3> QED
      BY <1>6, <2>10, <3>2
  <2>12. RequestInv(conn[e].outgoing, socket[c], w.incoming, t, s, c, id)
    BY <2>6, <2>7 DEF Answers
  <2>13. MovesOn(c, e, id, w, t, s)
    <3>1. \A d \in Mine(processOf[c]), i \in Nat :
              /\ AnsweredLess(proc[processOf[c]], t, d, i)
              /\ ~(d = c /\ i = id) => ProcLess(proc[processOf[c]], t, d, i)
      BY <1>2, <1>7 DEF ProcTame
    <3> QED
      BY <1>2, <1>3, <1>7, <2>6, <2>8, <2>9, <2>12, <3>1 DEF MovesOn
  <2>14. CallsInv'
    <3>1. /\ c \in Endpoints /\ e = peerOf[c] /\ id \in Nat /\ conn' = [conn EXCEPT ![c] = w]
          /\ proc' = [proc EXCEPT ![processOf[c]] = t] /\ UNCHANGED socket
          /\ Status(calls[e], id) # "done" /\ Advanced(calls[e], calls'[e], id, s)
          /\ Elsewhere(calls, calls', e)
      BY <1>1, <1>2, <1>4, <1>5, <2>1, <2>6, <2>10, <2>11 DEF Elsewhere
    <3> QED
      BY <2>13, <3>1, HandleStep
  <2> QED
    BY <2>1, <2>11, <2>14 DEF HandlesOne
<1> QED
  BY <1>8, <1>9
-----------------------------------------------------------------------------
(***************************************************************************)
(* The invariant, the assertions of the code, and the refinement.          *)
(***************************************************************************)

LEMMA InitCalls == Init => CallsInv
<1> SUFFICES ASSUME Init, NEW c \in Endpoints
             PROVE  /\ CountInv(conn[c], proc[processOf[c]], calls[c]) /\ DecoderInv(conn[c])
                    /\ \A id \in Nat :
                           /\ RequestInv(conn[c].outgoing, socket[peerOf[c]], conn[peerOf[c]].incoming,
                                         proc[processOf[peerOf[c]]], Status(calls[c], id), peerOf[c], id)
                           /\ ReplyInv(conn[peerOf[c]].outgoing, socket[c], conn[c], Status(calls[c], id), id)
                           /\ CallerInv(conn[c], proc[processOf[c]], c, calls[c], id)
  BY DEF CallsInv
<1> DEFINE e == peerOf[c]
<1>1. e \in Endpoints /\ processOf[c] \in Processes /\ processOf[e] \in Processes
  BY MineFacts
<1>2. ASSUME NEW d \in Endpoints
      PROVE  /\ conn[d].outgoing = <<>> /\ conn[d].incoming = <<>> /\ conn[d].pending = <<>> /\ conn[d].secondary = {}
             /\ conn[d].waiting = None /\ conn[d].lastID = 0 /\ socket[d] = <<>> /\ calls[d] = <<>>
  BY DEF Init, NewConnection
<1>3. ASSUME NEW p \in Processes PROVE proc[p].stack = <<>> /\ proc[p].toDispatch = <<>>
  BY DEF Init, NewProcess
<1>4. CountInv(conn[c], proc[processOf[c]], calls[c]) /\ DecoderInv(conn[c])
  <2>1. calls[c] \in Seq(Promise!Call) /\ Len(calls[c]) = 0 /\ conn[c].lastID = 0
    BY <1>2, EmptyFacts
  <2>2. CountInv(conn[c], proc[processOf[c]], calls[c])
    BY <2>1 DEF CountInv
  <2>3. conn[c].waiting = None
    BY <1>2
  <2> QED
    BY <2>2, <2>3 DEF DecoderInv
<1>5. ASSUME NEW id \in Nat
      PROVE  /\ RequestInv(conn[c].outgoing, socket[e], conn[e].incoming, proc[processOf[e]], Status(calls[c], id), e, id)
             /\ ReplyInv(conn[e].outgoing, socket[c], conn[c], Status(calls[c], id), id)
             /\ CallerInv(conn[c], proc[processOf[c]], c, calls[c], id)
  <2>1. ~Replied(conn[c], id) /\ ~IsPending(conn[c], id)
    BY <1>2, EmptyFacts DEF Replied, IsPending
  <2> QED
    BY <1>1, <1>2, <1>3, <2>1, HasEmpty DEF RequestInv, ReplyInv, CallerInv, Listed, ListedOnce
<1> QED
  BY <1>4, <1>5

(* One step of a call, as SyncCall has it, or none.                        *)
CallStep == calls' = calls \/ Promise!Next

LEMMA CallSteps ==
    /\ \A c \in Endpoints : Promise!Begin(c) \/ Promise!Refuse(c) => CallStep
    /\ \A c \in Endpoints : \A id \in DOMAIN calls[c] : Promise!Answer(c, id) \/ Promise!Fail(c, id) => CallStep
    /\ HandlesOne => CallStep
  BY DEF CallStep, HandlesOne, Promise!Next

LEMMA MainThreadStepCalls ==
    ASSUME Inv, CallsInv, NEW p \in Processes, MainThreadStep(p) \/ SyncTimesOut(p)
    PROVE  CallsInv' /\ CallStep
<1>1. CASE HandlerReturns(p) \/ DispatchNext(p) \/ DispatchOneMessage(p)
  <2>1. CallsInv' /\ (calls' = calls \/ HandlesOne)
    BY <1>1, HandlerReturnsCalls, DispatchNextCalls, DispatchOneMessageCalls
  <2> QED
    BY <2>1, CallSteps DEF CallStep
<1>2. CASE SyncReturns(p)
  <2>1. CallsInv' /\ \E c \in Endpoints : \E id \in DOMAIN calls[c] : Promise!Answer(c, id) \/ Promise!Fail(c, id)
    BY <1>2, SyncReturnsCalls
  <2> QED
    BY <2>1, CallSteps
<1>3. CASE SyncDispatch(p) \/ SyncCheck(p) \/ SyncWakes(p) \/ SyncTimesOut(p)
  <2>1. CallsInv'
    BY <1>3, SyncDispatchCalls, SyncCheckCalls, SyncWakesCalls, SyncTimesOutCalls
  <2>2. calls' = calls
    BY <1>3 DEF SyncDispatch, SyncCheck, SyncWakes, SyncTimesOut
  <2> QED
    BY <2>1, <2>2 DEF CallStep
<1>4. CASE WaitRegisters(p) \/ WaitChecks(p) \/ WaitWakes(p) \/ WaitTimesOut(p)
  <2>1. CallsInv'
    BY <1>4, WaitRegistersCalls, WaitChecksCalls, WaitWakesCalls, WaitTimesOutCalls
  <2>2. calls' = calls
    BY <1>4 DEF WaitRegisters, WaitChecks, WaitWakes, WaitTimesOut
  <2> QED
    BY <2>1, <2>2 DEF CallStep
<1>5. CASE ResetDidSchedule(p) \/ DispatchAllowed(p) \/ DidClose(p)
  <2>1. CallsInv'
    BY <1>5, ResetDidScheduleCalls, DispatchAllowedCalls, DidCloseCalls
  <2>2. calls' = calls
    BY <1>5, Zenon DEF ResetDidSchedule, DispatchAllowed, DidClose
  <2> QED
    BY <2>1, <2>2 DEF CallStep
<1> QED
  BY <1>1, <1>2, <1>3, <1>4, <1>5 DEF MainThreadStep

LEMMA ClientStepCalls ==
    ASSUME Inv, CallsInv, NEW c \in Endpoints, ClientStep(c)
    PROVE  CallsInv' /\ CallStep
<1>1. ASSUME NEW name \in Names, NEW b \in BOOLEAN, Send(c, name, b) \/ WaitForMessage(c, name, b)
      PROVE  CallsInv' /\ CallStep
  <2>1. CallsInv'
    BY <1>1, SendCalls, WaitForMessageCalls
  <2>2. calls' = calls
    BY <1>1 DEF Send, WaitForMessage
  <2> QED
    BY <2>1, <2>2 DEF CallStep
<1>2. CASE Invalidate(c) \/ PostConnectionDidClose(c)
  <2>1. CallsInv'
    BY <1>2, InvalidateCalls
  <2>2. calls' = calls
    BY <1>2 DEF Invalidate, PostConnectionDidClose
  <2> QED
    BY <2>1, <2>2 DEF CallStep
<1>3. CASE SendSync(c) \/ SecondarySend(c) \/ SendSyncFails(c)
  BY <1>3, SendSyncCalls, SecondarySendCalls, SendSyncFailsCalls, CallSteps
<1> QED
  BY <1>1, <1>2, <1>3 DEF ClientStep

LEMMA QueueThreadStepCalls ==
    ASSUME Inv, CallsInv, NEW c \in Endpoints, QueueThreadStep(c)
    PROVE  CallsInv' /\ CallStep
<1>1. CASE ProcessIncomingMessage(c)
  <2>1. PICK m : ReadReply(c, m) \/ ReadFlagged(c, m) \/ ReadAwaited(c, m) \/ ReadOther(c, m)
    BY <1>1 DEF ProcessIncomingMessage
  <2>2. CallsInv'
    BY <2>1, ReadReplyCalls, ReadFlaggedCalls, ReadAwaitedCalls, ReadOtherCalls
  <2>3. calls' = calls
    BY <2>1, Zenon DEF ReadReply, ReadFlagged, ReadAwaited, ReadOther, Reads
  <2> QED
    BY <2>2, <2>3 DEF CallStep
<1>2. CASE SendOutgoingMessages(c) \/ InvalidateTask(c)
  <2>1. CallsInv'
    BY <1>2, SendOutgoingMessagesCalls, InvalidateTaskCalls
  <2>2. calls' = calls
    BY <1>2 DEF SendOutgoingMessages, InvalidateTask
  <2> QED
    BY <2>1, <2>2 DEF CallStep
<1>3. CASE HangUp(c) \/ CloseTask(c) \/ FinishClose(c)
  <2>1. CallsInv'
    BY <1>3, ClosesCalls, FinishCloseCalls
  <2>2. calls' = calls
    BY <1>3 DEF HangUp, CloseTask, FinishClose, ConnectionDidClose
  <2> QED
    BY <2>1, <2>2 DEF CallStep
<1> QED
  BY <1>1, <1>2, <1>3 DEF QueueThreadStep

LEMMA NextCalls ==
    ASSUME Inv, CallsInv, Next
    PROVE  CallsInv' /\ CallStep
<1>1. ASSUME NEW p \in Processes, MainThreadStep(p) \/ SyncTimesOut(p) PROVE CallsInv' /\ CallStep
  BY <1>1, MainThreadStepCalls
<1>2. ASSUME NEW p \in Processes, Crash(p) PROVE CallsInv' /\ CallStep
  BY <1>2, CrashCalls DEF Crash, CallStep
<1>3. ASSUME NEW c \in Endpoints, ClientStep(c) PROVE CallsInv' /\ CallStep
  BY <1>3, ClientStepCalls
<1>4. ASSUME NEW c \in Endpoints, QueueThreadStep(c) PROVE CallsInv' /\ CallStep
  BY <1>4, QueueThreadStepCalls
<1>5. ASSUME NEW c \in Endpoints, SecondaryReturns(c) \/ SecondaryTimesOut(c) PROVE CallsInv' /\ CallStep
  <2>1. PICK s \in conn[c].secondary : SecondaryEnds(c, s)
    BY <1>5 DEF SecondaryReturns, SecondaryTimesOut
  <2>2. CallsInv' /\ \E id \in DOMAIN calls[c] : Promise!Answer(c, id) \/ Promise!Fail(c, id)
    BY <2>1, SecondaryEndsCalls
  <2> QED
    BY <2>2, CallSteps
<1> QED
  BY <1>1, <1>2, <1>3, <1>4, <1>5 DEF Next

LEMMA StutterCalls ==
    ASSUME CallsInv, UNCHANGED vars
    PROVE  CallsInv' /\ CallStep
<1>1. ASSUME NEW c \in Endpoints
      PROVE  /\ ConnLess(conn[c], conn'[c]) /\ SocketLess(socket[c], socket'[c])
             /\ \A id \in Nat : ProcLess(proc[processOf[c]], proc'[processOf[c]], c, id)
             /\ StatusKept(calls[c], calls'[c]) /\ CallersOK(c)'
  <2>1. CallersOK(c)
    BY CallsParts
  <2>2. CallersOK(c)'
    BY <2>1 DEF vars, CallersOK
  <2> QED
    BY <2>2, SameLess DEF vars, ConnTame
<1>2. CallsInv'
  BY <1>1, LessStep
<1> QED
  BY <1>2 DEF CallStep, vars

LEMMA CallsStep == Inv /\ CallsInv /\ [Next]_vars => (Inv /\ CallsInv)' /\ CallStep
  BY NextInv, StutterInv, NextCalls, StutterCalls

(* Whatever is asserted at the top of a stack.                             *)
LEMMA AssertsFollow == Inv /\ CallsInv => AssertsHold
<1> SUFFICES ASSUME Inv, CallsInv PROVE AssertsHold
  OBVIOUS
<1>1. ASSUME NEW p \in Processes, At(p, "sync", "check") \/ At(p, "sync", "return")
      PROVE  conn[Top(p).c].pending # <<>> /\ Last(conn[Top(p).c].pending).id = Top(p).id
  <2> DEFINE q == proc[p]
             c == Head(q.stack).c
             r == conn[c].pending
             st == q.stack
  <2>1. st # <<>> /\ Head(st).op = "sync" /\ Top(p) = Head(st)
    BY <1>1, AtFacts
  <2>2. c \in Mine(p) /\ conn[c] \in Connections /\ LocalInv(conn[c], q, c)
    BY <2>1, TopConnection
  <2>3. st \in Seq(Frames(p))
    BY <2>1, TopFacts
  <2>4. r \in Seq(PendingReplies) /\ Matches(r, st, c) /\ IsSync(Head(st), c)
    BY <2>1, <2>2, Zenon DEF Connections, LocalInv, IsSync
  <2> HIDE DEF c, r, st
  <2>5. r # <<>> /\ Last(r).id = Head(st).id
    BY <2>1, <2>3, <2>4, TopCall
  <2> QED
    BY <2>1, <2>5 DEF c, r, st
<1>2. ASSUME NEW p \in Processes, NEW i \in DOMAIN proc[p].runLoop, proc[p].runLoop[i].op = "dispatchMessages"
      PROVE  proc[p].runLoop[i].c \in proc[p].scheduled
  <2> DEFINE q == proc[p]
             x == q.runLoop[i]
             c == x.c
  <2>1. q \in States(p) /\ \A d \in Mine(p) : LocalInv(conn[d], q, d)
    BY There
  <2>2. x \in RunLoopFunctions(p)
    <3>1. q.runLoop \in Seq(RunLoopFunctions(p))
      BY <2>1 DEF States
    <3> QED
      BY <3>1, ElementOfSeq, LenProperties
  <2>3. x \in DispatchesOf(c) /\ c \in Mine(p)
    BY <1>2, <2>2 DEF DispatchesOf, RunLoopFunctions
  <2>4. x \in Range(q.runLoop)
    BY DEF Range
  <2>5. ScheduleInv(q, c)
    BY <2>1, <2>3 DEF LocalInv
  <2> QED
    BY <2>3, <2>4, <2>5 DEF ScheduleInv
<1>3. ASSUME NEW p \in Processes, At(p, "wait", "register") PROVE conn[Top(p).c].waiting = None
  <2> DEFINE q == proc[p]
             c == Head(q.stack).c
  <2>1. q.stack # <<>> /\ Head(q.stack).op = "wait" /\ Head(q.stack).at = "register" /\ Top(p) = Head(q.stack)
    BY <1>3, AtFacts
  <2>2. LocalInv(conn[c], q, c)
    BY <2>1, TopConnection
  <2> QED
    BY <2>1, <2>2, Zenon DEF LocalInv, WaitInv, Registered
<1>4. ASSUME NEW c \in Endpoints, NEW m \in ToSet(socket[c]), m.name = "SyncMessageReply",
             NEW r \in ToSet(conn[c].pending) \cup conn[c].secondary, r.id = m.id
      PROVE  ~r.reply
  <2> DEFINE id == m.id
  <2>1. socket[c] \in Seq(Message) /\ conn[c] \in Connections
    BY Here DEF Inv, TypeInv
  <2>2. m \in Message /\ id \in Nat /\ m \in Replies(id) /\ m \in Range(socket[c])
    <3>1. m \in Message
      BY <2>1 DEF ToSet
    <3> QED
      BY <1>4, <3>1 DEF Replies, Message, ToSet, Range
  <2>3. Has(socket[c], Replies(id))
    BY <2>2 DEF Has
  <2>4. ReplyInv(conn[peerOf[c]].outgoing, socket[c], conn[c], Status(calls[c], id), id)
    BY <2>2 DEF CallsInv
  <2>5. ~Replied(conn[c], id)
    BY <2>3, <2>4 DEF ReplyInv
  <2> QED
    BY <1>4, <2>5 DEF Replied, ToSet
<1>5. ASSUME NEW c \in Endpoints PROVE conn[c].told <= 1
  BY Here DEF LocalInv, ToldInv
<1> QED
  BY <1>1, <1>2, <1>3, <1>4, <1>5 DEF AssertsHold

(* AssertsHold holds for any processes, connections and clients: when      *)
(* waitForSyncReply() looks at the top of the pending replies and when     *)
(* sendSyncMessage() pops it, it is its own (Connection.cpp:491, 553,      *)
(* 556); a dispatchMessages() that runs has been scheduled (189); nobody   *)
(* else waits when waitForMessage() registers (420); no reply arrives for  *)
(* a call that has one (606, 622); and didClose() is called at most once.  *)
THEOREM AssertsNeverFail == Spec => []AssertsHold
<1>1. Init => Inv /\ CallsInv
  BY InitInv, InitCalls
<1>2. Inv /\ CallsInv /\ [Next]_vars => (Inv /\ CallsInv)'
  BY CallsStep
<1> QED
  BY <1>1, <1>2, AssertsFollow, PTL DEF Spec

(* Connection implements SyncCall: however calls nest, time out and fail,  *)
(* a request is handled at most once, and a caller is answered only after  *)
(* its own handler has returned.                                           *)
THEOREM CallsAreKept == Spec => ImplementsSyncCall
<1>1. Init => Inv /\ CallsInv /\ Promise!Init
  BY InitInv, InitCalls DEF Init, Promise!Init
<1>2. Inv /\ CallsInv /\ [Next]_vars => (Inv /\ CallsInv)' /\ [Promise!Next]_calls
  BY CallsStep DEF CallStep
<1> QED
  BY <1>1, <1>2, PTL DEF Spec, ImplementsSyncCall, Promise!Spec
-----------------------------------------------------------------------------
(***************************************************************************)
(* The order of messages. What an endpoint has been sent and has not yet   *)
(* handled is in its queue, in its socket and in the other end's queue, in *)
(* this order, and the numbers rise from one to the next.                  *)
(***************************************************************************)

Rising(s) == \A i, j \in DOMAIN s : i < j => s[i].number < s[j].number
Below(s, r) == \A m \in Range(s), n \in Range(r) : m.number < n.number
UpTo(s, n) == \A m \in Range(s) : m.number <= n

InOrder(in, sock, out) ==
    /\ Rising(in) /\ Rising(sock) /\ Rising(out)
    /\ Below(in, sock) /\ Below(in, out) /\ Below(sock, out)

(* A connection without a client sends nothing any more.                   *)
SoFar(in, sock, k) ==
    k.client => UpTo(in, k.sent) /\ UpTo(sock, k.sent) /\ UpTo(k.outgoing, k.sent)

OrderInv ==
    \A c \in Endpoints :
        /\ InOrder(conn[c].incoming, socket[c], conn[peerOf[c]].outgoing)
        /\ SoFar(conn[c].incoming, socket[c], conn[peerOf[c]])

(* r is what is left of s.                                                 *)
Thinner(r, s) == Range(r) \subseteq Range(s) /\ (Rising(s) => Rising(r))

LEMMA ThinnerSame == \A s : Thinner(s, s)
  BY DEF Thinner

LEMMA ThinnerEmpty == \A s : Thinner(<<>>, s)
  BY EmptyFacts DEF Thinner, Rising

LEMMA RisingConcat ==
    ASSUME NEW s \in Seq(Message), NEW r \in Seq(Message)
    PROVE  Rising(s \o r) <=> Rising(s) /\ Rising(r) /\ Below(s, r)
<1> DEFINE c == s \o r
           l == Len(s)
           n == Len(r)
<1>1. /\ c \in Seq(Message) /\ Len(c) = l + n /\ l \in Nat /\ n \in Nat
      /\ \A i \in 1 .. l + n : c[i] = IF i <= l THEN s[i] ELSE r[i - l]
  BY ConcatProperties, LenProperties
<1>2. DOMAIN c = 1 .. l + n /\ DOMAIN s = 1 .. l /\ DOMAIN r = 1 .. n
  BY <1>1, LenProperties
<1> HIDE DEF c, l, n
<1>3. \A i \in DOMAIN s : i \in Nat /\ i <= l /\ i \in DOMAIN c /\ c[i] = s[i]
  BY <1>1, <1>2
<1>4. \A i \in DOMAIN r : i \in Nat /\ l < l + i /\ l + i \in DOMAIN c /\ c[l + i] = r[i]
  BY <1>1, <1>2
<1>5. \A i \in DOMAIN c : \/ i \in DOMAIN s /\ i \in Nat /\ i <= l /\ c[i] = s[i]
                          \/ i - l \in DOMAIN r /\ i \in Nat /\ l < i /\ c[i] = r[i - l]
  BY <1>1, <1>2
<1>6. ASSUME Rising(c) PROVE Rising(s) /\ Rising(r) /\ Below(s, r)
  <2>1. Rising(s)
    BY <1>3, <1>6 DEF Rising
  <2>2. ASSUME NEW i \in DOMAIN r, NEW j \in DOMAIN r, i < j PROVE r[i].number < r[j].number
    <3>1. l + i < l + j
      BY <1>1, <1>4, <2>2
    <3> QED
      BY <1>4, <1>6, <3>1 DEF Rising
  <2>3. ASSUME NEW i \in DOMAIN s, NEW j \in DOMAIN r PROVE s[i].number < r[j].number
    <3>1. i < l + j
      BY <1>1, <1>3, <1>4
    <3> QED
      BY <1>3, <1>4, <1>6, <3>1 DEF Rising
  <2> QED
    BY <2>1, <2>2, <2>3 DEF Rising, Below, Range
<1>7. ASSUME Rising(s), Rising(r), Below(s, r) PROVE Rising(c)
  <2> SUFFICES ASSUME NEW i \in DOMAIN c, NEW j \in DOMAIN c, i < j PROVE c[i].number < c[j].number
    BY DEF Rising
  <2>1. CASE i \in DOMAIN s /\ c[i] = s[i] /\ j \in DOMAIN s /\ c[j] = s[j]
    BY <1>7, <2>1 DEF Rising
  <2>2. CASE i \in DOMAIN s /\ c[i] = s[i] /\ j - l \in DOMAIN r /\ c[j] = r[j - l]
    BY <1>7, <2>2 DEF Below, Range
  <2>3. CASE i - l \in DOMAIN r /\ c[i] = r[i - l] /\ j - l \in DOMAIN r /\ c[j] = r[j - l] /\ i \in Nat /\ j \in Nat
    <3>1. i - l < j - l
      BY <1>1, <2>3
    <3> QED
      BY <1>7, <2>3, <3>1 DEF Rising
  <2>4. CASE i \in Nat /\ l < i /\ j \in Nat /\ j <= l
    BY <1>1, <2>4
  <2> QED
    BY <1>5, <2>1, <2>2, <2>3, <2>4
<1> QED
  BY <1>6, <1>7 DEF c

(* The first message goes elsewhere.                                       *)
LEMMA RisingTail ==
    ASSUME NEW s \in Seq(Message), s # <<>>
    PROVE  /\ Thinner(Tail(s), s) /\ Head(s) \in Range(s) /\ Head(s) \in Message
           /\ Rising(s) => \A m \in Range(Tail(s)) : Head(s).number < m.number
<1> DEFINE r == Tail(s)
           e == Head(s)
<1>1. /\ r \in Seq(Message) /\ e \in Message /\ e \in Range(s) /\ Range(r) \subseteq Range(s)
  BY TailFacts
<1>2. /\ Len(r) = Len(s) - 1 /\ e = s[1] /\ \A i \in 1 .. Len(r) : r[i] = s[i + 1]
  BY HeadTailProperties
<1>3. Len(s) \in Nat \ {0} /\ DOMAIN s = 1 .. Len(s) /\ DOMAIN r = 1 .. Len(r)
  BY <1>1, LenProperties, EmptySeq
<1> HIDE DEF r, e
<1>4. 1 \in DOMAIN s /\ \A i \in DOMAIN r : i \in Nat /\ i + 1 \in DOMAIN s /\ 1 < i + 1 /\ r[i] = s[i + 1]
  BY <1>2, <1>3
<1>5. ASSUME Rising(s) PROVE Rising(r) /\ \A i \in DOMAIN r : e.number < r[i].number
  <2>1. \A i \in DOMAIN r : e.number < r[i].number
    BY <1>2, <1>4, <1>5 DEF Rising
  <2>2. ASSUME NEW i \in DOMAIN r, NEW j \in DOMAIN r, i < j PROVE r[i].number < r[j].number
    <3>1. i + 1 < j + 1
      BY <1>4, <2>2
    <3> QED
      BY <1>4, <1>5, <3>1 DEF Rising
  <2> QED
    BY <2>1, <2>2 DEF Rising
<1> QED
  BY <1>1, <1>5 DEF Thinner, Range, r, e

LEMMA ThinnerRemoved ==
    ASSUME NEW s \in Seq(Message), NEW i \in 1 .. Len(s)
    PROVE  Thinner(RemoveAt(s, i), s)
<1> DEFINE r == RemoveAt(s, i)
           n == Len(s)
<1>1. /\ r \in Seq(Message) /\ Len(r) = n - 1 /\ n \in Nat /\ i \in 1 .. n /\ Range(r) \subseteq Range(s)
      /\ \A j \in 1 .. (n - 1) : r[j] = IF j < i THEN s[j] ELSE s[j + 1]
  BY RemoveAtFacts, LenProperties
<1>2. DOMAIN s = 1 .. n /\ DOMAIN r = 1 .. (n - 1)
  BY <1>1, LenProperties
<1> HIDE DEF r, n
<1>3. ASSUME NEW j \in DOMAIN r
      PROVE  j \in Nat /\ j \in DOMAIN s /\ j + 1 \in DOMAIN s /\ r[j] = IF j < i THEN s[j] ELSE s[j + 1]
  BY <1>1, <1>2
<1>4. ASSUME Rising(s), NEW j \in DOMAIN r, NEW k \in DOMAIN r, j < k PROVE r[j].number < r[k].number
  <2> DEFINE a == IF j < i THEN j ELSE j + 1
             b == IF k < i THEN k ELSE k + 1
  <2>1. a \in DOMAIN s /\ b \in DOMAIN s /\ r[j] = s[a] /\ r[k] = s[b]
    BY <1>3
  <2>2. a < b
    BY <1>1, <1>3, <1>4
  <2> HIDE DEF a, b
  <2> QED
    BY <1>4, <2>1, <2>2 DEF Rising
<1> QED
  BY <1>1, <1>4 DEF Thinner, Rising, r

LEMMA NumbersOf ==
    ASSUME NEW s \in Seq(Message)
    PROVE  Range(s) \subseteq Message /\ \A m \in Range(s) : m.number \in Nat
<1>1. Range(s) \subseteq Message
  BY ElementOfSeq, LenProperties DEF Range
<1> QED
  BY <1>1 DEF Message

LEMMA RisingAppend ==
    ASSUME NEW s \in Seq(Message), NEW m \in Message
    PROVE  /\ Append(s, m) \in Seq(Message) /\ Range(Append(s, m)) = Range(s) \cup {m}
           /\ Rising(s) /\ (\A n \in Range(s) : n.number < m.number) => Rising(Append(s, m))
<1>1. <<m>> \in Seq(Message) /\ DOMAIN <<m>> = {1} /\ <<m>>[1] = m
  OBVIOUS
<1>2. Range(<<m>>) = {m} /\ Rising(<<m>>)
  BY <1>1 DEF Range, Rising
<1>3. Append(s, m) = s \o <<m>>
  BY AppendIsConcat
<1>4. (\A n \in Range(s) : n.number < m.number) => Below(s, <<m>>)
  BY <1>2 DEF Below
<1> DEFINE r == <<m>>
<1>5. r \in Seq(Message) /\ Append(s, m) = s \o r /\ Rising(r)
      /\ ((\A n \in Range(s) : n.number < m.number) => Below(s, r))
  BY <1>1, <1>2, <1>3, <1>4
<1> HIDE DEF r
<1>6. Rising(s) /\ (\A n \in Range(s) : n.number < m.number) => Rising(Append(s, m))
  BY <1>5, RisingConcat
<1> QED
  BY <1>6, AppendFacts

(* The other end queues a message, m, when it has sent n.                  *)
Queued(in, sock, out, n) ==
    /\ in \in Seq(Message) /\ sock \in Seq(Message) /\ out \in Seq(Message) /\ n \in Nat
    /\ InOrder(in, sock, out) /\ UpTo(in, n) /\ UpTo(sock, n) /\ UpTo(out, n)
Numbered(m, n) == m \in Message /\ m.number = n + 1

LEMMA OrderSent ==
    ASSUME NEW in, NEW sock, NEW out, NEW n, Queued(in, sock, out, n), NEW m, Numbered(m, n),
           NEW o, o = Append(out, m)
    PROVE  Queued(in, sock, o, m.number)
<1> DEFINE b == m.number
<1>1. /\ in \in Seq(Message) /\ sock \in Seq(Message) /\ out \in Seq(Message) /\ n \in Nat
      /\ UpTo(in, n) /\ UpTo(sock, n) /\ UpTo(out, n) /\ m \in Message /\ b = n + 1 /\ b \in Nat
      /\ Rising(in) /\ Rising(sock) /\ Rising(out) /\ Below(in, sock) /\ Below(in, out) /\ Below(sock, out)
  BY DEF Queued, Numbered, InOrder
<1>2. ASSUME NEW s \in Seq(Message), UpTo(s, n)
      PROVE  UpTo(s, b) /\ \A x \in Range(s) : x.number < b
  <2> SUFFICES ASSUME NEW x \in Range(s) PROVE x.number <= b /\ x.number < b
    BY DEF UpTo
  <2>1. x.number \in Nat /\ x.number <= n
    BY <1>2, NumbersOf DEF UpTo
  <2> QED
    BY <1>1, <2>1
<1>3. o \in Seq(Message) /\ Range(o) = Range(out) \cup {m} /\ Rising(o)
  BY <1>1, <1>2, RisingAppend
<1>4. UpTo(in, b) /\ UpTo(sock, b) /\ UpTo(out, b)
  BY <1>1, <1>2
<1>5. UpTo(o, b)
  BY <1>1, <1>3, <1>4 DEF UpTo
<1>6. Below(in, o) /\ Below(sock, o)
  BY <1>1, <1>2, <1>3 DEF Below
<1> QED
  BY <1>1, <1>3, <1>4, <1>5, <1>6 DEF Queued, InOrder

(* The other end writes the first part of its queue to the socket.         *)
Writes(sock, out, so, r) ==
    \E s \in Seq(Message) : so = sock \o s /\ out = s \o r /\ sock \in Seq(Message) /\ r \in Seq(Message)

LEMMA OrderMoved ==
    ASSUME NEW in, NEW sock, NEW out, NEW so, NEW r, Writes(sock, out, so, r), InOrder(in, sock, out)
    PROVE  InOrder(in, so, r) /\ \A n : UpTo(sock, n) /\ UpTo(out, n) => UpTo(so, n) /\ UpTo(r, n)
<1>0. PICK s \in Seq(Message) : so = sock \o s /\ out = s \o r /\ sock \in Seq(Message) /\ r \in Seq(Message)
  BY DEF Writes
<1>1. Range(out) = Range(s) \cup Range(r) /\ Range(so) = Range(sock) \cup Range(s)
  BY <1>0, ConcatFacts
<1>2. Rising(s) /\ Rising(r) /\ Below(s, r)
  BY <1>0, RisingConcat DEF InOrder
<1>3. Below(sock, s) /\ Below(sock, r) /\ Below(in, s) /\ Below(in, r)
  BY <1>1 DEF InOrder, Below
<1>4. Rising(so)
  BY <1>0, <1>2, <1>3, RisingConcat DEF InOrder
<1>5. Below(in, so) /\ Below(so, r)
  BY <1>1, <1>2, <1>3 DEF InOrder, Below
<1>6. \A n : UpTo(sock, n) /\ UpTo(out, n) => UpTo(so, n) /\ UpTo(r, n)
  BY <1>1 DEF UpTo
<1> QED
  BY <1>2, <1>3, <1>4, <1>5, <1>6 DEF InOrder

(* The first message in the socket goes to the queue.                      *)
Enqueues(in, sock, i, so) ==
    /\ in \in Seq(Message) /\ sock \in Seq(Message) /\ sock # <<>>
    /\ i = Append(in, Head(sock)) /\ so = Tail(sock)

LEMMA OrderRead ==
    ASSUME NEW in, NEW sock, NEW out, NEW i, NEW so, Enqueues(in, sock, i, so), InOrder(in, sock, out)
    PROVE  InOrder(i, so, out) /\ \A n : UpTo(in, n) /\ UpTo(sock, n) => UpTo(i, n) /\ UpTo(so, n)
<1> DEFINE m == Head(sock)
<1>0. in \in Seq(Message) /\ sock \in Seq(Message) /\ sock # <<>> /\ i = Append(in, m) /\ so = Tail(sock)
  BY DEF Enqueues
<1>1. /\ Thinner(so, sock) /\ m \in Range(sock) /\ m \in Message
      /\ Rising(sock) => \A x \in Range(so) : m.number < x.number
  BY <1>0, RisingTail
<1> HIDE DEF m
<1>2. /\ Rising(sock) /\ Rising(in) /\ Rising(out) /\ Below(in, sock) /\ Below(in, out) /\ Below(sock, out)
  BY DEF InOrder
<1>3. Rising(so) /\ Range(so) \subseteq Range(sock)
  BY <1>1, <1>2 DEF Thinner
<1>4. Range(i) = Range(in) \cup {m} /\ Rising(i)
  <2>1. \A x \in Range(in) : x.number < m.number
    BY <1>1, <1>2 DEF Below
  <2> QED
    BY <1>0, <1>1, <1>2, <2>1, RisingAppend
<1>5. Below(i, so) /\ Below(i, out) /\ Below(so, out)
  BY <1>1, <1>2, <1>3, <1>4 DEF Below
<1>6. \A n : UpTo(in, n) /\ UpTo(sock, n) => UpTo(i, n) /\ UpTo(so, n)
  BY <1>1, <1>3, <1>4 DEF UpTo
<1> QED
  BY <1>2, <1>3, <1>4, <1>5, <1>6 DEF InOrder

(* From k to j, a connection sends and receives nothing.                   *)
Idle(k, j) ==
    /\ Thinner(j.incoming, k.incoming) /\ Thinner(j.outgoing, k.outgoing)
    /\ j.client => k.client /\ j.sent = k.sent

LEMMA IdleItself == \A k : Idle(k, k)
  BY ThinnerSame DEF Idle

LEMMA OrderIdle ==
    ASSUME OrderInv, \A d \in Endpoints : Idle(conn[d], conn'[d]) /\ Thinner(socket'[d], socket[d])
    PROVE  OrderInv'
<1> SUFFICES ASSUME NEW c \in Endpoints
             PROVE  /\ InOrder(conn'[c].incoming, socket'[c], conn'[peerOf[c]].outgoing)
                    /\ SoFar(conn'[c].incoming, socket'[c], conn'[peerOf[c]])
  BY DEF OrderInv
<1> DEFINE e == peerOf[c]
           k == conn[e]
           j == conn'[e]
           in == conn[c].incoming
           i == conn'[c].incoming
           so == socket'[c]
<1>1. e \in Endpoints
  BY MineFacts
<1>2. /\ Thinner(i, in) /\ Thinner(so, socket[c])
      /\ Thinner(j.outgoing, k.outgoing) /\ (j.client => k.client /\ j.sent = k.sent)
  BY <1>1 DEF Idle
<1>3. InOrder(in, socket[c], k.outgoing) /\ SoFar(in, socket[c], k)
  BY DEF OrderInv
<1> HIDE DEF e, k, j, in, i, so
<1>4. /\ InOrder(i, so, j.outgoing)
      /\ \A n : UpTo(in, n) => UpTo(i, n)
      /\ \A n : UpTo(socket[c], n) => UpTo(so, n)
      /\ \A n : UpTo(k.outgoing, n) => UpTo(j.outgoing, n)
  BY <1>2, <1>3 DEF InOrder, Thinner, Below, UpTo
<1>5. SoFar(i, so, j)
  BY <1>2, <1>3, <1>4 DEF SoFar
<1> QED
  BY <1>4, <1>5 DEF e, j, i, so

LEMMA OneIdle ==
    ASSUME Inv, OrderInv, NEW c \in Endpoints, NEW k, Idle(conn[c], k), conn' = [conn EXCEPT ![c] = k], 
           UNCHANGED socket
    PROVE  OrderInv'
<1>1. \A d \in Endpoints : Idle(conn[d], conn'[d]) /\ Thinner(socket'[d], socket[d])
  BY IdleItself, ThinnerSame DEF Inv, TypeInv
<1> QED
  BY <1>1, OrderIdle

LEMMA SameIdle ==
    ASSUME OrderInv, UNCHANGED <<conn, socket>>
    PROVE  OrderInv'
  BY DEF OrderInv

(* The types of what one end has not yet handled.                          *)
LEMMA QueuesHere ==
    ASSUME Inv, NEW c \in Endpoints
    PROVE  /\ conn[c] \in Connections /\ conn[c].incoming \in Seq(Message) /\ socket[c] \in Seq(Message)
           /\ conn[peerOf[c]] \in Connections /\ conn[peerOf[c]].outgoing \in Seq(Message)
           /\ conn[peerOf[c]].sent \in Nat
           /\ peerOf[c] \in Endpoints /\ peerOf[c] # c /\ peerOf[peerOf[c]] = c
<1>1. peerOf[c] \in Endpoints /\ peerOf[c] # c /\ peerOf[peerOf[c]] = c
  BY MineFacts
<1>2. conn[c] \in Connections /\ socket[c] \in Seq(Message) /\ conn[peerOf[c]] \in Connections
  BY <1>1 DEF Inv, TypeInv
<1> QED
  BY <1>1, <1>2 DEF Connections

LEMMA SendsStep ==
    ASSUME Inv, OrderInv, NEW e \in Endpoints, NEW k, conn' = [conn EXCEPT ![e] = k], UNCHANGED socket,
           conn[e].client, NEW m, Sends(conn[e], k, m), Numbered(m, conn[e].sent), k.sent = m.number
    PROVE  OrderInv'
<1>1. conn'[e] = k /\ k.incoming = conn[e].incoming /\ k.outgoing = Append(conn[e].outgoing, m)
      /\ \A d \in Endpoints : d # e => conn'[d] = conn[d]
  BY DEF Inv, TypeInv, Sends
<1> SUFFICES ASSUME NEW c \in Endpoints
             PROVE  /\ InOrder(conn'[c].incoming, socket'[c], conn'[peerOf[c]].outgoing)
                    /\ SoFar(conn'[c].incoming, socket'[c], conn'[peerOf[c]])
  BY DEF OrderInv
<1>2. conn'[c].incoming = conn[c].incoming /\ socket'[c] = socket[c]
  BY <1>1
<1>3. /\ conn[c].incoming \in Seq(Message) /\ socket[c] \in Seq(Message) /\ peerOf[c] \in Endpoints
      /\ conn[peerOf[c]].outgoing \in Seq(Message) /\ conn[peerOf[c]].sent \in Nat
  BY QueuesHere
<1>4. /\ InOrder(conn[c].incoming, socket[c], conn[peerOf[c]].outgoing)
      /\ SoFar(conn[c].incoming, socket[c], conn[peerOf[c]])
  BY DEF OrderInv
<1>5. CASE peerOf[c] # e
  BY <1>1, <1>2, <1>3, <1>4, <1>5
<1>6. CASE peerOf[c] = e
  <2> DEFINE in == conn[c].incoming
             out == conn[e].outgoing
             n == conn[e].sent
             o == k.outgoing
  <2>1. Queued(in, socket[c], out, n) /\ Numbered(m, n) /\ o = Append(out, m)
    BY <1>1, <1>3, <1>4, <1>6 DEF SoFar, Queued
  <2> HIDE DEF in, out, n, o
  <2>2. Queued(in, socket[c], o, m.number)
    BY <2>1, OrderSent
  <2>3. InOrder(in, socket[c], k.outgoing) /\ SoFar(in, socket[c], k)
    BY <2>2 DEF SoFar, Queued, o
  <2> QED
    BY <1>1, <1>2, <1>6, <2>3 DEF in
<1> QED
  BY <1>5, <1>6
-----------------------------------------------------------------------------
(* One lemma for each action, or for each kind of action.                  *)

SameQueues(k, j) ==
    j.incoming = k.incoming /\ j.outgoing = k.outgoing /\ (j.client => k.client) /\ j.sent = k.sent

LEMMA SameQueuesIdle == \A k, j : SameQueues(k, j) => Idle(k, j)
  BY ThinnerSame DEF SameQueues, Idle

LEMMA QueuesStep ==
    ASSUME Inv, OrderInv, NEW c \in Endpoints, NEW k, SameQueues(conn[c], k), conn' = [conn EXCEPT ![c] = k],
           UNCHANGED socket
    PROVE  OrderInv'
<1>1. Idle(conn[c], k)
  BY SameQueuesIdle
<1> QED
  BY <1>1, OneIdle

LEMMA SendsNumbered ==
    ASSUME NEW k \in Connections, NEW name \in Names \cup {"sync", "SyncMessageReply"},
           NEW flagged \in BOOLEAN, NEW id \in Nat, NEW u, u = SendMessage(k, name, flagged, id),
           NEW j, j.outgoing = u.outgoing, j.incoming = u.incoming, j.sent = u.sent
    PROVE  \E m : Sends(k, j, m) /\ Numbered(m, k.sent) /\ j.sent = m.number
<1> DEFINE m == [name |-> name, flagged |-> flagged, id |-> id, number |-> k.sent + 1]
<1>1. u.incoming = k.incoming /\ u.outgoing = Append(k.outgoing, m) /\ m \in Message
  BY SendEffect
<1>2. u.sent = k.sent + 1 /\ m.number = k.sent + 1
  BY DEF SendMessage, Connections
<1> HIDE DEF m
<1>3. Sends(k, j, m) /\ Numbered(m, k.sent) /\ j.sent = m.number
  BY <1>1, <1>2 DEF Sends, Numbered
<1> QED
  BY <1>3

LEMMA SendOrder ==
    ASSUME Inv, OrderInv, NEW c \in Endpoints, NEW name \in Names, NEW flag \in BOOLEAN, Send(c, name, flag)
    PROVE  OrderInv'
<1> DEFINE b == flag /\ Flagged(c)
           z == 0
           k == SendMessage(conn[c], name, b, z)
<1>1. conn' = [conn EXCEPT ![c] = k] /\ UNCHANGED socket /\ conn[c].client
  BY DEF Send
<1>2. conn[c] \in Connections /\ name \in Names \cup {"sync", "SyncMessageReply"} /\ b \in BOOLEAN /\ z \in Nat
      /\ k = SendMessage(conn[c], name, b, z)
  BY Here
<1> HIDE DEF k, b, z
<1>3. PICK m : Sends(conn[c], k, m) /\ Numbered(m, conn[c].sent) /\ k.sent = m.number
  BY <1>2, SendsNumbered
<1> QED
  BY <1>1, <1>3, SendsStep

LEMMA SendSyncOrder ==
    ASSUME Inv, OrderInv, NEW c \in Endpoints, SendSync(c)
    PROVE  OrderInv'
<1> DEFINE b == Flagged(c)
           id == NextID(c)
           name == "sync"
           u == SendMessage(conn[c], name, b, id)
           k == [u EXCEPT !.lastID = @ + 1, !.pending = Append(@, [id |-> id, reply |-> FALSE])]
<1>1. conn' = [conn EXCEPT ![c] = k] /\ UNCHANGED socket /\ conn[c].client
  BY DEF SendSync
<1>2. conn[c] \in Connections /\ name \in Names \cup {"sync", "SyncMessageReply"} /\ b \in BOOLEAN /\ id \in Nat
      /\ u = SendMessage(conn[c], name, b, id)
  BY Here DEF NextID, Connections, Flagged, InFlaggedMessage
<1> HIDE DEF b, id, name
<1>3. u \in Connections
  BY <1>2, SendEffect
<1> HIDE DEF u
<1>4. k.outgoing = u.outgoing /\ k.incoming = u.incoming /\ k.sent = u.sent
  BY <1>3 DEF Connections
<1> HIDE DEF k
<1>5. PICK m : Sends(conn[c], k, m) /\ Numbered(m, conn[c].sent) /\ k.sent = m.number
  BY <1>2, <1>4, SendsNumbered
<1> QED
  BY <1>1, <1>5, SendsStep

LEMMA SecondarySendOrder ==
    ASSUME Inv, OrderInv, NEW c \in Endpoints, SecondarySend(c)
    PROVE  OrderInv'
<1> DEFINE b == FALSE
           id == NextID(c)
           name == "sync"
           u == SendMessage(conn[c], name, b, id)
           k == [u EXCEPT !.lastID = @ + 1,
                          !.secondary = @ \cup {[id |-> id, reply |-> FALSE, signalled |-> FALSE]}]
<1>1. conn' = [conn EXCEPT ![c] = k] /\ UNCHANGED socket /\ conn[c].client
  BY DEF SecondarySend
<1>2. conn[c] \in Connections /\ name \in Names \cup {"sync", "SyncMessageReply"} /\ b \in BOOLEAN /\ id \in Nat
      /\ u = SendMessage(conn[c], name, b, id)
  BY Here DEF NextID, Connections
<1> HIDE DEF b, id, name
<1>3. u \in Connections
  BY <1>2, SendEffect
<1> HIDE DEF u
<1>4. k.outgoing = u.outgoing /\ k.incoming = u.incoming /\ k.sent = u.sent
  BY <1>3 DEF Connections
<1> HIDE DEF k
<1>5. PICK m : Sends(conn[c], k, m) /\ Numbered(m, conn[c].sent) /\ k.sent = m.number
  BY <1>2, <1>4, SendsNumbered
<1> QED
  BY <1>1, <1>5, SendsStep

LEMMA HandlerReturnsOrder ==
    ASSUME Inv, OrderInv, NEW p \in Processes, HandlerReturns(p)
    PROVE  OrderInv'
<1> DEFINE f == Top(p)
           c == f.c
           m == f.m
           b == FALSE
           name == "SyncMessageReply"
           id == m.id
           k == SendMessage(conn[c], name, b, id)
<1>1. /\ UNCHANGED socket
      /\ conn' = conn \/ (conn[c].client /\ conn' = [conn EXCEPT ![c] = k])
  BY Zenon DEF HandlerReturns
<1>2. f.op = "handle" /\ f = Head(proc[p].stack) /\ proc[p].stack # <<>>
  BY Zenon DEF HandlerReturns, At, In, Top
<1>3. c \in Endpoints /\ conn[c] \in Connections
  BY <1>2, TopConnection
<1>4. m \in Message
  BY <1>2, TopFacts, FrameFacts, Zenon DEF HandleFrames
<1>5. name \in Names \cup {"sync", "SyncMessageReply"} /\ b \in BOOLEAN /\ id \in Nat
      /\ k = SendMessage(conn[c], name, b, id)
  BY <1>4 DEF Message
<1> HIDE DEF f, c, m, b, name, id, k
<1>6. CASE conn' = conn
  BY <1>1, <1>6, SameIdle
<1>7. CASE conn[c].client /\ conn' = [conn EXCEPT ![c] = k]
  <2>1. PICK x : Sends(conn[c], k, x) /\ Numbered(x, conn[c].sent) /\ k.sent = x.number
    BY <1>3, <1>5, SendsNumbered
  <2> QED
    BY <1>1, <1>3, <1>7, <2>1, SendsStep
<1> QED
  BY <1>1, <1>6, <1>7

LEMMA DieOrder ==
    ASSUME Inv, OrderInv, NEW p \in Processes, Die(p)
    PROVE  OrderInv'
<1> SUFFICES ASSUME NEW d \in Endpoints PROVE Idle(conn[d], conn'[d]) /\ Thinner(socket'[d], socket[d])
  BY OrderIdle
<1>1. CASE processOf[d] # p
  <2>1. conn'[d] = conn[d] /\ socket'[d] = socket[d]
    BY <1>1, Zenon DEF Die
  <2> QED
    BY <2>1, IdleItself, ThinnerSame
<1>2. CASE processOf[d] = p
  <2> DEFINE j == conn'[d]
  <2>1. conn[d] \in Connections
    BY Here
  <2>2. j = DeadConnection(conn[d]) /\ socket'[d] = <<>>
    BY <1>2, Zenon DEF Die, DeadConnection
  <2> HIDE DEF j
  <2>3. ~j.client /\ j.outgoing = <<>> /\ j.incoming = <<>>
    BY <2>1, <2>2, DeadFacts
  <2> QED
    BY <2>2, <2>3, ThinnerEmpty DEF Idle, j
<1> QED
  BY <1>1, <1>2

LEMMA SyncReturnsOrder ==
    ASSUME Inv, OrderInv, NEW p \in Processes, SyncReturns(p)
    PROVE  OrderInv'
<1> DEFINE c == Top(p).c
           k == [conn[c] EXCEPT !.pending = Front(@)]
<1>1. At(p, "sync", "return")
  BY DEF SyncReturns
<1>2. proc[p].stack # <<>> /\ Head(proc[p].stack).op = "sync" /\ c = Head(proc[p].stack).c
  BY <1>1, AtFacts
<1>3. c \in Endpoints /\ processOf[c] = p /\ conn[c] \in Connections
  BY <1>2, TopConnection
<1>4. Die(p) \/ (conn' = [conn EXCEPT ![c] = k] /\ UNCHANGED socket)
  BY <1>3 DEF SyncReturns, DidFailToSendSyncMessage
<1>5. SameQueues(conn[c], k)
  BY <1>3 DEF SameQueues, Connections
<1> HIDE DEF c, k
<1> QED
  BY <1>3, <1>4, <1>5, DieOrder, QueuesStep

LEMMA SendSyncFailsOrder ==
    ASSUME Inv, OrderInv, NEW c \in Endpoints, SendSyncFails(c)
    PROVE  OrderInv'
<1> DEFINE k == [conn[c] EXCEPT !.lastID = @ + 1]
<1>1. processOf[c] \in Processes /\ conn[c] \in Connections
  BY Here
<1>2. Die(processOf[c]) \/ (conn' = [conn EXCEPT ![c] = k] /\ UNCHANGED socket)
  BY DEF SendSyncFails, DidFailToSendSyncMessage
<1>3. SameQueues(conn[c], k)
  BY <1>1 DEF SameQueues, Connections
<1> HIDE DEF k
<1> QED
  BY <1>1, <1>2, <1>3, DieOrder, QueuesStep

LEMMA InvalidateOrder ==
    ASSUME Inv, OrderInv, NEW c \in Endpoints, Invalidate(c)
    PROVE  OrderInv'
<1> DEFINE k == [conn[c] EXCEPT !.client = FALSE, !.tasks = Append(@, "platformInvalidate")]
<1>1. conn[c] \in Connections
  BY Here
<1>2. conn' = [conn EXCEPT ![c] = k] /\ UNCHANGED socket
  BY <1>1 DEF Invalidate, Inv, TypeInv
<1>3. SameQueues(conn[c], k)
  BY <1>1 DEF SameQueues, Connections
<1> HIDE DEF k
<1> QED
  BY <1>2, <1>3, QueuesStep

LEMMA PostConnectionDidCloseOrder ==
    ASSUME Inv, OrderInv, NEW c \in Endpoints, PostConnectionDidClose(c)
    PROVE  OrderInv'
<1> DEFINE k == [conn[c] EXCEPT !.tasks = Append(@, "connectionDidClose")]
<1>1. conn[c] \in Connections
  BY Here
<1>2. conn' = [conn EXCEPT ![c] = k] /\ UNCHANGED socket
  BY <1>1 DEF PostConnectionDidClose, Inv, TypeInv
<1>3. SameQueues(conn[c], k)
  BY <1>1 DEF SameQueues, Connections
<1> HIDE DEF k
<1> QED
  BY <1>2, <1>3, QueuesStep

LEMMA SecondaryEndsOrder ==
    ASSUME Inv, OrderInv, NEW c \in Endpoints, NEW s, SecondaryEnds(c, s)
    PROVE  OrderInv'
<1> DEFINE k == WithoutSecondary(conn[c], s)
<1>1. conn[c] \in Connections
  BY Here
<1>2. conn' = [conn EXCEPT ![c] = k] /\ UNCHANGED socket
  BY <1>1 DEF SecondaryEnds, WithoutSecondary, Inv, TypeInv
<1>3. SameQueues(conn[c], k)
  BY <1>1 DEF SameQueues, Connections, WithoutSecondary
<1> HIDE DEF k
<1> QED
  BY <1>2, <1>3, QueuesStep

(* waitForMessage() takes a message out of the queue, or changes only what *)
(* the connection waits for.                                               *)
LEMMA WaitForMessageOrder ==
    ASSUME Inv, OrderInv, NEW c \in Endpoints, NEW name \in Names, NEW interrupt \in BOOLEAN,
           WaitForMessage(c, name, interrupt)
    PROVE  OrderInv'
<1> DEFINE k == conn[c]
           Awaited(m) == m.name = name
           i == SelectInSeq(k.incoming, Awaited)
           j == WithoutMessage(k, i)
<1>1. UNCHANGED socket /\ ((i > 0 /\ conn' = [conn EXCEPT ![c] = j]) \/ UNCHANGED conn)
  BY DEF WaitForMessage, WithoutMessage, Inv, TypeInv
<1>2. k \in Connections
  BY Here
<1>3. i > 0 => i \in 1 .. Len(k.incoming)
  <2>1. i = IF PlacesOf(k.incoming, name) # {} THEN Min(PlacesOf(k.incoming, name)) ELSE 0
    BY DEF SelectInSeq, PlacesOf
  <2> HIDE DEF i, k
  <2> QED
    BY <2>1, SelectedPlace
<1> HIDE DEF i
<1>4. k.incoming \in Seq(Message)
  BY <1>2 DEF Connections
<1>5. j.incoming = RemoveAt(k.incoming, i) /\ j.outgoing = k.outgoing /\ j.client = k.client /\ j.sent = k.sent
  BY <1>2 DEF WithoutMessage, Connections
<1>6. i > 0 => Idle(k, j)
  BY <1>3, <1>4, <1>5, ThinnerRemoved, ThinnerSame DEF Idle
<1>7. CASE UNCHANGED conn
  BY <1>1, <1>7, SameIdle
<1>8. CASE i > 0 /\ conn' = [conn EXCEPT ![c] = j]
  <2> HIDE DEF j
  <2> QED
    BY <1>1, <1>6, <1>8, OneIdle
<1> QED
  BY <1>1, <1>7, <1>8

LEMMA WaitingOrder ==
    ASSUME Inv, OrderInv, NEW c \in Endpoints, NEW w, conn' = [conn EXCEPT ![c].waiting = w], UNCHANGED socket
    PROVE  OrderInv'
<1> DEFINE k == WithWaiting(conn[c], w)
<1>1. conn[c] \in Connections
  BY Here
<1>2. conn' = [conn EXCEPT ![c] = k]
  BY <1>1 DEF WithWaiting, Inv, TypeInv
<1>3. SameQueues(conn[c], k)
  BY <1>1 DEF SameQueues, Connections, WithWaiting
<1> HIDE DEF k
<1> QED
  BY <1>2, <1>3, QueuesStep

LEMMA WaitOrder ==
    ASSUME Inv, OrderInv, NEW p \in Processes, WaitRegisters(p) \/ WaitChecks(p) \/ WaitWakes(p) \/ WaitTimesOut(p)
    PROVE  OrderInv'
<1> DEFINE c == Head(proc[p].stack).c
<1>1. proc[p].stack # <<>> /\ Head(proc[p].stack).op = "wait" /\ Top(p).c = c
  BY Zenon DEF WaitRegisters, WaitChecks, WaitWakes, WaitTimesOut, At, In, Top
<1>2. c \in Endpoints
  BY <1>1, TopConnection
<1>3. UNCHANGED socket /\ (UNCHANGED conn \/ \E w : conn' = [conn EXCEPT ![c].waiting = w])
  BY <1>1, Zenon DEF WaitRegisters, WaitChecks, WaitWakes, WaitTimesOut, WaitEnds
<1> HIDE DEF c
<1> QED
  BY <1>2, <1>3, SameIdle, WaitingOrder

(* The first message of the queue is handled, or there is none.            *)
LEMMA FirstTaken ==
    ASSUME Inv, NEW p \in Processes, DispatchOneMessage(p), NEW c, c = Head(proc[p].runLoop).c
    PROVE  /\ c \in Endpoints /\ processOf[c] = p /\ UNCHANGED socket
           /\ \/ UNCHANGED conn /\ proc' = [proc EXCEPT ![p] = Turned(p)]
              \/ /\ conn[c].incoming # <<>> /\ conn' = [conn EXCEPT ![c] = WithoutFirst(conn[c])]
                 /\ DispatchMessage(c, Head(conn[c].incoming), Turned(p))
<1> DEFINE op == "dispatchOneMessage"
           t == Turned(p)
<1>1. RunLoopTurn(p, op) /\ t = Turned(p) /\ UNCHANGED socket
  BY DEF DispatchOneMessage
<1>2. c \in Mine(p)
  <2> HIDE DEF t, op
  <2> QED
    BY <1>1, TurnedFacts
<1>3. conn[c] \in Connections /\ c \in Endpoints /\ processOf[c] = p
  BY <1>2, MineFacts, Here
<1>4. [conn EXCEPT ![c].incoming = Tail(@)] = [conn EXCEPT ![c] = WithoutFirst(conn[c])]
  BY <1>3 DEF WithoutFirst, Inv, TypeInv
<1> QED
  BY <1>1, <1>3, <1>4, Zenon DEF DispatchOneMessage

LEMMA DispatchOneMessageOrder ==
    ASSUME Inv, OrderInv, NEW p \in Processes, DispatchOneMessage(p)
    PROVE  OrderInv'
<1> DEFINE c == Head(proc[p].runLoop).c
           k == conn[c]
           j == WithoutFirst(k)
<1>1. /\ c \in Endpoints /\ UNCHANGED socket
      /\ UNCHANGED conn \/ (k.incoming # <<>> /\ conn' = [conn EXCEPT ![c] = j])
  BY FirstTaken
<1>2. k \in Connections /\ k.incoming \in Seq(Message)
  BY <1>1, QueuesHere
<1> HIDE DEF c
<1>3. j.incoming = Tail(k.incoming) /\ j.outgoing = k.outgoing /\ j.client = k.client /\ j.sent = k.sent
  BY <1>2 DEF WithoutFirst, Connections
<1>4. k.incoming # <<>> => Idle(k, j)
  BY <1>2, <1>3, RisingTail, ThinnerSame DEF Idle
<1> HIDE DEF j
<1> QED
  BY <1>1, <1>4, SameIdle, OneIdle

LEMMA DidCloseOrder ==
    ASSUME Inv, OrderInv, NEW p \in Processes, DidClose(p)
    PROVE  OrderInv'
<1> DEFINE c == Head(proc[p].runLoop).c
           k == conn[c]
           j == Told(k)
           op == "didClose"
           t == Turned(p)
<1>1. RunLoopTurn(p, op) /\ t = Turned(p) /\ UNCHANGED socket
  BY DEF DidClose
<1>2. c \in Mine(p)
  <2> HIDE DEF t, op
  <2> QED
    BY <1>1, TurnedFacts
<1>3. k \in Connections /\ c \in Endpoints
  BY <1>2, MineFacts, Here
<1>4. UNCHANGED conn \/ conn' = [conn EXCEPT ![c] = j]
  <2>1. [conn EXCEPT ![c].client = FALSE, ![c].told = @ + 1] = [conn EXCEPT ![c] = j]
    BY <1>3 DEF Told, Inv, TypeInv
  <2> QED
    BY <2>1, Zenon DEF DidClose
<1>5. SameQueues(k, j)
  BY <1>3 DEF SameQueues, Told, Connections
<1> HIDE DEF c, j
<1> QED
  BY <1>1, <1>3, <1>4, <1>5, SameIdle, QueuesStep, SMTT(30)

(* A socket is closed.                                                     *)
LEMMA EmptiedOrder ==
    ASSUME Inv, OrderInv, NEW c \in Endpoints, NEW k, SameQueues(conn[c], k), conn' = [conn EXCEPT ![c] = k],
           socket' = [socket EXCEPT ![c] = <<>>]
    PROVE  OrderInv'
<1>1. Idle(conn[c], k)
  BY SameQueuesIdle
<1>2. \A d \in Endpoints : Idle(conn[d], conn'[d]) /\ Thinner(socket'[d], socket[d])
  BY <1>1, IdleItself, ThinnerSame, ThinnerEmpty DEF Inv, TypeInv
<1> QED
  BY <1>2, OrderIdle

LEMMA InvalidateTaskOrder ==
    ASSUME Inv, OrderInv, NEW c \in Endpoints, InvalidateTask(c)
    PROVE  OrderInv'
<1> DEFINE k == PlatformInvalidate(WithoutTask(conn[c]))
<1>1. conn[c] \in Connections
  BY Here
<1>2. conn' = [conn EXCEPT ![c] = k] /\ socket' = [socket EXCEPT ![c] = <<>>]
  BY DEF InvalidateTask, WithoutTask
<1>3. SameQueues(conn[c], k)
  BY <1>1 DEF SameQueues, Connections, PlatformInvalidate, WithoutTask
<1> HIDE DEF k
<1> QED
  BY <1>2, <1>3, EmptiedOrder

LEMMA ConnectionDidCloseOrder ==
    ASSUME Inv, OrderInv, NEW c \in Endpoints, NEW k \in Connections, SameQueues(conn[c], k), ConnectionDidClose(c, k)
    PROVE  OrderInv'
<1> DEFINE j == StopWaiting(k)
<1>1. conn' = [conn EXCEPT ![c] = j] /\ socket' = [socket EXCEPT ![c] = <<>>]
  BY DEF ConnectionDidClose
<1>2. SameQueues(k, j)
  BY DEF SameQueues, Connections, PlatformInvalidate, StopWaiting
<1>3. SameQueues(conn[c], j)
  BY <1>2 DEF SameQueues
<1> HIDE DEF j
<1> QED
  BY <1>1, <1>3, EmptiedOrder

LEMMA CloseOrder ==
    ASSUME Inv, OrderInv, NEW c \in Endpoints, HangUp(c) \/ CloseTask(c)
    PROVE  OrderInv'
<1> DEFINE k == conn[c]
           j == WithoutTask(k)
<1>1. k \in Connections
  BY Here
<1>2. ConnectionDidClose(c, k) \/ (k.tasks # <<>> /\ ConnectionDidClose(c, j))
  BY DEF HangUp, CloseTask, WithoutTask, QueueTask
<1>3. SameQueues(k, k) /\ SameQueues(k, j)
  BY <1>1 DEF SameQueues, Connections, WithoutTask
<1>4. k.tasks # <<>> => j \in Connections
  BY <1>1, WithoutTaskEffect
<1> HIDE DEF j
<1> QED
  BY <1>1, <1>2, <1>3, <1>4, ConnectionDidCloseOrder

LEMMA FinishCloseOrder ==
    ASSUME Inv, OrderInv, NEW c \in Endpoints, FinishClose(c)
    PROVE  OrderInv'
<1> DEFINE k == conn[c]
           w == Interrupted(k.waiting)
           j == [k EXCEPT !.thread = "idle", !.waiting = w]
<1>1. k \in Connections
  BY Here
<1>2. conn' = [conn EXCEPT ![c] = j] /\ UNCHANGED socket
  <2>1. conn' = [conn EXCEPT ![c].thread = "idle", ![c].waiting = w] /\ UNCHANGED socket
    BY DEF FinishClose, Interrupted
  <2>2. conn \in [Endpoints -> Connections]
    BY DEF Inv, TypeInv
  <2> HIDE DEF w
  <2> QED
    BY <2>1, <2>2
<1> HIDE DEF w
<1>3. SameQueues(k, j)
  BY <1>1 DEF SameQueues, Connections
<1> HIDE DEF j
<1> QED
  BY <1>2, <1>3, QueuesStep

LEMMA SendOutgoingMessagesOrder ==
    ASSUME Inv, OrderInv, NEW e \in Endpoints, SendOutgoingMessages(e)
    PROVE  OrderInv'
<1> DEFINE k == conn[e]
           c == peerOf[e]
           room == capacity - Len(socket[c])
           n == Min({room, Len(k.outgoing)})
           open == conn[c].connected
           ts == IF k.thread = "idle" THEN Tail(k.tasks) ELSE k.tasks
           o == IF ~k.connected \/ k.outgoing = <<>> THEN k.outgoing
                ELSE IF open THEN SubSeq(k.outgoing, n + 1, Len(k.outgoing)) ELSE Tail(k.outgoing)
           th == IF k.connected /\ open /\ n < Len(k.outgoing) THEN "sending" ELSE "idle"
           j == [k EXCEPT !.tasks = ts, !.outgoing = o, !.thread = th]
           s == SubSeq(k.outgoing, 1, n)
           r == SubSeq(k.outgoing, n + 1, Len(k.outgoing))
<1>1. /\ k \in Connections /\ c \in Endpoints /\ c # e /\ peerOf[c] = e /\ k.outgoing \in Seq(Message)
      /\ conn[c].incoming \in Seq(Message) /\ socket[c] \in Seq(Message)
  <2>1. c \in Endpoints /\ c # e /\ peerOf[c] = e
    BY MineFacts
  <2> QED
    BY <2>1, QueuesHere
<1>2. Len(socket[c]) <= capacity /\ capacity \in Nat /\ Len(socket[c]) \in Nat /\ Len(k.outgoing) \in Nat
  BY <1>1, BoundsAssumption, LenProperties DEF Inv, TypeInv
<1>3. n \in 0 .. Len(k.outgoing)
  <2>1. room \in Nat
    BY <1>2
  <2>2. n \in Nat /\ n <= Len(k.outgoing)
    <3> HIDE DEF room
    <3> QED
      BY <1>2, <2>1, MinOfTwo
  <2> HIDE DEF n
  <2> QED
    BY <1>2, <2>2
<1>4. conn' = [conn EXCEPT ![e] = j]
      /\ socket' = IF k.connected /\ open THEN [socket EXCEPT ![c] = socket[c] \o s] ELSE socket
  BY DEF SendOutgoingMessages
<1>5. n + 1 \in Nat /\ s \in Seq(Message) /\ r \in Seq(Message) /\ k.outgoing = s \o r
  <2> HIDE DEF n
  <2>1. n + 1 \in Nat
    BY <1>2, <1>3
  <2> QED
    BY <1>1, <1>3, <2>1, SplitFacts
<1>6. /\ ~(k.connected /\ open) => o = k.outgoing \/ (k.outgoing # <<>> /\ o = Tail(k.outgoing))
      /\ k.connected /\ open => o = r \/ (k.outgoing = <<>> /\ o = k.outgoing)
  BY DEF r
<1> HIDE DEF s, r, n, open, th, ts, o, c
<1>7. j.incoming = k.incoming /\ j.outgoing = o /\ j.client = k.client /\ j.sent = k.sent
  BY <1>1 DEF Connections
<1> HIDE DEF j
<1>8. CASE ~(k.connected /\ open)
  <2>1. Idle(k, j)
    BY <1>1, <1>6, <1>7, <1>8, RisingTail, ThinnerSame DEF Idle
  <2> QED
    BY <1>4, <1>8, <2>1, OneIdle
<1>9. CASE k.connected /\ open
  <2> DEFINE so == socket[c] \o s
  <2>1. o = r
    <3>1. CASE k.outgoing = <<>> /\ o = k.outgoing
      <4>1. s \o r = <<>>
        BY <1>5, <3>1
      <4>2. r = <<>>
        BY <1>5, <4>1, ConcatEqualIffEmpty
      <4> QED
        BY <3>1, <4>2
    <3> QED
      BY <1>6, <1>9, <3>1
  <2>2. /\ conn'[e] = j /\ \A d \in Endpoints : d # e => conn'[d] = conn[d]
        /\ socket'[c] = so /\ \A d \in Endpoints : d # c => socket'[d] = socket[d]
    BY <1>1, <1>4, <1>9 DEF Inv, TypeInv
  <2>3. so = socket[c] \o s
    OBVIOUS
  <2> HIDE DEF so
  <2> DEFINE in == conn[c].incoming
             out == k.outgoing
  <2>4. /\ InOrder(in, socket[c], out) /\ SoFar(in, socket[c], k) /\ Writes(socket[c], out, so, r)
    BY <1>1, <1>5, <2>3 DEF OrderInv, Writes
  <2> HIDE DEF in, out
  <2>5. /\ InOrder(in, so, r)
        /\ \A x : UpTo(socket[c], x) /\ UpTo(out, x) => UpTo(so, x) /\ UpTo(r, x)
    BY <2>4, OrderMoved
  <2>6. InOrder(in, so, j.outgoing) /\ SoFar(in, so, j)
    BY <1>7, <2>1, <2>4, <2>5 DEF SoFar, out
  <2> SUFFICES ASSUME NEW d \in Endpoints
               PROVE  /\ InOrder(conn'[d].incoming, socket'[d], conn'[peerOf[d]].outgoing)
                      /\ SoFar(conn'[d].incoming, socket'[d], conn'[peerOf[d]])
    BY DEF OrderInv
  <2>7. CASE d = c
    BY <1>1, <2>2, <2>6, <2>7 DEF in
  <2>8. CASE d # c
    <3>1. peerOf[d] \in Endpoints /\ peerOf[d] # e
      BY <1>1, <2>8, MineFacts DEF c
    <3>2. conn'[d].incoming = conn[d].incoming /\ socket'[d] = socket[d] /\ conn'[peerOf[d]] = conn[peerOf[d]]
      BY <1>7, <2>2, <2>8, <3>1
    <3>3. /\ InOrder(conn[d].incoming, socket[d], conn[peerOf[d]].outgoing)
          /\ SoFar(conn[d].incoming, socket[d], conn[peerOf[d]])
      BY DEF OrderInv
    <3> QED
      BY <3>2, <3>3
  <2> QED
    BY <2>7, <2>8
<1> QED
  BY <1>8, <1>9

(* What is read is not queued: a reply, a message that breaks into waits,  *)
(* or the one that waitForMessage() waits for.                             *)
LEMMA ReadsIdle ==
    ASSUME Inv, OrderInv, NEW c \in Endpoints, NEW m, NEW k, NEW t, Reads(c, m, k, t), SameQueues(conn[c], k)
    PROVE  OrderInv'
<1>1. /\ socket[c] \in Seq(Message) /\ socket[c] # <<>> /\ socket'[c] = Tail(socket[c])
      /\ \A d \in Endpoints : d # c => socket'[d] = socket[d]
  BY ReadsSocket
<1>2. Thinner(socket'[c], socket[c]) /\ Idle(conn[c], k)
  BY <1>1, RisingTail, SameQueuesIdle
<1>3. conn' = [conn EXCEPT ![c] = k]
  BY DEF Reads
<1>4. \A d \in Endpoints : Idle(conn[d], conn'[d]) /\ Thinner(socket'[d], socket[d])
  BY <1>1, <1>2, <1>3, IdleItself, ThinnerSame DEF Inv, TypeInv
<1> QED
  BY <1>4, OrderIdle

LEMMA ReadsQueued ==
    ASSUME Inv, OrderInv, NEW c \in Endpoints, NEW m, NEW k, NEW t, Reads(c, m, k, t),
           k.incoming = Append(conn[c].incoming, m), k.outgoing = conn[c].outgoing,
           k.client = conn[c].client, k.sent = conn[c].sent
    PROVE  OrderInv'
<1>1. /\ socket[c] \in Seq(Message) /\ socket[c] # <<>> /\ m = Head(socket[c]) /\ socket'[c] = Tail(socket[c])
      /\ \A d \in Endpoints : d # c => socket'[d] = socket[d]
  BY ReadsSocket
<1>2. conn'[c] = k /\ \A d \in Endpoints : d # c => conn'[d] = conn[d]
  BY DEF Reads, Inv, TypeInv
<1> SUFFICES ASSUME NEW d \in Endpoints
             PROVE  /\ InOrder(conn'[d].incoming, socket'[d], conn'[peerOf[d]].outgoing)
                    /\ SoFar(conn'[d].incoming, socket'[d], conn'[peerOf[d]])
  BY DEF OrderInv
<1> DEFINE e == peerOf[d]
<1>3. e \in Endpoints /\ conn[d].incoming \in Seq(Message)
  BY QueuesHere
<1>4. conn'[e].outgoing = conn[e].outgoing /\ conn'[e].client = conn[e].client /\ conn'[e].sent = conn[e].sent
  BY <1>2, <1>3
<1>5. InOrder(conn[d].incoming, socket[d], conn[e].outgoing) /\ SoFar(conn[d].incoming, socket[d], conn[e])
  BY DEF OrderInv
<1> HIDE DEF e
<1>6. CASE d # c
  <2>1. conn'[d].incoming = conn[d].incoming /\ socket'[d] = socket[d]
    BY <1>1, <1>2, <1>6
  <2> QED
    BY <1>4, <1>5, <2>1 DEF SoFar, e
<1>7. CASE d = c
  <2> DEFINE in == conn[d].incoming
             i == conn'[d].incoming
             so == socket'[d]
             out == conn[e].outgoing
  <2>1. Enqueues(in, socket[d], i, so) /\ InOrder(in, socket[d], out)
    BY <1>1, <1>2, <1>3, <1>5, <1>7 DEF Enqueues
  <2> HIDE DEF in, i, so, out
  <2>2. InOrder(i, so, out) /\ \A n : UpTo(in, n) /\ UpTo(socket[d], n) => UpTo(i, n) /\ UpTo(so, n)
    BY <2>1, OrderRead
  <2>3. InOrder(i, so, conn'[e].outgoing) /\ SoFar(i, so, conn'[e])
    BY <1>4, <1>5, <2>2 DEF SoFar, in, out
  <2> QED
    BY <2>3 DEF i, so, e
<1> QED
  BY <1>6, <1>7

LEMMA ReadOrder ==
    ASSUME Inv, OrderInv, NEW c \in Endpoints, NEW m, ReadReply(c, m) \/ ReadFlagged(c, m) \/ ReadAwaited(c, m)
    PROVE  OrderInv'
<1>1. conn[c] \in Connections
  BY Here
<1>2. CASE ReadReply(c, m)
  <2>1. PICK k, t : Reads(c, m, k, t) /\ \/ \E pending : k = [conn[c] EXCEPT !.pending = pending]
                                          \/ \E secondary : k = [conn[c] EXCEPT !.secondary = secondary]
    <3> DEFINE IsAnswered(r) == r.id = m.id
               i == SelectLastInSeq(conn[c].pending, IsAnswered)
               secondary == {s \in conn[c].secondary : s.id = m.id}
               woken == (conn[c].secondary \ secondary) \cup
                            {[s EXCEPT !.reply = TRUE, !.signalled = TRUE] : s \in secondary}
               k == [conn[c] EXCEPT !.pending[i].reply = TRUE]
               j == [conn[c] EXCEPT !.secondary = woken]
               pending == [conn[c].pending EXCEPT ![i].reply = TRUE]
    <3>1. (\E t : Reads(c, m, k, t)) \/ (\E t : Reads(c, m, j, t))
      BY <1>2, Zenon DEF ReadReply
    <3> HIDE DEF i, woken
    <3>2. k = [conn[c] EXCEPT !.pending = pending]
      BY <1>1 DEF Connections
    <3> HIDE DEF pending, k
    <3> QED
      BY <3>1, <3>2
  <2>2. SameQueues(conn[c], k)
    BY <1>1, <2>1 DEF SameQueues, Connections
  <2> QED
    BY <2>1, <2>2, ReadsIdle
<1>3. CASE ReadFlagged(c, m)
  <2>1. PICK t : Reads(c, m, conn[c], t)
    BY <1>3 DEF ReadFlagged
  <2>2. SameQueues(conn[c], conn[c])
    BY DEF SameQueues
  <2> QED
    BY <2>1, <2>2, ReadsIdle
<1>4. CASE ReadAwaited(c, m)
  <2> DEFINE k == [conn[c] EXCEPT !.waiting.decoder = m]
  <2>1. PICK t : Reads(c, m, k, t)
    BY <1>4 DEF ReadAwaited
  <2>2. SameQueues(conn[c], k)
    BY <1>1 DEF SameQueues, Connections
  <2> HIDE DEF k
  <2> QED
    BY <2>1, <2>2, ReadsIdle
<1> QED
  BY <1>2, <1>3, <1>4

LEMMA ReadOtherOrder ==
    ASSUME Inv, OrderInv, NEW c \in Endpoints, NEW m, ReadOther(c, m)
    PROVE  OrderInv'
<1> DEFINE k == WithIncoming(conn[c], m)
           j == [k EXCEPT !.waiting.interrupted = TRUE]
<1>1. conn[c] \in Connections
  BY Here
<1>2. PICK x, t : Reads(c, m, x, t) /\ x \in {k, j}
  BY DEF ReadOther, WithIncoming
<1>3. /\ k.incoming = Append(conn[c].incoming, m) /\ k.outgoing = conn[c].outgoing
      /\ k.client = conn[c].client /\ k.sent = conn[c].sent
      /\ j.incoming = k.incoming /\ j.outgoing = k.outgoing /\ j.client = k.client /\ j.sent = k.sent
  BY <1>1 DEF WithIncoming, Connections
<1> HIDE DEF k, j
<1>4. /\ x.incoming = Append(conn[c].incoming, m) /\ x.outgoing = conn[c].outgoing
      /\ x.client = conn[c].client /\ x.sent = conn[c].sent
  BY <1>2, <1>3
<1> QED
  BY <1>2, <1>4, ReadsQueued
-----------------------------------------------------------------------------
LEMMA InitOrder == Init => OrderInv
<1> SUFFICES ASSUME Init, NEW c \in Endpoints
             PROVE  /\ InOrder(conn[c].incoming, socket[c], conn[peerOf[c]].outgoing)
                    /\ SoFar(conn[c].incoming, socket[c], conn[peerOf[c]])
  BY DEF OrderInv
<1>1. peerOf[c] \in Endpoints
  BY MineFacts
<1>2. conn[c].incoming = <<>> /\ socket[c] = <<>> /\ conn[peerOf[c]].outgoing = <<>>
  BY <1>1 DEF Init, NewConnection
<1> QED
  BY <1>2, EmptyFacts DEF InOrder, SoFar, Rising, Below, UpTo

LEMMA NextOrder ==
    ASSUME Inv, OrderInv, Next
    PROVE  OrderInv'
<1>1. ASSUME NEW p \in Processes, MainThreadStep(p) \/ SyncTimesOut(p) PROVE OrderInv'
  <2>1. CASE \/ SyncDispatch(p) \/ SyncCheck(p) \/ SyncWakes(p) \/ SyncTimesOut(p)
             \/ DispatchNext(p) \/ ResetDidSchedule(p) \/ DispatchAllowed(p)
    <3>1. UNCHANGED <<conn, socket>>
      BY <2>1, Zenon DEF SyncDispatch, SyncCheck, SyncWakes, SyncTimesOut, DispatchNext, ResetDidSchedule, DispatchAllowed
    <3> QED
      BY <3>1, SameIdle
  <2>2. CASE \/ HandlerReturns(p) \/ SyncReturns(p) \/ DispatchOneMessage(p) \/ DidClose(p)
             \/ WaitRegisters(p) \/ WaitChecks(p) \/ WaitWakes(p) \/ WaitTimesOut(p)
    BY <2>2, HandlerReturnsOrder, SyncReturnsOrder, DispatchOneMessageOrder, DidCloseOrder, WaitOrder
  <2> QED
    BY <1>1, <2>1, <2>2 DEF MainThreadStep
<1>2. ASSUME NEW p \in Processes, Crash(p) PROVE OrderInv'
  BY <1>2, DieOrder DEF Crash
<1>3. ASSUME NEW c \in Endpoints, ClientStep(c) PROVE OrderInv'
  BY <1>3, SendOrder, WaitForMessageOrder, SendSyncOrder, SendSyncFailsOrder, InvalidateOrder, SecondarySendOrder,
     PostConnectionDidCloseOrder DEF ClientStep
<1>4. ASSUME NEW c \in Endpoints, QueueThreadStep(c) PROVE OrderInv'
  <2>1. ASSUME ProcessIncomingMessage(c) PROVE OrderInv'
    BY <2>1, ReadOrder, ReadOtherOrder DEF ProcessIncomingMessage
  <2> QED
    BY <1>4, <2>1, SendOutgoingMessagesOrder, InvalidateTaskOrder, CloseOrder, FinishCloseOrder DEF QueueThreadStep
<1>5. ASSUME NEW c \in Endpoints, SecondaryReturns(c) \/ SecondaryTimesOut(c) PROVE OrderInv'
  BY <1>5, SecondaryEndsOrder DEF SecondaryReturns, SecondaryTimesOut
<1> QED
  BY <1>1, <1>2, <1>3, <1>4, <1>5 DEF Next
-----------------------------------------------------------------------------
(***************************************************************************)
(* The start of a handler. Only dispatchOneMessage() takes a message that  *)
(* does not break into waits and is not what waitForMessage() asked for.   *)
(***************************************************************************)

Starts(q, t) == Len(t.stack) > Len(q.stack) /\ Head(t.stack).op = "handle"
Settled(q, t) == Starts(q, t) => Head(t.stack).m.flagged \/ t.done # q.done
AllSettled == \A p \in Processes : Settled(proc[p], proc'[p])

LEMMA SettledSame ==
    ASSUME NEW p, NEW q \in States(p), NEW t, t.stack = q.stack
    PROVE  Settled(q, t)
<1>1. Len(q.stack) \in Nat
  BY LenProperties DEF States
<1> QED
  BY <1>1 DEF Settled, Starts

LEMMA SettledTail ==
    ASSUME NEW p, NEW q \in States(p), q.stack # <<>>, NEW t, t.stack = Tail(q.stack)
    PROVE  Settled(q, t)
<1>1. q.stack \in Seq(Frames(p))
  BY DEF States
<1>2. Len(q.stack) \in Nat \ {0} /\ Len(t.stack) = Len(q.stack) - 1
  BY <1>1, HeadTailProperties, LenProperties, EmptySeq
<1> QED
  BY <1>2 DEF Settled, Starts

LEMMA SettledEmpty ==
    ASSUME NEW p, NEW q \in States(p), NEW t, t.stack = <<>>
    PROVE  Settled(q, t)
<1>1. Len(q.stack) \in Nat /\ Len(t.stack) = 0
  BY LenProperties, EmptyFacts DEF States
<1> QED
  BY <1>1 DEF Settled, Starts

LEMMA SettledLen ==
    ASSUME NEW p, NEW q \in States(p), NEW t, Len(t.stack) = Len(q.stack)
    PROVE  Settled(q, t)
<1>1. Len(q.stack) \in Nat
  BY LenProperties DEF States
<1> QED
  BY <1>1 DEF Settled, Starts

LEMMA SettledOther ==
    ASSUME NEW q, NEW t, Head(t.stack).op # "handle"
    PROVE  Settled(q, t)
  BY DEF Settled, Starts

LEMMA SettledGoOn ==
    ASSUME NEW p, NEW q \in States(p), q.stack # <<>>, NEW at, CanGo(Head(q.stack), at), NEW t, t = GoOn(q, at)
    PROVE  /\ Settled(q, t) /\ t \in States(p) /\ t.stack # <<>> /\ Head(t.stack).op = Head(q.stack).op
           /\ Len(t.stack) = Len(q.stack)
<1> DEFINE f == Head(t.stack)
<1>1. Goes(p, q, t, at)
  BY GoesOn
<1>2. f.op # "handle" /\ t \in States(p) /\ t.stack # <<>> /\ f.op = Head(q.stack).op
  BY <1>1 DEF Goes, CanGo
<1>3. t.stack = [q.stack EXCEPT ![1] = f] /\ f \in Frames(p) /\ q.stack \in Seq(Frames(p))
  BY <1>1 DEF Goes, Topped, States
<1>4. Len(t.stack) = Len(q.stack)
  <2> HIDE DEF f
  <2> QED
    BY <1>3, TopPlaces
<1> QED
  BY <1>2, <1>4, SettledOther

LEMMA SettledPush ==
    ASSUME NEW p, NEW u \in States(p), NEW f \in Frames(p), f.op # "handle", NEW t, t = Push(u, f), NEW q
    PROVE  Settled(q, t)
<1>1. t.stack = Cons(f, u.stack)
  BY PushEffect
<1>2. Head(t.stack) = f
  BY <1>1, ConsPlaces DEF Stacked, States
<1> QED
  BY <1>2, SettledOther

LEMMA SettledNotify ==
    ASSUME NEW p, NEW q \in States(p), NEW c, NEW t, t = Notify(c, q)
    PROVE  Settled(q, t) /\ (t.stack = q.stack \/ Head(t.stack).op = "wait")
<1>1. CASE ~(q.stack # <<>> /\ Head(q.stack).op = "wait" /\ Head(q.stack).c = c /\ Head(q.stack).at = "asleep")
  <2>1. t = q
    BY <1>1 DEF Notify
  <2> QED
    BY <2>1, SettledSame
<1>2. CASE q.stack # <<>> /\ Head(q.stack).op = "wait" /\ Head(q.stack).c = c /\ Head(q.stack).at = "asleep"
  <2> DEFINE a == "notified"
  <2>1. t = GoOn(q, a)
    BY <1>2 DEF Notify
  <2>2. CanGo(Head(q.stack), a)
    BY <1>2 DEF CanGo, WaitPlaces
  <2> HIDE DEF a
  <2> QED
    BY <1>2, <2>1, <2>2, SettledGoOn
<1> QED
  BY <1>1, <1>2

LEMMA OneSettled ==
    ASSUME Inv, NEW p \in Processes, NEW t, Settled(proc[p], t), proc' = [proc EXCEPT ![p] = t]
    PROVE  AllSettled
<1>1. proc'[p] = t /\ \A r \in Processes : r # p => proc'[r] = proc[r]
  BY DEF Inv, TypeInv
<1>2. ASSUME NEW r \in Processes PROVE Settled(proc[r], proc'[r])
  <2>1. CASE r = p
    BY <1>1, <2>1
  <2>2. CASE r # p
    <3>1. proc[r] \in States(r) /\ proc'[r].stack = proc[r].stack
      BY <1>1, <2>2, There
    <3> QED
      BY <3>1, SettledSame
  <2> QED
    BY <2>1, <2>2
<1> QED
  BY <1>2 DEF AllSettled

LEMMA SameSettled ==
    ASSUME Inv, UNCHANGED proc
    PROVE  AllSettled
<1>1. ASSUME NEW r \in Processes PROVE Settled(proc[r], proc'[r])
  BY There, SettledSame
<1> QED
  BY <1>1 DEF AllSettled

LEMMA DieSettled ==
    ASSUME Inv, NEW p \in Processes, Die(p)
    PROVE  AllSettled
<1> DEFINE t == [NewProcess EXCEPT !.alive = FALSE, !.done = proc[p].done]
<1>1. proc' = [proc EXCEPT ![p] = t]
  BY Zenon DEF Die
<1>2. t.stack = <<>>
  BY DEF NewProcess
<1> HIDE DEF t
<1> QED
  BY <1>1, <1>2, There, SettledEmpty, OneSettled

(* The client's operations.                                                *)
LEMMA SpendingSettled ==
    ASSUME Inv, NEW c \in Endpoints,
           \/ \E name \in Names, flag \in BOOLEAN : Send(c, name, flag)
           \/ Invalidate(c) \/ SecondarySend(c) \/ PostConnectionDidClose(c) \/ SendSyncFails(c)
    PROVE  AllSettled
<1> DEFINE p == processOf[c]
           t == Spend(proc[p])
<1>1. (\E op : May(c, op)) /\ (proc' = [proc EXCEPT ![p] = t] \/ Die(p))
  BY DEF Send, Invalidate, SecondarySend, PostConnectionDidClose, SendSyncFails, DidFailToSendSyncMessage, MainMay
<1>2. p \in Processes /\ proc[p] \in States(p)
  BY Here
<1>3. CASE Die(p)
  BY <1>2, <1>3, DieSettled
<1>4. CASE proc' = [proc EXCEPT ![p] = t]
  <2>1. t.stack = proc[p].stack
    BY <1>1, MayFacts
  <2> HIDE DEF t
  <2> QED
    BY <1>2, <1>4, <2>1, SettledSame, OneSettled
<1> QED
  BY <1>1, <1>3, <1>4

LEMMA SendSyncSettled ==
    ASSUME Inv, NEW c \in Endpoints, SendSync(c)
    PROVE  AllSettled
<1> DEFINE p == processOf[c]
           q == proc[p]
           id == conn[c].lastID + 1
           f == [op |-> "sync", at |-> "dispatch", c |-> c, id |-> id, ok |-> FALSE]
           u == Spend(q)
           t == Push(u, f)
           op == "sync"
<1>1. proc' = [proc EXCEPT ![p] = t] /\ MainMay(c, op)
  BY Zenon DEF SendSync, NextID
<1>2. p \in Processes /\ conn[c] \in Connections
  BY Here
<1>3. f \in Frames(p) /\ f.op = "sync"
  <2>1. id \in Nat /\ c \in Mine(p)
    BY <1>2, MineFacts DEF Connections
  <2> QED
    BY <2>1 DEF Frames, SyncFrames
<1>4. u \in States(p)
  BY <1>1, MayFacts DEF MainMay
<1>5. t = Push(u, f)
  OBVIOUS
<1> HIDE DEF f, u, t, op, id
<1>6. Settled(q, t)
  BY <1>3, <1>4, <1>5, SettledPush
<1> QED
  BY <1>1, <1>2, <1>6, OneSettled

LEMMA WaitForMessageSettled ==
    ASSUME Inv, NEW c \in Endpoints, NEW name \in Names, NEW interrupt \in BOOLEAN,
           WaitForMessage(c, name, interrupt)
    PROVE  AllSettled
<1> DEFINE p == processOf[c]
           q == proc[p]
           k == conn[c]
           Awaited(m) == m.name = name
           i == SelectInSeq(k.incoming, Awaited)
           h == Handler(c, k.incoming[i])
           f == WaitFrame(c, name, interrupt)
           u == Spend(q)
           t == Push(u, f)
           v == Push(u, h)
           op == IF interrupt THEN "waitInterruptibly" ELSE "wait"
<1>1. MainMay(c, op)
  BY DEF WaitForMessage
<1>2. \/ proc' = [proc EXCEPT ![p] = v]
      \/ proc' = [proc EXCEPT ![p] = u]
      \/ proc' = [proc EXCEPT ![p] = t]
  BY DEF WaitForMessage, WaitFrame
<1>3. p \in Processes /\ q \in States(p)
  BY Here
<1>4. f \in Frames(p) /\ f.op = "wait"
  <2>1. f \in WaitFrames(p) /\ f.op = "wait"
    BY MineFacts DEF WaitFrames, WaitFrame
  <2> QED
    BY <2>1 DEF Frames
<1>5. u = Spend(q) /\ v = Push(u, h) /\ t = Push(u, f)
  OBVIOUS
<1> HIDE DEF i, k, h, f, u, t, v, op
<1>6. u \in States(p) /\ u.stack = q.stack
  BY <1>1, <1>5, MayFacts DEF MainMay
<1>7. v.done # q.done
  <2>1. q.done \in Nat /\ u.done = q.done + 1
    BY <1>3, <1>5, BoundsAssumption DEF Spend, States
  <2>2. v.done = u.done
    BY <1>5, <1>6 DEF Push, States
  <2> QED
    BY <2>1, <2>2
<1>8. Settled(q, u) /\ Settled(q, t) /\ Settled(q, v)
  <2>1. Settled(q, u)
    BY <1>3, <1>6, SettledSame
  <2>2. Settled(q, t)
    BY <1>4, <1>5, <1>6, SettledPush
  <2> QED
    BY <1>7, <2>1, <2>2 DEF Settled
<1> QED
  BY <1>2, <1>3, <1>8, OneSettled

(* The main thread.                                                        *)
LEMMA PopSettled ==
    ASSUME Inv, NEW p \in Processes, HandlerReturns(p) \/ SyncReturns(p)
    PROVE  AllSettled
<1> DEFINE t == Pop(proc[p])
           c == Head(proc[p].stack).c
<1>1. proc[p].stack # <<>> /\ Top(p) = Head(proc[p].stack) /\ Head(proc[p].stack).op \in {"handle", "sync"}
  BY AtFacts, Zenon DEF HandlerReturns, SyncReturns
<1>2. processOf[c] = p
  BY <1>1, TopConnection
<1>3. proc' = [proc EXCEPT ![p] = t] \/ Die(p)
  BY <1>1, <1>2, Zenon DEF HandlerReturns, SyncReturns, DidFailToSendSyncMessage
<1>4. t = Pop(proc[p]) /\ proc[p] \in States(p)
  BY There
<1> HIDE DEF t
<1>5. t.stack = Tail(proc[p].stack)
  BY <1>1, <1>4, PopEffect
<1>6. Settled(proc[p], t)
  BY <1>1, <1>4, <1>5, SettledTail
<1> QED
  BY <1>3, <1>6, DieSettled, OneSettled

LEMMA SyncDispatchSettled ==
    ASSUME Inv, NEW p \in Processes, SyncDispatch(p)
    PROVE  AllSettled
<1> DEFINE q == proc[p]
           a == "check"
           u == GoOn(q, a)
           n == None
           t == DispatchMessages(u, n)
           f == DispatchFrame(n, u.toDispatch)
<1>1. q.stack # <<>> /\ Head(q.stack).op = "sync" /\ q \in States(p)
  BY AtFacts, There DEF SyncDispatch
<1>2. proc' = [proc EXCEPT ![p] = u] \/ proc' = [proc EXCEPT ![p] = t]
  BY DEF SyncDispatch
<1>3. CanGo(Head(q.stack), a) /\ u = GoOn(q, a)
  BY <1>1 DEF CanGo, SyncPlaces
<1>4. n \in Mine(p) \cup {None} /\ t = DispatchMessages(u, n) /\ f = DispatchFrame(n, u.toDispatch)
  OBVIOUS
<1> HIDE DEF a, u, n, t, f
<1>5. Settled(q, u) /\ u \in States(p)
  BY <1>1, <1>3, SettledGoOn
<1>6. f \in Frames(p) /\ f.op = "dispatch" /\ t.stack = Cons(f, u.stack)
  BY <1>4, <1>5, DispatchEffect
<1>7. Head(t.stack) = f
  BY <1>5, <1>6, ConsPlaces DEF Stacked, States
<1>8. Settled(q, t)
  BY <1>6, <1>7, SettledOther
<1> QED
  BY <1>2, <1>5, <1>8, OneSettled

LEMMA SyncGoesSettled ==
    ASSUME Inv, NEW p \in Processes, SyncCheck(p) \/ SyncWakes(p) \/ SyncTimesOut(p)
    PROVE  AllSettled
<1> DEFINE q == proc[p]
           reply == Last(conn[Top(p).c].pending).reply
           a == "return"
           b == "wait"
           d == "dispatch"
           u == GoOn(q, a)
           v == GoOn(q, b)
           w == GoOn(q, d)
           t == WithOk(u, reply)
           x == [w EXCEPT !.semaphore = FALSE]
<1>1. q.stack # <<>> /\ Head(q.stack).op = "sync" /\ q \in States(p)
  BY AtFacts, There DEF SyncCheck, SyncWakes, SyncTimesOut
<1>2. \/ proc' = [proc EXCEPT ![p] = t] \/ proc' = [proc EXCEPT ![p] = v]
      \/ proc' = [proc EXCEPT ![p] = x] \/ proc' = [proc EXCEPT ![p] = u]
  BY DEF SyncCheck, SyncWakes, SyncTimesOut, WithOk
<1>3. /\ CanGo(Head(q.stack), a) /\ u = GoOn(q, a) /\ CanGo(Head(q.stack), b) /\ v = GoOn(q, b)
      /\ CanGo(Head(q.stack), d) /\ w = GoOn(q, d) /\ t = WithOk(u, reply)
  BY <1>1 DEF CanGo, SyncPlaces
<1> HIDE DEF a, b, d, u, v, w, t, reply
<1>4. /\ Settled(q, u) /\ u \in States(p) /\ u.stack # <<>> /\ Head(u.stack).op = "sync" /\ Len(u.stack) = Len(q.stack)
      /\ Settled(q, v) /\ w \in States(p) /\ Len(w.stack) = Len(q.stack)
  BY <1>1, <1>3, SettledGoOn
<1>5. Settled(q, t)
  <2>1. Len(t.stack) = Len(q.stack)
    BY <1>3, <1>4, WithOkEffect
  <2> QED
    BY <1>1, <2>1, SettledLen
<1>6. Settled(q, x)
  <2>1. x.stack = w.stack
    BY <1>4 DEF States
  <2> HIDE DEF x
  <2> QED
    BY <1>1, <1>4, <2>1, SettledLen
<1> HIDE DEF x
<1> QED
  BY <1>2, <1>4, <1>5, <1>6, OneSettled

LEMMA WaitSettled ==
    ASSUME Inv, NEW p \in Processes, WaitRegisters(p) \/ WaitTimesOut(p) \/ WaitWakes(p)
    PROVE  AllSettled
<1> DEFINE q == proc[p]
           a == "check"
           b == "timedOut"
           u == GoOn(q, a)
           v == GoOn(q, b)
           t == Pop(q)
<1>1. q.stack # <<>> /\ Head(q.stack).op = "wait" /\ q \in States(p)
  BY AtFacts, There DEF WaitRegisters, WaitTimesOut, WaitWakes
<1>2. \/ proc' = [proc EXCEPT ![p] = u]
      \/ proc' = [proc EXCEPT ![p] = v]
      \/ proc' = [proc EXCEPT ![p] = t]
  BY DEF WaitRegisters, WaitTimesOut, WaitWakes, WaitEnds
<1>3. CanGo(Head(q.stack), a) /\ u = GoOn(q, a) /\ CanGo(Head(q.stack), b) /\ v = GoOn(q, b) /\ t = Pop(q)
  BY <1>1 DEF CanGo, WaitPlaces
<1> HIDE DEF a, b, u, v, t
<1>4. Settled(q, u) /\ Settled(q, v)
  BY <1>1, <1>3, SettledGoOn
<1>5. Settled(q, t)
  BY <1>1, <1>3, PopEffect, SettledTail
<1> QED
  BY <1>2, <1>4, <1>5, OneSettled

(* The handler takes the place of the wait.                                *)
LEMMA WaitChecksSettled ==
    ASSUME Inv, NEW p \in Processes, WaitChecks(p)
    PROVE  AllSettled
<1> DEFINE q == proc[p]
           h == Handler(Head(q.stack).c, conn[Head(q.stack).c].waiting.decoder)
           a == "asleep"
           u == GoOn(q, a)
           v == Pop(q)
           t == Push(v, h)
<1>1. q.stack # <<>> /\ Head(q.stack).op = "wait" /\ Top(p) = Head(q.stack) /\ q \in States(p)
  BY AtFacts, There DEF WaitChecks
<1>2. proc' = [proc EXCEPT ![p] = u] \/ proc' = [proc EXCEPT ![p] = t]
  BY <1>1 DEF WaitChecks
<1>3. CanGo(Head(q.stack), a) /\ u = GoOn(q, a) /\ v = Pop(q)
  BY <1>1 DEF CanGo, WaitPlaces
<1> HIDE DEF a, u, v, h
<1>4. Settled(q, u)
  BY <1>1, <1>3, SettledGoOn
<1>5. v \in States(p) /\ v.stack = Tail(q.stack) /\ q.stack \in Seq(Frames(p)) /\ v.stack \in Seq(Frames(p))
  BY <1>1, <1>3, PopEffect DEF States
<1>6. t.stack = Cons(h, v.stack)
  BY <1>5 DEF Push, States
<1>7. Len(t.stack) = Len(v.stack) + 1
  BY <1>5, <1>6 DEF Cons
<1>8. Len(q.stack) \in Nat /\ Len(v.stack) = Len(q.stack) - 1
  BY <1>1, <1>5, HeadTailProperties, LenProperties, EmptySeq
<1>9. Len(t.stack) = Len(q.stack)
  BY <1>7, <1>8
<1> HIDE DEF t
<1>10. Settled(q, t)
  BY <1>1, <1>9, SettledLen, SMTT(30)
<1> QED
  BY <1>2, <1>4, <1>10, OneSettled

(* What is dispatched during a wait breaks into waits.                     *)
LEMMA DispatchNextSettled ==
    ASSUME Inv, NEW p \in Processes, DispatchNext(p)
    PROVE  AllSettled
<1> DEFINE q == proc[p]
           g == Head(q.stack)
           e == Head(g.rest)
           u == Turn(q)
           t == PutBack(u, e)
           v == Pop(q)
           w == [v EXCEPT !.toDispatch = @ \o g.back]
           h == TurnedFrame(g)
           f == Handler(e.c, e.m)
           x == Push(u, f)
<1>1. q.stack # <<>> /\ g.op = "dispatch" /\ g \in DispatchFrames(p)
  BY DispatchNextFacts
<1>2. \/ g.rest = <<>> /\ proc' = [proc EXCEPT ![p] = w]
      \/ g.rest # <<>> /\ DispatchMessage(e.c, e.m, u)
      \/ g.rest # <<>> /\ proc' = [proc EXCEPT ![p] = t]
  BY DispatchNextFacts, Zenon
<1>3. q \in States(p) /\ g = Head(q.stack) /\ u = Turn(q) /\ t = PutBack(u, e) /\ v = Pop(q) /\ x = Push(u, f)
  BY There
<1>4. CASE g.rest = <<>> /\ proc' = [proc EXCEPT ![p] = w]
  <2>1. v \in States(p) /\ v.stack = Tail(q.stack)
    BY <1>1, <1>3, PopEffect
  <2>2. w.stack = Tail(q.stack)
    BY <2>1 DEF States
  <2> HIDE DEF w
  <2> QED
    BY <1>1, <1>3, <1>4, <2>2, SettledTail, OneSettled
<1>5. ASSUME g.rest # <<>>
      PROVE  /\ u \in States(p) /\ Head(u.stack) = h /\ u.stack # <<>> /\ h.op = "dispatch" /\ h \in DispatchFrames(p)
             /\ e \in Entries(p)
  <2>1. e \in Entries(p)
    BY <1>1, <1>5, TailFacts, Zenon DEF DispatchFrames
  <2> HIDE DEF g, u, h, e
  <2>2. u \in States(p) /\ h \in DispatchFrames(p) /\ Head(u.stack) = h /\ u.stack # <<>>
    BY <1>1, <1>3, <1>5, TurnEffect DEF h
  <2>3. h.op = "dispatch"
    BY <2>2, Zenon DEF DispatchFrames
  <2> QED
    BY <2>1, <2>2, <2>3
<1>6. CASE g.rest # <<>> /\ proc' = [proc EXCEPT ![p] = t]
  <2>1. u \in States(p) /\ Head(u.stack) = h /\ u.stack # <<>> /\ h \in DispatchFrames(p) /\ e \in Entries(p) /\ t = PutBack(u, e)
    BY <1>5, <1>6
  <2> DEFINE b == BackFrame(h, e)
  <2> HIDE DEF u, t, e, h, g
  <2>2. b \in DispatchFrames(p) /\ Head(t.stack) = b
    BY <2>1, PutBackEffect
  <2>3. Head(t.stack).op # "handle"
    BY <2>2, Zenon DEF DispatchFrames
  <2> QED
    BY <1>6, <2>3, SettledOther, OneSettled
<1>7. CASE g.rest # <<>> /\ DispatchMessage(e.c, e.m, u)
  <2>1. u \in States(p) /\ Head(u.stack).op = "dispatch" /\ e \in Entries(p)
    BY <1>5, <1>7
  <2>2. processOf[e.c] = p /\ e.c \in Mine(p) /\ e.m.flagged /\ e.m \in Message
    BY <2>1, MineFacts DEF Entries, FlaggedMessages
  <2>3. proc' = [proc EXCEPT ![p] = u] \/ proc' = [proc EXCEPT ![p] = x]
    BY <1>7, <2>2, Zenon DEF DispatchMessage
  <2>4. Settled(q, u)
    BY <2>1, SettledOther
  <2>5. f \in Frames(p) /\ f.m = e.m
    <3>1. f \in HandleFrames(p) /\ f.m = e.m
      BY <2>2 DEF HandleFrames, Handler
    <3> QED
      BY <3>1 DEF Frames
  <2> HIDE DEF u, x, f
  <2>6. x.stack = Cons(f, u.stack)
    BY <1>3, <2>1, <2>5, PushEffect
  <2>7. Head(x.stack) = f
    BY <2>1, <2>5, <2>6, ConsPlaces DEF Stacked, States
  <2>8. Settled(q, x)
    BY <2>2, <2>5, <2>7 DEF Settled
  <2> QED
    BY <2>3, <2>4, <2>8, OneSettled
<1> QED
  BY <1>2, <1>4, <1>6, <1>7

LEMMA DidCloseSettled ==
    ASSUME Inv, NEW p \in Processes, DidClose(p)
    PROVE  AllSettled
<1> DEFINE t == Turned(p)
           op == "didClose"
<1>1. RunLoopTurn(p, op) /\ t = Turned(p) /\ proc' = [proc EXCEPT ![p] = t]
  BY DEF DidClose
<1> HIDE DEF t, op
<1>2. proc[p] \in States(p) /\ t.stack = proc[p].stack
  BY <1>1, TurnedFacts
<1> QED
  BY <1>1, <1>2, SettledSame, OneSettled

LEMMA ResetDidScheduleSettled ==
    ASSUME Inv, NEW p \in Processes, ResetDidSchedule(p)
    PROVE  AllSettled
<1> DEFINE c == Head(proc[p].runLoop).c
           v == Turned(p)
           u == Unscheduled(v, c)
           f == ResetFrame(c)
           t == Push(u, f)
           op == "dispatchMessages"
<1>1. RunLoopTurn(p, op) /\ v = Turned(p)
  BY Zenon DEF ResetDidSchedule
<1>2. proc' = [proc EXCEPT ![p] = t]
  BY Zenon DEF ResetDidSchedule, ResetFrame, Unscheduled
<1>3. t = Push(u, f)
  OBVIOUS
<1> HIDE DEF v, t, op
<1>4. v \in States(p) /\ c \in Mine(p)
  BY <1>1, TurnedFacts
<1> HIDE DEF c
<1>5. u \in States(p)
  BY <1>4 DEF Unscheduled, States
<1>6. f \in Frames(p) /\ f.op # "handle"
  BY <1>4, Zenon DEF Frames, ResetFrame, ResetFrames
<1> HIDE DEF u, f
<1> QED
  BY <1>2, <1>3, <1>5, <1>6, SettledPush, OneSettled

LEMMA DispatchAllowedSettled ==
    ASSUME Inv, NEW p \in Processes, DispatchAllowed(p)
    PROVE  AllSettled
<1> DEFINE q == proc[p]
           c == Head(q.stack).c
           u == Pop(q)
           t == DispatchMessages(u, c)
           f == DispatchFrame(c, u.toDispatch)
<1>1. q.stack # <<>> /\ Head(q.stack).op = "dispatchMessages" /\ Top(p) = Head(q.stack) /\ q \in States(p)
  BY AtFacts, There, Zenon DEF DispatchAllowed
<1>2. proc' = [proc EXCEPT ![p] = t]
  BY <1>1, Zenon DEF DispatchAllowed
<1>3. c \in Mine(p) \cup {None}
  BY <1>1, TopConnection
<1>4. u = Pop(q) /\ t = DispatchMessages(u, c) /\ f = DispatchFrame(c, u.toDispatch)
  OBVIOUS
<1> HIDE DEF u, c, t, f
<1>5. u \in States(p)
  BY <1>1, <1>4, PopEffect
<1>6. f \in Frames(p) /\ f.op = "dispatch" /\ t.stack = Cons(f, u.stack)
  BY <1>3, <1>4, <1>5, DispatchEffect
<1>7. Head(t.stack) = f
  BY <1>5, <1>6, ConsPlaces DEF Stacked, States
<1>8. Settled(q, t)
  BY <1>6, <1>7, SettledOther
<1> QED
  BY <1>2, <1>8, OneSettled

(* The connection's thread.                                                *)
LEMMA SignalSettled ==
    ASSUME Inv, NEW c \in Endpoints, HangUp(c) \/ CloseTask(c) \/ \E m : ReadReply(c, m)
    PROVE  AllSettled
<1> DEFINE p == processOf[c]
           q == proc[p]
           u == Signal(q)
<1>1. proc' = [proc EXCEPT ![p] = u] \/ proc' = [proc EXCEPT ![p] = q]
  BY Zenon DEF HangUp, CloseTask, ConnectionDidClose, ReadReply, Reads
<1>2. u = Signal(q) /\ q \in States(p) /\ p \in Processes
  BY Here
<1> HIDE DEF u
<1>3. Settled(q, u) /\ Settled(q, q)
  BY <1>2, SignalEffect, SettledSame
<1> QED
  BY <1>1, <1>2, <1>3, OneSettled

LEMMA ReadFlaggedSettled ==
    ASSUME Inv, NEW c \in Endpoints, NEW m, ReadFlagged(c, m)
    PROVE  AllSettled
<1> DEFINE p == processOf[c]
           q == proc[p]
           k == conn[c]
           u == ToDispatch(q, c, m)
           t == Signal(u)
<1>1. Reads(c, m, k, t)
  BY DEF ReadFlagged, ToDispatch, TaskOf, EntryOf
<1>2. m \in Message /\ proc' = [proc EXCEPT ![p] = t]
  <2> HIDE DEF k, t
  <2> QED
    BY <1>1, ReadsFacts
<1>3. p \in Processes /\ q \in States(p) /\ c \in Mine(p)
  BY Here, MineFacts
<1>4. u \in States(p) /\ u.stack = q.stack
  <2>1. u = ToDispatch(q, c, m) /\ q \in States(p) /\ c \in Mine(p) /\ m \in FlaggedMessages
    BY <1>2, <1>3 DEF ReadFlagged, FlaggedMessages
  <2> HIDE DEF q, u, p
  <2> QED
    BY <2>1, ToDispatchEffect
<1>5. t = Signal(u)
  OBVIOUS
<1> HIDE DEF u, t
<1>6. t.stack = q.stack
  BY <1>4, <1>5, SignalEffect
<1> QED
  BY <1>2, <1>3, <1>6, SettledSame, OneSettled

LEMMA NotifySettled ==
    ASSUME Inv, NEW c \in Endpoints, FinishClose(c) \/ \E m : ReadAwaited(c, m) \/ ReadOther(c, m)
    PROVE  AllSettled
<1> DEFINE p == processOf[c]
           q == proc[p]
           a == "dispatchOneMessage"
           b == "didClose"
           u == WithTask(q, a, c)
           v == Notify(c, q)
           t == Notify(c, u)
           w == WithTask(v, b, c)
<1>1. /\ \/ proc' = [proc EXCEPT ![p] = u] \/ proc' = [proc EXCEPT ![p] = v]
         \/ proc' = [proc EXCEPT ![p] = t] \/ proc' = [proc EXCEPT ![p] = w]
      /\ q.alive
  BY Zenon DEF FinishClose, ReadAwaited, ReadOther, Reads, WithTask, TaskOf, IsAt
<1>2. /\ u = WithTask(q, a, c) /\ a \in {"dispatchOneMessage", "didClose"} /\ t = Notify(c, u)
      /\ w = WithTask(v, b, c) /\ b \in {"dispatchOneMessage", "didClose"} /\ v = Notify(c, q)
  OBVIOUS
<1>3. p \in Processes /\ q \in States(p) /\ ProcessInv(q) /\ c \in Mine(p)
  BY Here, MineFacts
<1> HIDE DEF u, v, t, w, a, b
<1>4. u \in States(p) /\ u.stack = q.stack
  BY <1>1, <1>2, <1>3, WithTaskEffect
<1>5. v \in States(p) /\ v.alive /\ ProcessInv(v)
  BY <1>1, <1>2, <1>3, NotifyFacts
<1>6. w.stack = v.stack
  BY <1>2, <1>3, <1>5, WithTaskEffect
<1>7. v.stack = q.stack \/ Head(v.stack).op = "wait"
  BY <1>2, <1>3, SettledNotify
<1>8. t.stack = u.stack \/ Head(t.stack).op = "wait"
  BY <1>2, <1>4, SettledNotify
<1>9. \A x \in {u, v, t, w} : x.stack = q.stack \/ Head(x.stack).op # "handle"
  BY <1>4, <1>6, <1>7, <1>8
<1>10. \A x \in {u, v, t, w} : Settled(q, x)
  BY <1>3, <1>9, SettledSame, SettledOther
<1>11. Settled(q, u) /\ Settled(q, v) /\ Settled(q, t) /\ Settled(q, w)
  BY <1>10
<1> QED
  BY <1>1, <1>3, <1>11, OneSettled
-----------------------------------------------------------------------------
(* What a step may not do in HandledInOrder, for one process.              *)
Before(m, f) == m.name # "SyncMessageReply" /\ ~m.flagged /\ m.number < f.m.number
TakesFirst(p) ==
    LET f == Head(proc'[p].stack)
    IN  Starts(proc[p], proc'[p]) /\ ~f.m.flagged /\ proc'[p].done = proc[p].done =>
            \A m \in ToSet(conn'[f.c].incoming \o socket[f.c] \o conn[peerOf[f.c]].outgoing) : ~Before(m, f)

LEMMA SettledTakesFirst ==
    ASSUME NEW p \in Processes, Settled(proc[p], proc'[p])
    PROVE  TakesFirst(p)
  BY DEF Settled, TakesFirst

LEMMA DispatchOneMessageTakesFirst ==
    ASSUME Inv, OrderInv, NEW p \in Processes, DispatchOneMessage(p)
    PROVE  \A r \in Processes : TakesFirst(r)
<1> DEFINE c == Head(proc[p].runLoop).c
           k == conn[c]
           m == Head(k.incoming)
           q == proc[p]
           t == Turned(p)
           op == "dispatchOneMessage"
           f == Handler(c, m)
           x == Push(t, f)
<1>1. /\ c \in Endpoints /\ processOf[c] = p /\ UNCHANGED socket
      /\ \/ UNCHANGED conn /\ proc' = [proc EXCEPT ![p] = t]
         \/ /\ k.incoming # <<>> /\ conn' = [conn EXCEPT ![c] = WithoutFirst(k)]
            /\ DispatchMessage(c, m, t)
  BY FirstTaken
<1>2. RunLoopTurn(p, op) /\ t = Turned(p) /\ x = Push(t, f)
  BY DEF DispatchOneMessage
<1>3. q \in States(p) /\ t \in States(p) /\ t.stack = q.stack /\ c \in Mine(p)
  <2> HIDE DEF t, op
  <2> QED
    BY <1>2, TurnedFacts
<1>4. CASE proc' = [proc EXCEPT ![p] = t]
  <2> HIDE DEF t
  <2>1. AllSettled
    BY <1>3, <1>4, SettledSame, OneSettled
  <2> QED
    BY <2>1, SettledTakesFirst DEF AllSettled
<1>5. CASE k.incoming # <<>> /\ conn' = [conn EXCEPT ![c] = WithoutFirst(k)] /\ proc' = [proc EXCEPT ![p] = x]
  <2>1. /\ k \in Connections /\ k.incoming \in Seq(Message) /\ socket[c] \in Seq(Message)
        /\ peerOf[c] \in Endpoints /\ conn[peerOf[c]].outgoing \in Seq(Message)
    BY <1>1, QueuesHere
  <2> DEFINE i == conn'[c].incoming
             so == socket[c]
             out == conn[peerOf[c]].outgoing
             in == k.incoming
  <2>2. i = Tail(in) /\ in # <<>> /\ in \in Seq(Message)
    BY <1>1, <1>5, <2>1, Zenon DEF WithoutFirst, Connections, Inv, TypeInv
  <2>3. InOrder(in, so, out)
    BY <1>1 DEF OrderInv
  <2>4. so \in Seq(Message) /\ out \in Seq(Message) /\ m = Head(in)
    BY <2>1
  <2>5. proc'[p] = x /\ \A r \in Processes : r # p => proc'[r] = proc[r]
    BY <1>5 DEF Inv, TypeInv
  <2> HIDE DEF i, so, out, in, k, m, c, q, t
  <2>6. m \in Message /\ m \in Range(in) /\ (\A n \in Range(i) : m.number < n.number)
        /\ i \in Seq(Message)
    BY <2>2, <2>3, <2>4, RisingTail, TailFacts DEF InOrder
  <2>7. \A n \in Range(so) \cup Range(out) : m.number < n.number
    BY <2>3, <2>6 DEF InOrder, Below
  <2>8. \A n \in ToSet(i \o so \o out) : m.number < n.number /\ n.number \in Nat
    <3> DEFINE s == i \o so
    <3>1. s \in Seq(Message) /\ Range(s) = Range(i) \cup Range(so)
      BY <2>4, <2>6, ConcatFacts
    <3> HIDE DEF s
    <3>2. Range(s \o out) = Range(i) \cup Range(so) \cup Range(out)
      BY <2>4, <3>1, ConcatFacts
    <3>3. ToSet(i \o so \o out) = Range(s \o out)
      BY DEF ToSet, Range, s
    <3>4. \A n \in Range(i) \cup Range(so) \cup Range(out) : n.number \in Nat
      BY <2>4, <2>6, NumbersOf
    <3> QED
      BY <2>6, <2>7, <3>2, <3>3, <3>4
  <2>9. m.number \in Nat
    BY <2>6 DEF Message
  <2>10. \A n \in ToSet(i \o so \o out) : ~(n.number < m.number)
    BY <2>8, <2>9
  <2>11. f \in Frames(p) /\ f.c = c /\ f.m = m
    <3>1. f \in HandleFrames(p) /\ f.c = c /\ f.m = m
      BY <1>3, <2>6 DEF HandleFrames, Handler
    <3> QED
      BY <3>1 DEF Frames
  <2> HIDE DEF f, x
  <2>12. Head(proc'[p].stack) = f
    <3>1. x.stack = Cons(f, t.stack)
      BY <1>2, <1>3, <2>11, PushEffect
    <3> QED
      BY <1>3, <2>5, <2>11, <3>1, ConsPlaces DEF Stacked, States
  <2>13. TakesFirst(p)
    BY <2>10, <2>11, <2>12 DEF TakesFirst, Before, i, so, out
  <2>14. ASSUME NEW r \in Processes, r # p PROVE TakesFirst(r)
    <3>1. proc[r] \in States(r) /\ proc'[r].stack = proc[r].stack
      BY <2>5, <2>14, There
    <3> QED
      BY <3>1, SettledSame, SettledTakesFirst
  <2> QED
    BY <2>13, <2>14
<1> QED
  BY <1>1, <1>4, <1>5, Zenon DEF DispatchMessage

LEMMA NextTakesFirst ==
    ASSUME Inv, OrderInv, Next
    PROVE  \A p \in Processes : TakesFirst(p)
<1>1. ASSUME NEW p \in Processes, MainThreadStep(p) \/ SyncTimesOut(p), ~DispatchOneMessage(p) PROVE AllSettled
  BY <1>1, PopSettled, SyncDispatchSettled, SyncGoesSettled, DispatchNextSettled, WaitSettled, WaitChecksSettled,
     ResetDidScheduleSettled, DispatchAllowedSettled, DidCloseSettled DEF MainThreadStep
<1>2. ASSUME NEW p \in Processes, Crash(p) PROVE AllSettled
  BY <1>2, DieSettled DEF Crash
<1>3. ASSUME NEW c \in Endpoints, ClientStep(c) PROVE AllSettled
  BY <1>3, SpendingSettled, WaitForMessageSettled, SendSyncSettled DEF ClientStep
<1>4. ASSUME NEW c \in Endpoints, QueueThreadStep(c) PROVE AllSettled
  <2>1. ASSUME ProcessIncomingMessage(c) PROVE AllSettled
    BY <2>1, SignalSettled, ReadFlaggedSettled, NotifySettled DEF ProcessIncomingMessage
  <2>2. ASSUME SendOutgoingMessages(c) \/ InvalidateTask(c) PROVE AllSettled
    BY <2>2, SameSettled DEF SendOutgoingMessages, InvalidateTask
  <2> QED
    BY <1>4, <2>1, <2>2, SignalSettled, NotifySettled DEF QueueThreadStep
<1>5. ASSUME NEW c \in Endpoints, SecondaryReturns(c) \/ SecondaryTimesOut(c) PROVE AllSettled
  BY <1>5, SameSettled DEF SecondaryReturns, SecondaryTimesOut, SecondaryEnds
<1>6. AllSettled => \A p \in Processes : TakesFirst(p)
  BY SettledTakesFirst DEF AllSettled
<1> QED
  BY <1>1, <1>2, <1>3, <1>4, <1>5, <1>6, DispatchOneMessageTakesFirst DEF Next

LEMMA OrderStep ==
    Inv /\ OrderInv /\ [Next]_vars =>
        (Inv /\ OrderInv)' /\ ((\A p \in Processes : TakesFirst(p)) \/ UNCHANGED vars)
<1>1. ASSUME Inv, OrderInv, Next PROVE (Inv /\ OrderInv)' /\ \A p \in Processes : TakesFirst(p)
  BY <1>1, NextInv, NextOrder, NextTakesFirst
<1>2. ASSUME Inv, OrderInv, UNCHANGED vars PROVE (Inv /\ OrderInv)'
  BY <1>2, StutterInv, SameIdle DEF vars
<1> QED
  BY <1>1, <1>2

(* HandledInOrder holds for any processes, connections and clients:        *)
(* enqueueIncomingMessage() and dispatchOneMessage() (Connection.cpp:865,  *)
(* 919) keep the order in which sendMessage() queued the messages of a     *)
(* connection, whatever is taken out on the way because it is a reply,     *)
(* breaks into waits or is what waitForMessage() asked for.                *)
THEOREM MessagesInOrder == Spec => HandledInOrder
<1> DEFINE A == \A p \in Processes :
                    LET f == Head(proc'[p].stack)
                        starts == Len(proc'[p].stack) > Len(proc[p].stack) /\ f.op = "handle"
                        before(m) == m.name # "SyncMessageReply" /\ ~m.flagged /\ m.number < f.m.number
                    IN  starts /\ ~f.m.flagged /\ (\A i \in DOMAIN proc[p].stack : proc[p].stack[i].op # "wait")
                               /\ proc'[p].done = proc[p].done =>
                           LET c == f.c IN
                           ~\E m \in ToSet(conn'[c].incoming \o socket[c] \o conn[peerOf[c]].outgoing) : before(m)
<1>1. Init => Inv /\ OrderInv
  BY InitInv, InitOrder
<1>2. Inv /\ OrderInv /\ [Next]_vars => (Inv /\ OrderInv)' /\ [A]_vars
  <2>1. (\A p \in Processes : TakesFirst(p)) => A
    BY DEF TakesFirst, Before, Starts
  <2> QED
    BY <2>1, OrderStep
<1> QED
  BY <1>1, <1>2, PTL DEF Spec, HandledInOrder
=============================================================================
