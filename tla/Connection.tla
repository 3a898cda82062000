------------------------------ MODULE Connection ------------------------------
(***************************************************************************)
(* IPC::Connection (Connection.cpp, unix/ConnectionUnix.cpp): messages and *)
(* synchronous calls between the processes of WebKit. A process has a main *)
(* thread, which runs the client's code, and one SyncMessageState shared   *)
(* by its connections; a connection has a work queue, one thread, which    *)
(* reads and writes the socket. The main thread is modelled by its call    *)
(* stack, because a thread that waits for a reply dispatches messages      *)
(* whose handlers wait for replies in their turn.                          *)
(*                                                                         *)
(* A step is what one thread does under one lock, or one access to the     *)
(* socket. Both ends are open()ed already.                                 *)
(***************************************************************************)
EXTENDS Naturals, Sequences, SequencesExt

CONSTANTS
    Processes,
    Endpoints,      \* the Connection objects
    processOf,      \* the process of each one
    peerOf,         \* the other end of its socket
    OnlyFlagged,    \* m_onlySendMessagesAsDispatch...WhenProcessingSuchAMessage
    ExitOnFailure,  \* m_shouldExitOnSyncMessageSendFailure
    NestedLoops,    \* the processes whose handlers may run a nested run loop
    Operations,     \* what the client's code does on each endpoint
    maxOperations,  \* how often, by process
    Mortal,         \* the processes that may crash
    Names,          \* the names of asynchronous messages
    capacity,       \* how many messages a socket holds
    None

ASSUME TopologyAssumption ==
    /\ processOf \in [Endpoints -> Processes]
    /\ peerOf \in [Endpoints -> Endpoints]
    /\ \A c \in Endpoints : peerOf[c] # c /\ peerOf[peerOf[c]] = c
    /\ OnlyFlagged \subseteq Endpoints /\ ExitOnFailure \subseteq Endpoints
    /\ NestedLoops \subseteq Processes /\ Mortal \subseteq Processes

(* The number is the position in what the endpoint sends: no part of the   *)
(* message, only there to speak of order.                                  *)
Message ==
    [name : Names \cup {"sync", "SyncMessageReply"}, flagged : BOOLEAN,
     id : Nat, number : Nat]

WaitForMessageState ==
    [name : Names, interrupt : BOOLEAN, interrupted : BOOLEAN, decoder : Message \cup {None}]

ASSUME BoundsAssumption ==
    /\ maxOperations \in [Processes -> Nat]
    /\ capacity \in Nat \ {0}
    /\ Names \cap {"sync", "SyncMessageReply"} = {}
    /\ None \notin Endpoints \cup WaitForMessageState

VARIABLES
    conn,       \* the members of each Connection
    proc,       \* main thread, run loop and SyncMessageState of each process
    socket,     \* the messages on their way to each endpoint
    calls       \* history: what became of each synchronous call

vars == <<conn, proc, socket, calls>>

NewConnection ==
    [client |-> TRUE,       \* m_client is not null
     connected |-> TRUE,    \* m_isConnected
     shouldWait |-> TRUE,   \* m_shouldWaitForSyncReplies
     incoming |-> <<>>,     \* m_incomingMessages
     outgoing |-> <<>>,     \* m_outgoingMessages
     pending |-> <<>>,      \* m_pendingSyncReplies
     secondary |-> {},      \* m_secondaryThreadPendingSyncReplyMap
     waiting |-> None,      \* m_waitingForMessage
     lastID |-> 0,          \* m_syncRequestID
     tasks |-> <<>>,        \* the functions dispatched to m_connectionQueue
     thread |-> "idle",     \* where its thread is
     sent |-> 0,            \* the number of messages sent
     told |-> 0]            \* how often the client's didClose() was called

NewProcess ==
    [alive |-> TRUE,
     stack |-> <<>>,        \* the main thread's calls, innermost first
     runLoop |-> <<>>,      \* the functions dispatched to RunLoop::main()
     toDispatch |-> <<>>,   \* m_messagesToDispatchWhileWaitingForSyncReply
     scheduled |-> {},      \* m_didScheduleDispatchMessagesWorkSet
     semaphore |-> FALSE,   \* m_waitForSyncReplySemaphore
     done |-> 0]            \* the operations begun

Init ==
    /\ conn = [c \in Endpoints |-> NewConnection]
    /\ proc = [p \in Processes |-> NewProcess]
    /\ socket = [c \in Endpoints |-> <<>>]
    /\ calls = [c \in Endpoints |-> <<>>]
-----------------------------------------------------------------------------
(***************************************************************************)
(* What the actions are made of.                                           *)
(***************************************************************************)

Top(p) == Head(proc[p].stack)
In(p, op) == proc[p].stack # <<>> /\ Top(p).op = op
At(p, op, at) == In(p, op) /\ Top(p).at = at
Push(q, frame) == [q EXCEPT !.stack = Cons(frame, @)]
Pop(q) == [q EXCEPT !.stack = Tail(@)]
GoOn(q, at) == [q EXCEPT !.stack[1].at = at]

Handler(c, m) == [op |-> "handle", at |-> "", c |-> c, m |-> m]

(* Client code runs in handlers, and between the functions of the run loop *)
(* (user input, timers).                                                   *)
RunsClientCode(p) ==
    proc[p].alive /\ (proc[p].stack = <<>> \/ In(p, "handle"))

May(c, op) ==
    LET p == processOf[c]
    IN  proc[p].alive /\ op \in Operations[c] /\ proc[p].done < maxOperations[p]
MainMay(c, op) == RunsClientCode(processOf[c]) /\ May(c, op)
Spend(q) == [q EXCEPT !.done = @ + 1]

(* m_inDispatchMessageMarkedDispatchWhenWaitingForSyncReplyCount > 0       *)
InFlaggedMessage(c) ==
    \E i \in DOMAIN proc[processOf[c]].stack :
        LET f == proc[processOf[c]].stack[i]
        IN f.op = "handle" /\ f.c = c /\ f.m.flagged

(* Mutant: a process that only answers flagged messages with flagged ones  *)
(* never does so.                                                          *)
FlaggedUnlessRestricted(c) == c \notin OnlyFlagged

(* Whether a message sent with DispatchMessageEvenWhenWaitingForSyncReply  *)
(* gets its flag.                                                          *)
Flagged(c) == c \notin OnlyFlagged \/ InFlaggedMessage(c)

(* sendMessage() on a valid connection. A sendOutgoingMessages() that      *)
(* follows another one in the queue finds nothing left to send, and the    *)
(* two are one here.                                                       *)
SendMessage(k, name, flagged, id) ==
    [k EXCEPT !.outgoing = Append(@, [name |-> name, flagged |-> flagged,
                                      id |-> id, number |-> k.sent + 1]),
              !.sent = @ + 1,
              !.tasks = IF @ # <<>> /\ Last(@) = "sendOutgoingMessages" THEN @
                        ELSE Append(@, "sendOutgoingMessages")]

PlatformInvalidate(k) == [k EXCEPT !.connected = FALSE]

(* dispatchMessage(): nothing happens without a client.                    *)
DispatchMessage(c, m, q) ==
    IF ~conn[c].client THEN proc' = [proc EXCEPT ![processOf[c]] = q] /\ UNCHANGED calls
    ELSE /\ proc' = [proc EXCEPT ![processOf[c]] = Push(q, Handler(c, m))]
         /\ calls' = IF m.name # "sync" THEN calls
                     ELSE [calls EXCEPT ![peerOf[c]][m.id].handler = "running"]

(* The end of a process, by a crash or by exit(): the kernel closes its    *)
(* sockets. What it has written can still be read.                         *)
Die(p) ==
    /\ proc' = [proc EXCEPT ![p] = [NewProcess EXCEPT !.alive = FALSE, !.done = proc[p].done]]
    /\ conn' = [c \in Endpoints |->
                   IF processOf[c] # p THEN conn[c]
                   ELSE [NewConnection EXCEPT !.client = FALSE, !.connected = FALSE,
                                              !.shouldWait = FALSE, !.told = conn[c].told]]
    /\ socket' = [c \in Endpoints |-> IF processOf[c] = p THEN <<>> ELSE socket[c]]
-----------------------------------------------------------------------------
(***************************************************************************)
(* The client's operations on the main thread.                             *)
(***************************************************************************)

Send(c, name, flag) ==
    /\ MainMay(c, IF flag THEN "sendFlagged" ELSE "send") /\ conn[c].client
    /\ conn' = [conn EXCEPT ![c] = SendMessage(@, name, flag /\ Flagged(c), 0)]
    /\ proc' = [proc EXCEPT ![processOf[c]] = Spend(@)]
    /\ UNCHANGED <<socket, calls>>

Invalidate(c) ==
    /\ MainMay(c, "invalidate") /\ conn[c].client
    /\ conn' = [conn EXCEPT ![c].client = FALSE, ![c].tasks = Append(@, "platformInvalidate")]
    /\ proc' = [proc EXCEPT ![processOf[c]] = Spend(@)]
    /\ UNCHANGED <<socket, calls>>

(* Mutant: the number is taken before it is incremented.                   *)
NextIDTooEarly(c) == conn[c].lastID

(* createSyncMessageEncoder()                                              *)
NextID(c) == conn[c].lastID + 1

(* sendSyncMessage(): push the request on the stack of pending replies,    *)
(* send it and enter waitForSyncReply().                                   *)
SendSync(c) ==
    LET p == processOf[c]
        id == NextID(c)
    IN  /\ MainMay(c, "sync")
        /\ conn[c].client /\ conn[c].shouldWait
        /\ conn' = [conn EXCEPT ![c] =
                       [SendMessage(conn[c], "sync", Flagged(c), id)
                          EXCEPT !.lastID = @ + 1, !.pending = Append(@, [id |-> id, reply |-> FALSE])]]
        /\ proc' = [proc EXCEPT ![p] =
                       Push(Spend(@), [op |-> "sync", at |-> "dispatch", c |-> c, id |-> id, ok |-> FALSE])]
        /\ calls' = [calls EXCEPT ![c] = Append(@, [caller |-> "waiting", handler |-> "none"])]
        /\ UNCHANGED socket

(* didFailToSendSyncMessage(), with q what becomes of the process.         *)
DidFailToSendSyncMessage(c, q, k) ==
    IF c \in ExitOnFailure THEN Die(processOf[c])
    ELSE /\ proc' = [proc EXCEPT ![processOf[c]] = q]
         /\ conn' = [conn EXCEPT ![c] = k]
         /\ UNCHANGED socket

SendSyncFails(c) ==
    /\ MainMay(c, "sync")
    /\ ~(conn[c].client /\ conn[c].shouldWait)
    /\ DidFailToSendSyncMessage(c, Spend(proc[processOf[c]]), [conn[c] EXCEPT !.lastID = @ + 1])
    /\ calls' = [calls EXCEPT ![c] = Append(@, [caller |-> "failed", handler |-> "none"])]

(* waitForMessage(), 389-412: the message may be there already. The client *)
(* calls it on connections it has not invalidated.                         *)
WaitForMessage(c, name, interrupt) ==
    LET p == processOf[c]
        Awaited(m) == m.name = name
        i == SelectInSeq(conn[c].incoming, Awaited)
        syncIncoming == \E m \in ToSet(conn[c].incoming) : m.name = "sync"
    IN  /\ MainMay(c, IF interrupt THEN "waitInterruptibly" ELSE "wait") /\ conn[c].client
        /\ \/ /\ i > 0
              /\ conn' = [conn EXCEPT ![c].incoming = RemoveAt(@, i)]
              /\ proc' = [proc EXCEPT ![p] = Push(Spend(@), Handler(c, conn[c].incoming[i]))]
           \/ /\ i = 0 /\ interrupt /\ syncIncoming
              /\ proc' = [proc EXCEPT ![p] = Spend(@)]
              /\ UNCHANGED conn
           \/ /\ i = 0 /\ ~(interrupt /\ syncIncoming)
              /\ proc' = [proc EXCEPT ![p] =
                             Push(Spend(@), [op |-> "wait", at |-> "register", c |-> c,
                                             name |-> name, interrupt |-> interrupt])]
              /\ UNCHANGED conn
        /\ UNCHANGED <<socket, calls>>

(* The end of a handler. dispatchSyncMessage() sends the reply if the      *)
(* handler has not invalidated the connection.                             *)
HandlerReturns(p) ==
    /\ At(p, "handle", "")
    /\ LET c == Top(p).c
           m == Top(p).m
       IN  /\ proc' = [proc EXCEPT ![p] = Pop(@)]
           /\ conn' = IF m.name # "sync" \/ ~conn[c].client THEN conn
                      ELSE [conn EXCEPT ![c] = SendMessage(@, "SyncMessageReply", FALSE, m.id)]
           /\ calls' = IF m.name # "sync" THEN calls
                       ELSE [calls EXCEPT ![peerOf[c]][m.id].handler = "done"]
    /\ UNCHANGED socket
-----------------------------------------------------------------------------
(***************************************************************************)
(* waitForSyncReply() and the rest of sendSyncMessage().                   *)
(***************************************************************************)

(* dispatchMessages(): the list is taken at once.                          *)
DispatchMessages(q, allowed) ==
    Push([q EXCEPT !.toDispatch = <<>>],
         [op |-> "dispatch", at |-> "", allowed |-> allowed, rest |-> q.toDispatch, back |-> <<>>])

SyncDispatch(p) ==
    /\ At(p, "sync", "dispatch")
    /\ proc' = [proc EXCEPT ![p] =
                   IF @.toDispatch = <<>> THEN GoOn(@, "check")
                   ELSE DispatchMessages(GoOn(@, "check"), None)]
    /\ UNCHANGED <<conn, socket, calls>>

(* Is the reply at the top of the stack, is the connection closed, or has  *)
(* a handler invalidated it?                                               *)
SyncCheck(p) ==
    /\ At(p, "sync", "check")
    /\ LET k == conn[Top(p).c]
           reply == Last(k.pending).reply
       IN  proc' = [proc EXCEPT ![p] =
                       IF reply \/ ~k.shouldWait \/ ~k.client
                       THEN [GoOn(proc[p], "return") EXCEPT !.stack[1].ok = reply]
                       ELSE GoOn(@, "wait")]
    /\ UNCHANGED <<conn, socket, calls>>

SyncWakes(p) ==
    /\ At(p, "sync", "wait") /\ proc[p].semaphore
    /\ proc' = [proc EXCEPT ![p] = [GoOn(proc[p], "dispatch") EXCEPT !.semaphore = FALSE]]
    /\ UNCHANGED <<conn, socket, calls>>

(* A semaphore that is set when the wait is over stays set.                *)
SyncTimesOut(p) ==
    /\ At(p, "sync", "wait") /\ "timeout" \in Operations[Top(p).c]
    /\ proc' = [proc EXCEPT ![p] = GoOn(@, "return")]
    /\ UNCHANGED <<conn, socket, calls>>

(* Mutant: the outermost request is popped.                                *)
SyncReturnsOutermost(p) ==
    /\ At(p, "sync", "return")
    /\ conn' = [conn EXCEPT ![Top(p).c].pending = Tail(@)]
    /\ proc' = [proc EXCEPT ![p] = Pop(@)]
    /\ calls' = [calls EXCEPT ![Top(p).c][Top(p).id].caller = IF Top(p).ok THEN "answered" ELSE "failed"]
    /\ UNCHANGED socket

SyncReturns(p) ==
    /\ At(p, "sync", "return")
    /\ LET c == Top(p).c
           k == [conn[c] EXCEPT !.pending = Front(@)]
       IN  /\ IF Top(p).ok
              THEN /\ proc' = [proc EXCEPT ![p] = Pop(@)]
                   /\ conn' = [conn EXCEPT ![c] = k]
                   /\ UNCHANGED socket
              ELSE DidFailToSendSyncMessage(c, Pop(proc[p]), k)
           /\ calls' = [calls EXCEPT ![c][Top(p).id].caller = IF Top(p).ok THEN "answered" ELSE "failed"]

(* Mutant: what is not dispatched is not put back.                         *)
DispatchNextForgetting(p) ==
    /\ At(p, "dispatch", "")
    /\ LET f == Top(p)
           next == Head(f.rest)
           q == [proc[p] EXCEPT !.stack[1].rest = Tail(@)]
       IN  IF f.rest = <<>> THEN proc' = [proc EXCEPT ![p] = Pop(@)] /\ UNCHANGED calls
           ELSE IF f.allowed \in {None, next.c} THEN DispatchMessage(next.c, next.m, q)
           ELSE proc' = [proc EXCEPT ![p] = q] /\ UNCHANGED calls
    /\ UNCHANGED <<conn, socket>>

(* One turn of the loop of dispatchMessages(), or its end: messages of     *)
(* other connections go back into the list, behind what came meanwhile.    *)
DispatchNext(p) ==
    /\ At(p, "dispatch", "")
    /\ LET f == Top(p)
           next == Head(f.rest)
           q == [proc[p] EXCEPT !.stack[1].rest = Tail(@)]
       IN  IF f.rest = <<>>
           THEN /\ proc' = [proc EXCEPT ![p] = [Pop(proc[p]) EXCEPT !.toDispatch = @ \o f.back]]
                /\ UNCHANGED calls
           ELSE IF f.allowed \in {None, next.c} THEN DispatchMessage(next.c, next.m, q)
           ELSE /\ proc' = [proc EXCEPT ![p] = [q EXCEPT !.stack[1].back = Append(@, next)]]
                /\ UNCHANGED calls
    /\ UNCHANGED <<conn, socket>>
-----------------------------------------------------------------------------
(***************************************************************************)
(* The rest of waitForMessage(), and waitForAndDispatchImmediately().      *)
(***************************************************************************)

WaitRegisters(p) ==
    /\ At(p, "wait", "register")
    /\ conn' = [conn EXCEPT ![Top(p).c].waiting =
                   [name |-> Top(p).name, interrupt |-> Top(p).interrupt,
                    interrupted |-> FALSE, decoder |-> None]]
    /\ proc' = [proc EXCEPT ![p] = GoOn(@, "check")]
    /\ UNCHANGED <<socket, calls>>

(* Mutant: m_waitingForMessage stays set when the message has come.        *)
WaitChecksKeeping(p) ==
    /\ At(p, "wait", "check")
    /\ LET c == Top(p).c
           m == conn[c].waiting.decoder
       IN  proc' = [proc EXCEPT ![p] = IF m = None THEN GoOn(@, "asleep")
                                       ELSE Push(Pop(@), Handler(c, m))]
    /\ UNCHANGED <<conn, socket, calls>>

WaitChecks(p) ==
    /\ At(p, "wait", "check")
    /\ LET c == Top(p).c
           m == conn[c].waiting.decoder
       IN  IF m = None THEN proc' = [proc EXCEPT ![p] = GoOn(@, "asleep")] /\ UNCHANGED conn
           ELSE /\ conn' = [conn EXCEPT ![c].waiting = None]
                /\ proc' = [proc EXCEPT ![p] = Push(Pop(@), Handler(c, m))]
    /\ UNCHANGED <<socket, calls>>

WaitEnds(p) ==
    /\ conn' = [conn EXCEPT ![Top(p).c].waiting = None]
    /\ proc' = [proc EXCEPT ![p] = Pop(@)]

(* The end of waitUntil(), with the mutex locked again. Only a timeout or  *)
(* an interruption ends the wait, and then a decoder is not looked at.     *)
WaitWakes(p) ==
    /\ At(p, "wait", "notified") \/ At(p, "wait", "timedOut")
    /\ IF Top(p).at = "timedOut" \/ conn[Top(p).c].waiting.interrupted
       THEN WaitEnds(p)
       ELSE proc' = [proc EXCEPT ![p] = GoOn(@, "check")] /\ UNCHANGED conn
    /\ UNCHANGED <<socket, calls>>

WaitTimesOut(p) ==
    /\ At(p, "wait", "asleep")
    /\ proc' = [proc EXCEPT ![p] = GoOn(@, "timedOut")]
    /\ UNCHANGED <<conn, socket, calls>>
-----------------------------------------------------------------------------
(***************************************************************************)
(* The functions of the main run loop. A handler may run a nested loop.    *)
(***************************************************************************)

RunLoopTurn(p, op) ==
    /\ proc[p].runLoop # <<>> /\ Head(proc[p].runLoop).op = op
    /\ proc[p].stack = <<>> \/ (p \in NestedLoops /\ In(p, "handle"))

(* What a turn of the run loop leaves of the process.                      *)
Turned(p) == [proc[p] EXCEPT !.runLoop = Tail(@)]

(* Mutant: the latest message is dispatched.                               *)
DispatchLatestMessage(p) ==
    /\ RunLoopTurn(p, "dispatchOneMessage")
    /\ LET c == Head(proc[p].runLoop).c
       IN  IF conn[c].incoming = <<>>
           THEN proc' = [proc EXCEPT ![p] = Turned(p)] /\ UNCHANGED <<conn, calls>>
           ELSE /\ conn' = [conn EXCEPT ![c].incoming = Front(@)]
                /\ DispatchMessage(c, Last(conn[c].incoming), Turned(p))
    /\ UNCHANGED socket

DispatchOneMessage(p) ==
    /\ RunLoopTurn(p, "dispatchOneMessage")
    /\ LET c == Head(proc[p].runLoop).c
       IN  IF conn[c].incoming = <<>>
           THEN proc' = [proc EXCEPT ![p] = Turned(p)] /\ UNCHANGED <<conn, calls>>
           ELSE /\ conn' = [conn EXCEPT ![c].incoming = Tail(@)]
                /\ DispatchMessage(c, Head(conn[c].incoming), Turned(p))
    /\ UNCHANGED socket

(* Mutant: the connection stays in the set of those scheduled.             *)
ResetForgotten(p) ==
    /\ RunLoopTurn(p, "dispatchMessages")
    /\ LET c == Head(proc[p].runLoop).c
       IN  proc' = [proc EXCEPT ![p] =
                       Push(Turned(p), [op |-> "dispatchMessages", at |-> "", c |-> c])]
    /\ UNCHANGED <<conn, socket, calls>>

(* dispatchMessageAndResetDidScheduleDispatchMessagesForConnection()       *)
ResetDidSchedule(p) ==
    /\ RunLoopTurn(p, "dispatchMessages")
    /\ LET c == Head(proc[p].runLoop).c
       IN  proc' = [proc EXCEPT ![p] =
                       Push([Turned(p) EXCEPT !.scheduled = @ \ {c}],
                            [op |-> "dispatchMessages", at |-> "", c |-> c])]
    /\ UNCHANGED <<conn, socket, calls>>

DispatchAllowed(p) ==
    /\ At(p, "dispatchMessages", "")
    /\ proc' = [proc EXCEPT ![p] = DispatchMessages(Pop(@), Top(p).c)]
    /\ UNCHANGED <<conn, socket, calls>>

(* Mutant: the client is told and kept.                                    *)
DidCloseKeeping(p) ==
    /\ RunLoopTurn(p, "didClose")
    /\ LET c == Head(proc[p].runLoop).c
       IN  conn' = IF ~conn[c].client THEN conn ELSE [conn EXCEPT ![c].told = @ + 1]
    /\ proc' = [proc EXCEPT ![p] = Turned(p)]
    /\ UNCHANGED <<socket, calls>>

(* The function that connectionDidClose() dispatches.                      *)
DidClose(p) ==
    /\ RunLoopTurn(p, "didClose")
    /\ LET c == Head(proc[p].runLoop).c
       IN  conn' = IF ~conn[c].client THEN conn
                   ELSE [conn EXCEPT ![c].client = FALSE, ![c].told = @ + 1]
    /\ proc' = [proc EXCEPT ![p] = Turned(p)]
    /\ UNCHANGED <<socket, calls>>
-----------------------------------------------------------------------------
(***************************************************************************)
(* The thread of the connection's work queue: sending.                     *)
(***************************************************************************)

IsAt(c, at) == proc[processOf[c]].alive /\ conn[c].thread = at

QueueTask(c, task) ==
    IsAt(c, "idle") /\ conn[c].tasks # <<>> /\ Head(conn[c].tasks) = task

(* sendOutgoingMessages(): what fits into the socket is written. If that   *)
(* is not everything the thread stays in poll() until there is room, and   *)
(* reads nothing meanwhile. Writing to a closed socket fails and ends the  *)
(* loop.                                                                   *)
SendOutgoingMessages(c) ==
    LET k == conn[c]
        room == capacity - Len(socket[peerOf[c]])
        n == Min({room, Len(k.outgoing)})
        open == conn[peerOf[c]].connected
    IN  /\ QueueTask(c, "sendOutgoingMessages") \/ IsAt(c, "sending")
        /\ k.thread = "sending" /\ open => n > 0
        /\ conn' = [conn EXCEPT ![c] =
              [k EXCEPT !.tasks = IF k.thread = "idle" THEN Tail(@) ELSE @,
                        !.outgoing = IF ~k.connected \/ @ = <<>> THEN @
                                     ELSE IF open THEN SubSeq(@, n + 1, Len(@)) ELSE Tail(@),
                        !.thread = IF k.connected /\ open /\ n < Len(k.outgoing) THEN "sending" ELSE "idle"]]
        /\ socket' = IF k.connected /\ open
                     THEN [socket EXCEPT ![peerOf[c]] = @ \o SubSeq(k.outgoing, 1, n)] ELSE socket
        /\ UNCHANGED <<proc, calls>>

InvalidateTask(c) ==
    /\ QueueTask(c, "platformInvalidate")
    /\ conn' = [conn EXCEPT ![c] = PlatformInvalidate([conn[c] EXCEPT !.tasks = Tail(@)])]
    /\ socket' = [socket EXCEPT ![c] = <<>>]
    /\ UNCHANGED <<proc, calls>>
-----------------------------------------------------------------------------
(***************************************************************************)
(* The thread of the connection's work queue: receiving.                   *)
(***************************************************************************)

(* readyReadHandler() has read the message m, which changes the connection *)
(* to k and its process to q.                                              *)
Reads(c, m, k, q) ==
    /\ IsAt(c, "idle") /\ conn[c].connected
    /\ socket[c] # <<>> /\ Head(socket[c]) = m
    /\ socket' = [socket EXCEPT ![c] = Tail(@)]
    /\ conn' = [conn EXCEPT ![c] = k]
    /\ proc' = [proc EXCEPT ![processOf[c]] = q]
    /\ UNCHANGED calls

(* m_waitForMessageCondition.notifyOne(): it is lost on a thread that does *)
(* not sleep yet.                                                          *)
Notify(c, q) ==
    IF q.stack # <<>> /\ Head(q.stack).op = "wait" /\ Head(q.stack).c = c /\ Head(q.stack).at = "asleep"
    THEN GoOn(q, "notified") ELSE q

Signal(q) == [q EXCEPT !.semaphore = TRUE]

(* Mutant: a reply is taken for that to the latest request.                *)
ReadReplyForLatest(c, m) ==
    /\ m.name = "SyncMessageReply"
    /\ Reads(c, m, [conn[c] EXCEPT !.pending = IF @ = <<>> THEN @ ELSE [@ EXCEPT ![Len(@)].reply = TRUE]],
             Signal(proc[processOf[c]]))

(* processIncomingSyncReply(). A reply to a request that nobody waits for  *)
(* any more is ignored.                                                    *)
ReadReply(c, m) ==
    LET q == proc[processOf[c]]
        IsRequest(r) == r.id = m.id
        i == SelectLastInSeq(conn[c].pending, IsRequest)
        secondary == {s \in conn[c].secondary : s.id = m.id}
    IN  /\ m.name = "SyncMessageReply"
        /\ \/ /\ i > 0
              /\ Reads(c, m, [conn[c] EXCEPT !.pending[i].reply = TRUE],
                       IF i = Len(conn[c].pending) THEN Signal(q) ELSE q)
           \/ /\ i = 0
              /\ Reads(c, m, [conn[c] EXCEPT !.secondary =
                                 (@ \ secondary) \cup
                                 {[s EXCEPT !.reply = TRUE, !.signalled = TRUE] : s \in secondary}],
                       q)

(* Mutant: the thread that waits for a reply is not woken.                 *)
ReadFlaggedSilently(c, m) ==
    LET q == proc[processOf[c]]
    IN  /\ m.name # "SyncMessageReply" /\ m.flagged
        /\ Reads(c, m, conn[c],
                 [q EXCEPT !.toDispatch = Append(@, [c |-> c, m |-> m]),
                           !.scheduled = @ \cup {c},
                           !.runLoop = IF c \in q.scheduled THEN @
                                       ELSE Append(@, [op |-> "dispatchMessages", c |-> c])])

(* SyncMessageState::processIncomingMessage()                              *)
ReadFlagged(c, m) ==
    LET q == proc[processOf[c]]
        task == [op |-> "dispatchMessages", c |-> c]
    IN  /\ m.name # "SyncMessageReply" /\ m.flagged
        /\ Reads(c, m, conn[c],
                 Signal([q EXCEPT !.toDispatch = Append(@, [c |-> c, m |-> m]),
                                  !.scheduled = @ \cup {c},
                                  !.runLoop = IF c \in q.scheduled THEN @ ELSE Append(@, task)]))

WaitsFor(c, m) ==
    /\ conn[c].waiting # None
    /\ conn[c].waiting.decoder = None /\ conn[c].waiting.name = m.name

ReadAwaited(c, m) ==
    /\ m.name # "SyncMessageReply" /\ ~m.flagged /\ WaitsFor(c, m)
    /\ Reads(c, m, [conn[c] EXCEPT !.waiting.decoder = m], Notify(c, proc[processOf[c]]))

(* Mutant: a message that interrupts a wait is not enqueued.               *)
ReadOtherInterrupting(c, m) ==
    LET w == conn[c].waiting
        interrupts == w # None /\ w.decoder = None /\ w.interrupt /\ m.name = "sync"
        k == [conn[c] EXCEPT !.incoming = Append(@, m)]
        q == [proc[processOf[c]] EXCEPT
                 !.runLoop = Append(@, [op |-> "dispatchOneMessage", c |-> c])]
    IN  /\ m.name # "SyncMessageReply" /\ ~m.flagged /\ ~WaitsFor(c, m)
        /\ IF interrupts THEN Reads(c, m, [conn[c] EXCEPT !.waiting.interrupted = TRUE],
                                    Notify(c, proc[processOf[c]]))
           ELSE Reads(c, m, k, q)

(* enqueueIncomingMessage(), after a synchronous message has interrupted a *)
(* wait that allows it.                                                    *)
ReadOther(c, m) ==
    LET w == conn[c].waiting
        interrupts == w # None /\ w.decoder = None /\ w.interrupt /\ m.name = "sync"
        k == [conn[c] EXCEPT !.incoming = Append(@, m)]
        q == [proc[processOf[c]] EXCEPT
                 !.runLoop = Append(@, [op |-> "dispatchOneMessage", c |-> c])]
    IN  /\ m.name # "SyncMessageReply" /\ ~m.flagged /\ ~WaitsFor(c, m)
        /\ IF interrupts THEN Reads(c, m, [k EXCEPT !.waiting.interrupted = TRUE], Notify(c, q))
           ELSE Reads(c, m, k, q)

ProcessIncomingMessage(c) ==
    \E m \in ToSet(socket[c]) :
        ReadReply(c, m) \/ ReadFlagged(c, m) \/ ReadAwaited(c, m) \/ ReadOther(c, m)
-----------------------------------------------------------------------------
(***************************************************************************)
(* connectionDidClose(), because the other end hung up (what has not been  *)
(* read by then is lost) or because somebody who knows that the other      *)
(* process crashed has asked for it.                                       *)
(***************************************************************************)

(* Mutant: the threads that wait for replies are not woken.                *)
StopWaitingSilently(k) ==
    [PlatformInvalidate(k) EXCEPT
        !.shouldWait = FALSE, !.thread = "closing"]

(* What the first half does to the connection. ASSERT(m_should...) at 758  *)
(* is CloseAsserts below.                                                  *)
StopWaiting(k) ==
    [PlatformInvalidate(k) EXCEPT
        !.shouldWait = FALSE, !.thread = "closing",
        !.secondary = {[s EXCEPT !.signalled = TRUE] : s \in @}]

ConnectionDidClose(c, k) ==
    /\ conn' = [conn EXCEPT ![c] = StopWaiting(k)]
    /\ proc' = [proc EXCEPT ![processOf[c]] = IF k.pending = <<>> THEN @ ELSE Signal(@)]
    /\ socket' = [socket EXCEPT ![c] = <<>>]
    /\ UNCHANGED calls

HangUp(c) ==
    /\ IsAt(c, "idle") /\ conn[c].connected /\ ~conn[peerOf[c]].connected
    /\ ConnectionDidClose(c, conn[c])

CloseTask(c) ==
    /\ QueueTask(c, "connectionDidClose")
    /\ ConnectionDidClose(c, [conn[c] EXCEPT !.tasks = Tail(@)])

(* Mutant: only those who wait hear of the close.                          *)
FinishCloseSilently(c) ==
    /\ IsAt(c, "closing")
    /\ conn' = [conn EXCEPT ![c].thread = "idle",
                            ![c].waiting = IF @ = None THEN None
                                           ELSE [conn[c].waiting EXCEPT !.interrupted = TRUE]]
    /\ proc' = [proc EXCEPT ![processOf[c]] = Notify(c, @)]
    /\ UNCHANGED <<socket, calls>>

(* The second half: interrupt waitForMessage() and tell the main thread.   *)
FinishClose(c) ==
    /\ IsAt(c, "closing")
    /\ conn' = [conn EXCEPT ![c].thread = "idle",
                            ![c].waiting = IF @ = None THEN None
                                           ELSE [conn[c].waiting EXCEPT !.interrupted = TRUE]]
    /\ proc' = [proc EXCEPT ![processOf[c]] =
                   [Notify(c, proc[processOf[c]]) EXCEPT
                      !.runLoop = Append(@, [op |-> "didClose", c |-> c])]]
    /\ UNCHANGED <<socket, calls>>

(* postConnectionDidCloseOnConnectionWorkQueue(), which the web process    *)
(* calls when the UI process reports that a plug-in process is gone, as    *)
(* long as it has not dropped the connection itself.                       *)
PostConnectionDidClose(c) ==
    /\ May(c, "postClose") /\ ~proc[processOf[peerOf[c]]].alive
    /\ conn[c].client \/ conn[c].told > 0
    /\ conn' = [conn EXCEPT ![c].tasks = Append(@, "connectionDidClose")]
    /\ proc' = [proc EXCEPT ![processOf[c]] = Spend(@)]
    /\ UNCHANGED <<socket, calls>>
-----------------------------------------------------------------------------
(***************************************************************************)
(* sendSyncMessageFromSecondaryThread().                                   *)
(***************************************************************************)

SecondarySend(c) ==
    LET id == NextID(c) IN
    /\ May(c, "secondary") /\ conn[c].client /\ conn[c].shouldWait
    /\ conn' = [conn EXCEPT ![c] =
                   [SendMessage(conn[c], "sync", FALSE, id) EXCEPT
                      !.lastID = @ + 1,
                      !.secondary = @ \cup {[id |-> id, reply |-> FALSE, signalled |-> FALSE]}]]
    /\ proc' = [proc EXCEPT ![processOf[c]] = Spend(@)]
    /\ calls' = [calls EXCEPT ![c] = Append(@, [caller |-> "waiting", handler |-> "none"])]
    /\ UNCHANGED socket

SecondaryEnds(c, s) ==
    /\ conn' = [conn EXCEPT ![c].secondary = @ \ {s}]
    /\ calls' = [calls EXCEPT ![c][s.id].caller = IF s.reply THEN "answered" ELSE "failed"]
    /\ UNCHANGED <<proc, socket>>

SecondaryReturns(c) == \E s \in conn[c].secondary : s.signalled /\ SecondaryEnds(c, s)

SecondaryTimesOut(c) ==
    /\ "secondaryTimeout" \in Operations[c]
    /\ \E s \in conn[c].secondary : ~s.signalled /\ SecondaryEnds(c, s)
-----------------------------------------------------------------------------
Crash(p) ==
    /\ p \in Mortal /\ proc[p].alive
    /\ Die(p)
    /\ UNCHANGED calls

ClientStep(c) ==
    \/ \E name \in Names, flag \in BOOLEAN : Send(c, name, flag)
    \/ \E name \in Names, interrupt \in BOOLEAN : WaitForMessage(c, name, interrupt)
    \/ SendSync(c) \/ SendSyncFails(c) \/ Invalidate(c)
    \/ SecondarySend(c) \/ PostConnectionDidClose(c)

MainThreadStep(p) ==
    \/ HandlerReturns(p)
    \/ SyncDispatch(p) \/ SyncCheck(p) \/ SyncWakes(p) \/ SyncReturns(p) \/ DispatchNext(p)
    \/ WaitRegisters(p) \/ WaitChecks(p) \/ WaitWakes(p) \/ WaitTimesOut(p)
    \/ DispatchOneMessage(p) \/ ResetDidSchedule(p) \/ DispatchAllowed(p) \/ DidClose(p)

QueueThreadStep(c) ==
    \/ SendOutgoingMessages(c) \/ InvalidateTask(c)
    \/ ProcessIncomingMessage(c)
    \/ HangUp(c) \/ CloseTask(c) \/ FinishClose(c)

Next ==
    \/ \E p \in Processes : MainThreadStep(p) \/ SyncTimesOut(p) \/ Crash(p)
    \/ \E c \in Endpoints :
           \/ ClientStep(c) \/ QueueThreadStep(c)
           \/ SecondaryReturns(c) \/ SecondaryTimesOut(c)

Spec == Init /\ [][Next]_vars

(* The threads are scheduled, handlers return, and every waitForMessage()  *)
(* has a finite timeout. Nothing makes the client's code call anything,    *)
(* and the timeout of a synchronous message may be infinite.               *)
FairSpec ==
    /\ Spec
    /\ \A p \in Processes : WF_vars(MainThreadStep(p))
    /\ \A c \in Endpoints : WF_vars(QueueThreadStep(c)) /\ WF_vars(SecondaryReturns(c))
-----------------------------------------------------------------------------
(* Types, and what each call on a main thread's stack looks like.          *)
TypeOK ==
    /\ \A c \in Endpoints :
           LET k == conn[c] IN
           /\ {k.client, k.connected, k.shouldWait} \subseteq BOOLEAN
           /\ ToSet(k.incoming \o k.outgoing \o socket[c]) \subseteq Message
           /\ k.pending \in Seq([id : 1 .. k.lastID, reply : BOOLEAN])
           /\ k.secondary \subseteq [id : 1 .. k.lastID, reply : BOOLEAN, signalled : BOOLEAN]
           /\ k.waiting \in WaitForMessageState \cup {None}
           /\ ToSet(k.tasks) \subseteq {"sendOutgoingMessages", "platformInvalidate", "connectionDidClose"}
           /\ k.thread \in {"idle", "sending", "closing"}
           /\ Len(socket[c]) <= capacity
    /\ \A p \in Processes :
           LET q == proc[p] IN
           /\ {q.alive, q.semaphore} \subseteq BOOLEAN
           /\ ToSet(q.runLoop) \subseteq
                  [op : {"dispatchOneMessage", "dispatchMessages", "didClose"}, c : Endpoints]
           /\ ToSet(q.toDispatch) \subseteq [c : Endpoints, m : Message]
           /\ q.scheduled \subseteq Endpoints
           /\ q.done \in 0 .. maxOperations[p]
           /\ \A i \in DOMAIN q.stack :
                  q.stack[i].op \in {"handle", "sync", "dispatch", "dispatchMessages", "wait"}
    /\ DOMAIN calls = Endpoints

(* The assertions on the stack of pending replies (Connection.cpp:491, 553 *)
(* and 556), on replies that come twice (606, 622), on scheduled dispatches *)
(* (189) and on the single waiter (420) hold, however calls nest. And      *)
(* nulling the client before its didClose() (789) is enough for the client *)
(* to be told once, although a close may be seen on the socket and be      *)
(* reported by another process, too. The assertion at 758 is not among     *)
(* them: CloseAsserts, which does not hold.                                *)
AssertsHold ==
    /\ \A p \in Processes :
           /\ At(p, "sync", "check") \/ At(p, "sync", "return") =>
                  LET pending == conn[Top(p).c].pending
                  IN  pending # <<>> /\ Last(pending).id = Top(p).id
           /\ \A i \in DOMAIN proc[p].runLoop :
                  LET task == proc[p].runLoop[i]
                  IN  task.op = "dispatchMessages" => task.c \in proc[p].scheduled
           /\ At(p, "wait", "register") => conn[Top(p).c].waiting = None
    /\ \A c \in Endpoints, m \in UNION {ToSet(socket[c]) : c \in Endpoints} :
           m \in ToSet(socket[c]) /\ m.name = "SyncMessageReply" =>
               \A r \in ToSet(conn[c].pending) \cup conn[c].secondary : r.id = m.id => ~r.reply
    /\ \A c \in Endpoints : conn[c].told <= 1

(* connectionDidClose() asserts, at 758, that the connection has not been  *)
(* closed before: whoever is about to call it finds shouldWait set.        *)
CloseAsserts ==
    \A c \in Endpoints :
        \/ QueueTask(c, "connectionDidClose")
        \/ IsAt(c, "idle") /\ conn[c].connected /\ ~conn[peerOf[c]].connected
        => conn[c].shouldWait

(* Nobody sleeps on something to do. A main thread that sleeps in          *)
(* waitForSyncReply() with no signal to come has no message to dispatch,   *)
(* no reply at the top of its stack, and an open connection, although one  *)
(* semaphore serves all connections and all nested waits; a secondary      *)
(* thread that has its reply is signalled, and a thread never sleeps in    *)
(* waitForMessage() when its message is already in its hands.              *)
(* This is for processes whose handlers run no nested loop, or that have   *)
(* one connection: what dispatchMessages() puts back (175-180) it does not *)
(* signal.                                                                 *)
NoLostWakeup ==
    /\ \A p \in Processes :
           /\ At(p, "sync", "wait") /\ ~proc[p].semaphore =>
                  LET k == conn[Top(p).c]
                  IN  proc[p].toDispatch = <<>> /\ ~Last(k.pending).reply /\ k.shouldWait
           /\ At(p, "wait", "asleep") => conn[Top(p).c].waiting.decoder = None
    /\ \A c \in Endpoints : \A s \in conn[c].secondary :
           s.reply \/ ~conn[c].shouldWait => s.signalled

(* Every call is handled at most once, and answered only by its own        *)
(* handler when that has returned: replies that come late, after a timeout *)
(* or out of order never end up with another call.                         *)
Promise == INSTANCE SyncCall
ImplementsSyncCall == Promise!Spec

(* The messages that do not break into waits are handled in the order in   *)
(* which they were sent, unless waitForMessage() picks one out.            *)
HandledInOrder ==
    [][\A p \in Processes :
          LET f == Head(proc'[p].stack)
              starts == Len(proc'[p].stack) > Len(proc[p].stack) /\ f.op = "handle"
              before(m) == m.name # "SyncMessageReply" /\ ~m.flagged /\ m.number < f.m.number
          IN  starts /\ ~f.m.flagged /\ (\A i \in DOMAIN proc[p].stack : proc[p].stack[i].op # "wait")
                     /\ proc'[p].done = proc[p].done =>
                 LET c == f.c IN
                 ~\E m \in ToSet(conn'[c].incoming \o socket[c] \o conn[peerOf[c]].outgoing) : before(m)]_vars

(* A synchronous call returns: two processes that call each other do not   *)
(* wait for ever, and neither does one whose peer dies, closes or loses    *)
(* the request. The exception is a secondary thread whose own process      *)
(* invalidates the connection: nothing wakes it.                           *)
Forsaken(c, id) ==
    ~conn[c].client /\ conn[c].shouldWait /\ id \in {s.id : s \in conn[c].secondary}

Waits(c, id) ==
    calls[c][id].caller = "waiting" /\ proc[processOf[c]].alive /\ ~Forsaken(c, id)

SyncSendsReturn ==
    \A c \in Endpoints :
        (\E id \in DOMAIN calls[c] : Waits(c, id)) ~> (\A id \in DOMAIN calls[c] : ~Waits(c, id))

(* The deadlock that processIncomingMessage() is to prevent (682-684):     *)
(* threads are waiting for replies, and nobody has anything left to do.    *)
AtRest(p) ==
    \/ proc[p].stack = <<>> /\ proc[p].runLoop = <<>>
    \/ At(p, "sync", "wait") /\ ~proc[p].semaphore

NoSyncDeadlock ==
    /\ \A p \in Processes : AtRest(p)
    /\ \A c \in Endpoints : conn[c].tasks = <<>> /\ conn[c].thread = "idle" /\ socket[c] = <<>>
    => \A p \in Processes : ~In(p, "sync")

(* What has been sent to c, or read from its socket, but not been handled. *)
OnTheWay(c) == ToSet(conn[peerOf[c]].outgoing \o socket[c])

Held(c) ==
    LET q == proc[processOf[c]]
        lists == {q.toDispatch} \cup
                 {f.rest \o f.back : f \in {g \in ToSet(q.stack) : g.op = "dispatch"}}
    IN  ToSet(conn[c].incoming)
            \cup {e.m : e \in {d \in UNION {ToSet(l) : l \in lists} : d.c = c}}
            \cup (IF conn[c].waiting = None THEN {} ELSE {conn[c].waiting.decoder} \ {None})

(* waitForMessage() returns null with a message in its hands (437-439).    *)
GivesUpOn(c, m) ==
    LET p == processOf[c] IN
    /\ conn[c].waiting # None /\ conn[c].waiting.decoder = m
    /\ At(p, "wait", "timedOut") \/ (At(p, "wait", "notified") /\ conn[c].waiting.interrupted)

(* No message is lost between send() and its handler, by whichever list it *)
(* travels. On the way only a close of one of the two ends loses it.       *)
(* Once it has been read its handler starts, unless the client has dropped *)
(* the connection by then or the process dies, with one exception:         *)
(* a waitForMessage() that gives up forgets what came for it meanwhile.    *)
NoMessageIsDropped ==
    [][\A c \in Endpoints :
          LET p == processOf[c] IN
          /\ \A m \in OnTheWay(c) :
                 \/ m \in OnTheWay(c)' \cup Held(c)' \/ m.name = "SyncMessageReply"
                 \/ ~conn'[c].connected \/ ~conn'[peerOf[c]].connected
          /\ \A m \in Held(c) :
                 \/ m \in Held(c)'
                 \/ proc'[p].stack # <<>> /\ Head(proc'[p].stack) = Handler(c, m)
                 \/ ~conn[c].client \/ ~proc'[p].alive \/ GivesUpOn(c, m)]_vars

(* Nothing stays in a queue for ever: neither in the lists of a process,   *)
(* those that dispatchMessages() puts messages back into included, nor, as *)
(* long as the connection is open, on the way. With NoMessageIsDropped,    *)
(* every message is handled, but for the cases given there.                *)
QueuesDrain ==
    <>[](/\ \A p \in Processes : proc[p].toDispatch = <<>> /\ proc[p].runLoop = <<>>
         /\ \A c \in Endpoints :
                /\ conn[c].incoming = <<>>
                /\ conn[c].connected /\ conn[peerOf[c]].connected => OnTheWay(c) = {})

(* When one end is gone the client of the other end is told, if it has not *)
(* dropped the connection itself.                                          *)
ClosesAreNoticed ==
    \A c \in Endpoints :
        ~conn[c].connected ~> (~conn[peerOf[c]].client \/ ~proc[processOf[peerOf[c]]].alive)
===============================================================================
