-------------------------------- MODULE Lsp --------------------------------
(***************************************************************************)
(* The layered service provider of Samples/chapter12/LSP: sockinfo.cpp,    *)
(* spi.cpp, extension.cpp, overlap.cpp and asyncselect.cpp.                *)
(*                                                                         *)
(* An application's handle leads to a SOCK_INFO.  A WSP function takes a   *)
(* reference to it (FindAndLockSocketContext), calls the provider below    *)
(* and gives the reference back (UnlockSocketContext).  An overlapped      *)
(* operation is given a structure of the layer's own, and a worker thread  *)
(* reports its completion to the application.                              *)
(*                                                                         *)
(* What a function asks of the provider below is left out: functions that  *)
(* only forward are one action each, with the same effect.  What is done   *)
(* inside one critical section without a call into another is one step.    *)
(***************************************************************************)
EXTENDS Integers, Sequences, FiniteSets, SequencesExt

CONSTANTS
  Apps,        \* threads of the application
  Workers,     \* OverlappedManagerThread: one per processor
  Handles, Contexts, Ops,   \* bounds: handles, SOCK_INFOs, operations
  MaxCalls,    \* bound: calls of the WSP and extension functions
  Modes,       \* "iocp", or "apc" where there are no completion ports
  Faults,      \* what may fail, see AllFaults
  NULL

(* load: a provider below cannot be loaded.   handle: WPUCreateSocketHandle fails.  *)
(* window: CreateWindow fails.                memory: no overlapped structure left. *)
(* sync: SO_SYNCHRONOUS sockets.  close: the provider refuses to close.             *)
(* upcall: WPUCloseSocketHandle fails, and the handle stays.                        *)
AllFaults == {"load", "handle", "window", "memory", "sync", "close", "upcall"}

ASSUME ConstAssumption ==
  /\ IsFiniteSet(Apps) /\ IsFiniteSet(Workers) /\ Apps \cap Workers = {}
  /\ NULL \notin Apps \cup Workers \cup Handles \cup Contexts \cup Ops
  /\ MaxCalls \in Nat /\ Modes \subseteq {"iocp", "apc"} /\ Faults \subseteq AllFaults

Threads == Apps \cup Workers

VARIABLES
  mode,
  gEntryCount,             \* WSPStartup less WSPCleanup
  calls,                   \* how many
  layers,                  \* 1 once the providers below are loaded
  gCriticalSection,        \* who stays inside: a failed start, a spin, a cleanup
  AsyncWindow,             \* none, wanted, window or failed
  handle,                  \* handle[h]: the context of an open handle
  SocketList,              \* contexts in the providers' lists
  mem, provider,           \* heap, live or freed; the socket below: open or closed
  RefCount, bClosing, dwOutstandingAsync, SockCritSec, sync, LayeredSocket, \* SOCK_INFO
  stage, octx,             \* WSAOVERLAPPEDPLUS: where it is, SockInfo
  accepting,               \* AcceptEx's second SOCK_INFO
  error,                   \* whether the operation completed with an error
  result, told,            \* what the call returned; whether it was completed
  Pending, Semaphore,      \* overlap.cpp's list of operations to execute (apc)
  port,                    \* completed operations
  pc, ctx, ctx2, op,       \* of each thread: SocketContext, AcceptContext, operation
  inner,                   \* and the one found inside: AcceptSocketContext, or
                           \* CheckForContextCleanup's
  lost,                    \* history: references never given back
  undefined                \* 1 once freed memory or NULL was used: the model stops

entryVars == <<mode, gEntryCount, layers, gCriticalSection, AsyncWindow>>
ctxVars   == <<handle, SocketList, mem, provider, bClosing, SockCritSec, sync, LayeredSocket>>
opVars    == <<stage, octx, accepting, error, result, told, Pending, Semaphore, port>>
history   == <<lost, undefined>>
vars == <<calls, entryVars, ctxVars, RefCount, dwOutstandingAsync, opVars, pc, ctx, ctx2, op, inner, history>>

Init ==
  /\ mode \in Modes /\ gEntryCount = 0 /\ calls = 0 /\ layers = 0
  /\ gCriticalSection = NULL /\ AsyncWindow = "none"
  /\ handle = [h \in Handles |-> NULL] /\ SocketList = {}
  /\ mem = [k \in Contexts |-> "heap"] /\ provider = [k \in Contexts |-> "open"]
  /\ RefCount = [k \in Contexts |-> 0] /\ dwOutstandingAsync = [k \in Contexts |-> 0]
  /\ bClosing = [k \in Contexts |-> 0] /\ sync = [k \in Contexts |-> 0]
  /\ SockCritSec = [k \in Contexts |-> NULL] /\ LayeredSocket = [k \in Contexts |-> NULL]
  /\ stage = [n \in Ops |-> "none"] /\ result = [n \in Ops |-> "none"]
  /\ octx = [n \in Ops |-> NULL] /\ accepting = [n \in Ops |-> NULL]
  /\ error = [n \in Ops |-> 0] /\ told = [n \in Ops |-> 0]
  /\ Pending = <<>> /\ Semaphore = 0 /\ port = <<>>
  /\ pc = [t \in Threads |-> IF t \in Workers THEN "wait" ELSE "idle"]
  /\ ctx = [t \in Threads |-> NULL] /\ ctx2 = [t \in Threads |-> NULL]
  /\ op = [t \in Threads |-> NULL] /\ inner = [t \in Threads |-> NULL]
  /\ lost = [k \in Contexts |-> 0] /\ undefined = 0
-----------------------------------------------------------------------------
(* sockinfo.cpp *)

CanFail(f) == f \in Faults
At(t, l) == pc[t] = l
Goto(t, l) == pc' = [pc EXCEPT ![t] = l]
Live(k) == k # NULL /\ mem[k] = "live"
Holds(t, k) == ctx' = [ctx EXCEPT ![t] = k]
Incr(f, k, n) == [f EXCEPT ![k] = @ + n]

\* gCriticalSection is entered by every function; nobody is left inside it.
Critical == gCriticalSection = NULL

\* A handle that stayed when its SOCK_INFO was freed is Stale.
FindAndLockSocketContext(h) ==
  Critical /\ Live(handle[h]) /\ RefCount' = Incr(RefCount, handle[h], 1)
NotFound(h) == Critical /\ handle[h] = NULL
Stale(h) == Critical /\ handle[h] # NULL /\ mem[handle[h]] = "freed"

\* The critical section of a SOCK_INFO; WSPCloseSocket stays inside, and a
\* completed AcceptEx while it looks for its second SOCK_INFO.
AcquireSocketLock(t, k) == Live(k) /\ SockCritSec[k] \in {NULL, t}
Keeps(t, k) == SockCritSec' = [SockCritSec EXCEPT ![k] = t]

CloseSocketHandle(k) ==
  handle' = [h \in Handles |-> IF handle[h] = k THEN NULL ELSE handle[h]]
HandleFails == CanFail("upcall") /\ UNCHANGED handle
Release(k) ==
  /\ SocketList' = SocketList \ {k}
  /\ mem' = [mem EXCEPT ![k] = "freed"]
  /\ Keeps(NULL, k)

AnyLast(k) == RefCount[k] = 1                                \* mutant
LastOfClosing(k) == RefCount[k] = 1 /\ bClosing[k] = 1

\* It is freed whether its handle can be closed or not.
UnlockSocketContext(k) ==
  /\ Critical /\ Live(k)
  /\ RefCount' = Incr(RefCount, k, -1)
  /\ IF LastOfClosing(k) THEN Release(k) /\ (CloseSocketHandle(k) \/ HandleFails)
                         ELSE UNCHANGED <<handle, SocketList, mem, SockCritSec>>
  /\ UNCHANGED <<provider, bClosing, sync, LayeredSocket>>

\* A new SOCK_INFO in the list, and its handle.
NextContext(k) == mem[k] = "heap" /\ \A j \in Contexts : j < k => mem[j] # "heap"
CreateSockInfo(k, h) ==
  /\ NextContext(k) /\ handle[h] = NULL /\ \A g \in Handles : g < h => handle[g] # NULL
  /\ mem' = [mem EXCEPT ![k] = "live"]
  /\ SocketList' = SocketList \cup {k}
  /\ handle' = [handle EXCEPT ![h] = k] /\ LayeredSocket' = [LayeredSocket EXCEPT ![k] = h]
  /\ \E s \in {0} \cup (IF CanFail("sync") /\ mode = "iocp" THEN {1} ELSE {}) : sync' = [sync EXCEPT ![k] = s]
  /\ UNCHANGED <<provider, bClosing, SockCritSec>>

\* ... or no handle: the SOCK_INFO stays in the list, and WSPSocket and
\* WSPJoinLeaf free it there.
CreateFails(k, m) ==
  /\ CanFail("handle") /\ NextContext(k)
  /\ mem' = [mem EXCEPT ![k] = m]
  /\ SocketList' = SocketList \cup {k}
  /\ UNCHANGED <<handle, provider, bClosing, SockCritSec, sync, LayeredSocket>>
-----------------------------------------------------------------------------
(* spi.cpp: a function of the application's thread t takes a reference ... *)

Refs == <<RefCount, ctx>>
Idle(t) == t \in Apps /\ At(t, "idle") /\ gEntryCount > 0

Begin(t, h, l) ==
  /\ Idle(t) /\ FindAndLockSocketContext(h)
  /\ Holds(t, handle[h]) /\ Goto(t, l)
  /\ UNCHANGED <<entryVars, ctxVars, dwOutstandingAsync, opVars, ctx2, op, inner, history>>

\* ... asks the provider below and gives the reference back.
End(t) ==
  /\ At(t, "end") /\ UnlockSocketContext(ctx[t])
  /\ Goto(t, IF ctx2[t] = NULL THEN "idle" ELSE "end2") /\ Holds(t, NULL)
  /\ UNCHANGED <<entryVars, dwOutstandingAsync, opVars, ctx2, op, inner, history>>

\* The second context of ExtAcceptEx.
End2(t) ==
  /\ At(t, "end2") /\ UnlockSocketContext(ctx2[t])
  /\ Goto(t, "idle") /\ ctx2' = [ctx2 EXCEPT ![t] = NULL]
  /\ UNCHANGED <<entryVars, dwOutstandingAsync, opVars, ctx, op, inner, history>>

Forward(t, h) == Begin(t, h, "end")
WSPBind(t, h) == Forward(t, h)
WSPConnect(t, h) == Forward(t, h)
WSPDuplicateSocket(t, h) == Forward(t, h)
WSPEnumNetworkEvents(t, h) == Forward(t, h)
WSPEventSelect(t, h) == Forward(t, h)
WSPGetPeerName(t, h) == Forward(t, h)
WSPGetSockName(t, h) == Forward(t, h)
WSPGetSockOpt(t, h) == Forward(t, h)
WSPGetQOSByName(t, h) == Forward(t, h)
WSPListen(t, h) == Forward(t, h)
WSPRecvDisconnect(t, h) == Forward(t, h)
WSPSendDisconnect(t, h) == Forward(t, h)
WSPShutdown(t, h) == Forward(t, h)

\* With an OVERLAPPED these go on to GetOverlappedStructure.
ForwardOrQueue(t, h) == Forward(t, h) \/ Begin(t, h, "get")
\* SIO_QUERY_TARGET_PNP_HANDLE is completed at once, by the caller.
WSPIoctl(t, h) == ForwardOrQueue(t, h) \/ Begin(t, h, "pnp")
WSPRecv(t, h) == ForwardOrQueue(t, h)
WSPRecvFrom(t, h) == ForwardOrQueue(t, h)
WSPSend(t, h) == ForwardOrQueue(t, h)
WSPSendTo(t, h) == ForwardOrQueue(t, h)
ExtTransmitFile(t, h) == ForwardOrQueue(t, h)
ExtConnectEx(t, h) == ForwardOrQueue(t, h)
ExtTransmitPackets(t, h) == ForwardOrQueue(t, h)
ExtDisconnectEx(t, h) == ForwardOrQueue(t, h)
ExtWSARecvMsg(t, h) == ForwardOrQueue(t, h)

\* Those of them that create a socket below, or wait for the window.
WSPAccept(t, h) == Begin(t, h, "accept")
WSPJoinLeaf(t, h) == Begin(t, h, "joinleaf") \/ Forward(t, h)
WSPAsyncSelect(t, h) == Begin(t, h, "window")
WSPSelect(t, h) == Begin(t, h, "select")
WSPSetSockOpt(t, h) == Forward(t, h) \/ Begin(t, h, "update")
ExtAcceptEx(t, h) == Begin(t, h, "acceptex")
WSPCloseSocket(t, h) == Begin(t, h, "close")

\* A handle that stayed leads to freed memory.
CallsFreed(t, h) ==
  /\ Idle(t) /\ Stale(h) /\ undefined' = 1
  /\ UNCHANGED <<entryVars, ctxVars, RefCount, dwOutstandingAsync, opVars, pc, ctx, ctx2, op,
                 inner, lost>>

Rest == <<entryVars, opVars, op, inner, dwOutstandingAsync>>

\* WSPSelect unlocks every context at once and then uses the last one's Provider.
SelectUnlocks(t) ==
  /\ At(t, "select") /\ UnlockSocketContext(ctx[t]) /\ Goto(t, "selects")
  /\ UNCHANGED <<Rest, ctx, ctx2, history>>
Selects(t) ==
  /\ At(t, "selects") /\ Live(ctx[t]) /\ Goto(t, "idle") /\ Holds(t, NULL)
  /\ UNCHANGED <<Rest, ctxVars, RefCount, ctx2, history>>

\* SO_UPDATE_ACCEPT_CONTEXT: the second socket is not found, and the
\* reference to the first is not given back ...
UpdateFails(t) ==
  /\ At(t, "update") /\ Critical
  /\ Goto(t, "idle") /\ Holds(t, NULL)
  /\ lost' = Incr(lost, ctx[t], 1)
  /\ UNCHANGED <<Rest, ctxVars, RefCount, ctx2, undefined>>

\* ... or it is, and is unlocked before it is used.  ExtAcceptEx keeps both.
FindSecond(t, h) ==
  /\ At(t, "update") \/ At(t, "acceptex")
  /\ FindAndLockSocketContext(h) /\ ctx2' = [ctx2 EXCEPT ![t] = handle[h]]
  /\ Goto(t, IF At(t, "update") THEN "updates" ELSE "get")
  /\ UNCHANGED <<Rest, ctxVars, ctx, history>>
AcceptExFails(t) ==
  /\ At(t, "acceptex") /\ Critical /\ Goto(t, "end")
  /\ UNCHANGED <<Rest, ctxVars, Refs, ctx2, history>>
UpdateUnlocks(t) ==
  /\ At(t, "updates") /\ UnlockSocketContext(ctx2[t]) /\ Goto(t, "update2")
  /\ UNCHANGED <<Rest, ctx, ctx2, history>>
Updates(t) ==
  /\ At(t, "update2") /\ Live(ctx2[t]) /\ Goto(t, "end")
  /\ ctx2' = [ctx2 EXCEPT ![t] = NULL]
  /\ UNCHANGED <<Rest, ctxVars, Refs, history>>

\* WSPSocket, and the new sockets of WSPAccept and WSPJoinLeaf.
WSPSocket(t, k, h) ==
  /\ Idle(t) /\ layers = 1 /\ CreateSockInfo(k, h)
  /\ UNCHANGED <<Rest, Refs, pc, ctx2, history>>
\* WSPSocket writes to the SOCK_INFO it has just freed (2663).
WSPSocketFails(t, k) ==
  /\ Idle(t) /\ layers = 1 /\ CreateFails(k, "freed") /\ undefined' = 1
  /\ UNCHANGED <<Rest, Refs, pc, ctx2, lost>>
Creates(t, k) ==
  /\ At(t, "accept") \/ At(t, "joinleaf")
  /\ Live(ctx[t]) /\ Goto(t, "end")
  /\ \/ \E h \in Handles : CreateSockInfo(k, h)
     \/ CreateFails(k, IF At(t, "accept") THEN "live" ELSE "freed")
     \/ UNCHANGED ctxVars      \* the provider below fails
  /\ UNCHANGED <<Rest, Refs, ctx2, history>>

\* GetWorkerWindow: the first caller waits inside gCriticalSection until the
\* thread it has made has a window.
GetWorkerWindow(t) ==
  /\ At(t, "window") /\ Critical
  /\ IF AsyncWindow = "none"
     THEN AsyncWindow' = "wanted" /\ gCriticalSection' = t /\ Goto(t, "spin")
     ELSE UNCHANGED <<AsyncWindow, gCriticalSection>> /\ Goto(t, "end")
  /\ UNCHANGED <<mode, gEntryCount, layers, ctxVars, Refs, dwOutstandingAsync,
                 opVars, ctx2, op, inner, history>>
AsyncMsgHandler ==
  /\ AsyncWindow = "wanted"
  /\ AsyncWindow' \in {"window"} \cup (IF CanFail("window") THEN {"failed"} ELSE {})
  /\ UNCHANGED <<mode, gEntryCount, layers, gCriticalSection, ctxVars, Refs,
                 dwOutstandingAsync, opVars, pc, ctx2, op, inner, history>>
SpinEnds(t) ==
  /\ At(t, "spin") /\ AsyncWindow = "window"
  /\ gCriticalSection' = NULL /\ Goto(t, "end")
  /\ UNCHANGED <<mode, gEntryCount, layers, AsyncWindow, ctxVars, Refs,
                 dwOutstandingAsync, opVars, ctx2, op, inner, history>>
-----------------------------------------------------------------------------
(* WSPCloseSocket, with the lock of the SOCK_INFO. *)

Busy(k) == dwOutstandingAsync[k] # 0 \/ RefCount[k] # 1
MarkNone(k) == UNCHANGED bClosing                            \* mutant
MarkClosing(k) == bClosing' = [bClosing EXCEPT ![k] = 1]
ProviderCloses(k) == provider[k] = "open" /\ provider' = [provider EXCEPT ![k] = "closed"]
ProviderFails(k) == (CanFail("close") \/ provider[k] = "closed") /\ UNCHANGED provider

\* While it is used only the socket below is closed; the lock is kept.
CloseBusy(t) ==
  LET k == ctx[t] IN
  /\ At(t, "close") /\ AcquireSocketLock(t, k) /\ Busy(k)
  /\ Keeps(t, k) /\ MarkClosing(k)
  /\ ProviderCloses(k) \/ ProviderFails(k)
  /\ Goto(t, "end")
  /\ UNCHANGED <<Rest, handle, SocketList, mem, sync, LayeredSocket, Refs, ctx2, history>>

\* Otherwise all of it goes, unless the socket below cannot be closed, ...
\* (In "close3" the thread is inside for the second time: an earlier close of
\* its own has kept the lock.)
CloseIdle(t) ==
  LET k == ctx[t] IN
  /\ At(t, "close") /\ AcquireSocketLock(t, k) /\ ~Busy(k) /\ Keeps(t, k)
  /\ \/ /\ ProviderCloses(k) /\ SocketList' = SocketList \ {k}
        /\ Goto(t, IF SockCritSec[k] = t THEN "close3" ELSE "close2")
     \/ ProviderFails(k) /\ UNCHANGED SocketList /\ Goto(t, "end")
  /\ UNCHANGED <<Rest, handle, mem, bClosing, sync, LayeredSocket, Refs, ctx2, history>>
Closes(t) == (At(t, "close2") \/ At(t, "close3")) /\ Live(ctx[t])
CloseEnds(t) ==
  /\ Closes(t) /\ CloseSocketHandle(ctx[t]) /\ Release(ctx[t])
  /\ Goto(t, "idle") /\ Holds(t, NULL)
  /\ UNCHANGED <<Rest, provider, bClosing, sync, LayeredSocket, RefCount, ctx2, history>>
\* ... or its handle: then it stays, out of the list, and so does the reference.
CloseFails(t) ==
  /\ Closes(t) /\ HandleFails
  /\ IF At(t, "close2") THEN Keeps(NULL, ctx[t]) ELSE UNCHANGED SockCritSec
  /\ Goto(t, "idle") /\ Holds(t, NULL) /\ lost' = Incr(lost, ctx[t], 1)
  /\ UNCHANGED <<Rest, SocketList, mem, provider, bClosing, sync, LayeredSocket, RefCount, ctx2,
                 undefined>>
-----------------------------------------------------------------------------
(* overlap.cpp *)

\* WSPCleanup holds gOverlappedCS while it waits for the workers.
Overlapped == ~\E t \in Apps : At(t, "stop")
Calls == <<entryVars, Refs, ctx2, inner>>
Drops == "idle"                                              \* mutant
NoStructure == "end"      \* WSPRecv and the others unlock the socket and fail

\* For WSPIoctl's "pnp" IntermediateCompletionRoutine is next.
GetOverlappedStructure(t, n) ==
  LET k == ctx[t] IN
  /\ At(t, "get") \/ At(t, "pnp")
  /\ AcquireSocketLock(t, k) /\ Overlapped
  /\ stage[n] = "none" /\ \A m \in Ops : m < n => stage[m] # "none"
  /\ dwOutstandingAsync' = Incr(dwOutstandingAsync, k, 1)
  /\ \/ /\ octx' = [octx EXCEPT ![n] = k] /\ accepting' = [accepting EXCEPT ![n] = ctx2[t]]
        /\ op' = [op EXCEPT ![t] = n]
        /\ stage' = [stage EXCEPT ![n] = IF At(t, "pnp") THEN "worker" ELSE "own"]
        /\ Goto(t, IF At(t, "pnp") THEN "complete" ELSE "queue")
     \/ /\ CanFail("memory") /\ stage' = [stage EXCEPT ![n] = "missing"]
        /\ octx' = [octx EXCEPT ![n] = k] /\ Goto(t, NoStructure)
        /\ UNCHANGED <<accepting, op>>
  /\ UNCHANGED <<Calls, ctxVars, error, result, told, Pending, Semaphore, port, history>>

\* The socket joins the completion port, or the operation is left to a worker.
QueueOverlappedOperation(t) ==
  /\ At(t, "queue")
  /\ IF mode = "iocp"
     THEN /\ AcquireSocketLock(t, ctx[t]) /\ Goto(t, "execute")
          /\ UNCHANGED <<Pending, Semaphore, result, stage, op>>
     ELSE /\ Overlapped /\ Goto(t, "end")
          /\ Pending' = Append(Pending, op[t]) /\ Semaphore' = Semaphore + 1
          /\ result' = [result EXCEPT ![op[t]] = "pending"]
          /\ stage' = [stage EXCEPT ![op[t]] = "pending"]
          /\ op' = [op EXCEPT ![t] = NULL]
  /\ UNCHANGED <<Calls, ctxVars, octx, accepting, error, told, port, dwOutstandingAsync, history>>

\* ExecuteOverlappedOperation: the provider below takes the operation ...
Mine(t) == At(t, "execute") /\ stage[op[t]] = "own"
After(t) == IF t \in Apps THEN "end" ELSE "wait"
ExecutePending(t) ==
  /\ Mine(t) /\ provider[octx[op[t]]] = "open"
  /\ mode = "iocp" => sync[octx[op[t]]] = 0
  /\ stage' = [stage EXCEPT ![op[t]] = "kernel"]
  /\ result' = [result EXCEPT ![op[t]] = "pending"]
  /\ op' = [op EXCEPT ![t] = NULL] /\ Goto(t, After(t))
  /\ UNCHANGED <<Calls, ctxVars, octx, accepting, error, told, Pending, Semaphore, port,
                 dwOutstandingAsync, history>>
\* ... or has done it, on a synchronous socket, which nothing counts off ...
ExecuteSynchronous(t) ==
  /\ Mine(t) /\ mode = "iocp" /\ sync[octx[op[t]]] = 1 /\ provider[octx[op[t]]] = "open"
  /\ stage' = [stage EXCEPT ![op[t]] = "kept"]
  /\ result' = [result EXCEPT ![op[t]] = "done"]
  /\ op' = [op EXCEPT ![t] = NULL] /\ Goto(t, After(t))
  /\ UNCHANGED <<Calls, ctxVars, octx, accepting, error, told, Pending, Semaphore, port,
                 dwOutstandingAsync, history>>
\* ... or fails at once.  If a worker called it, the application is not told.
AfterFailure == "check"
ExecuteFails(t) ==
  /\ Mine(t) /\ Goto(t, AfterFailure)
  /\ result' = [result EXCEPT ![op[t]] = IF t \in Apps THEN "failed" ELSE "dropped"]
  /\ UNCHANGED <<Calls, ctxVars, stage, octx, accepting, error, told, Pending, Semaphore,
                 port, op, dwOutstandingAsync, history>>

\* The provider below completes the operation.
Complete(n) ==
  /\ stage[n] = "kernel"
  /\ stage' = [stage EXCEPT ![n] = "port"] /\ port' = Append(port, n)
  /\ \E e \in 0 .. 1 :
       /\ provider[octx[n]] = "closed" => e = 1
       /\ error' = [error EXCEPT ![n] = e]
  /\ UNCHANGED <<Calls, ctxVars, octx, accepting, result, told, Pending, Semaphore,
                 dwOutstandingAsync, pc, op, history>>

\* OverlappedManagerThread: a completion, from the port or as an APC, ...
Takes(w) ==
  /\ w \in Workers /\ At(w, "wait") /\ port # <<>>
  /\ op' = [op EXCEPT ![w] = Head(port)] /\ port' = Tail(port)
  /\ stage' = [stage EXCEPT ![Head(port)] = "worker"] /\ Goto(w, "complete")
  /\ UNCHANGED <<Calls, ctxVars, octx, accepting, error, result, told, Pending, Semaphore,
                 dwOutstandingAsync, history>>
\* ... the semaphore, or the end of an APC, after which the list is looked at.
Wakes(w) ==
  /\ w \in Workers /\ At(w, "wait") /\ Semaphore > 0
  /\ Semaphore' = Semaphore - 1 /\ Goto(w, "dequeue")
  /\ UNCHANGED <<Calls, ctxVars, stage, octx, accepting, error, result, told, Pending, port,
                 dwOutstandingAsync, op, history>>
DequeueOverlappedOperation(w) ==
  /\ At(w, "dequeue") /\ Overlapped
  /\ IF Pending = <<>>
     THEN Goto(w, "wait") /\ UNCHANGED <<Pending, op, stage>>
     ELSE /\ stage[Head(Pending)] = "pending"
          /\ op' = [op EXCEPT ![w] = Head(Pending)] /\ Pending' = Tail(Pending)
          /\ stage' = [stage EXCEPT ![Head(Pending)] = "own"] /\ Goto(w, "execute")
  /\ UNCHANGED <<Calls, ctxVars, octx, accepting, error, result, told, Semaphore, port,
                 dwOutstandingAsync, history>>

Worker == <<entryVars, ctx, dwOutstandingAsync, octx, accepting, error, result, Pending,
            Semaphore, port, op>>
CallerSocket(n) == LayeredSocket[octx[n]]

\* IntermediateCompletionRoutine, its SocketContext in ctx2: without a context
\* the application is not told.
CompletionFinds(w) ==
  /\ At(w, "complete") /\ stage[op[w]] = "worker"
  /\ \/ /\ FindAndLockSocketContext(CallerSocket(op[w])) /\ Goto(w, "copy")
        /\ ctx2' = [ctx2 EXCEPT ![w] = handle[CallerSocket(op[w])]]
     \/ NotFound(CallerSocket(op[w])) /\ Goto(w, "put") /\ UNCHANGED <<RefCount, ctx2>>
  /\ UNCHANGED <<Worker, ctxVars, stage, told, inner, history>>

\* The counters are updated under the lock.  AcceptEx finds and unlocks its
\* second SOCK_INFO there, with no test whether it is still there.
Accepted(w) == error[op[w]] = 0 /\ accepting[op[w]] # NULL
AcceptSocket(w) == LayeredSocket[accepting[op[w]]]
Copies(w) ==
  /\ At(w, "copy") /\ Live(ctx2[w])
  /\ error[op[w]] = 0 => AcquireSocketLock(w, ctx2[w])
  /\ IF Accepted(w) THEN Keeps(w, ctx2[w]) /\ Goto(w, "accepting")
                    ELSE UNCHANGED SockCritSec /\ Goto(w, "copied")
  /\ UNCHANGED <<Worker, handle, SocketList, mem, provider, bClosing, sync, LayeredSocket,
                 RefCount, ctx2, stage, told, inner, history>>
AcceptFinds(w) ==
  /\ At(w, "accepting") /\ FindAndLockSocketContext(AcceptSocket(w))
  /\ inner' = [inner EXCEPT ![w] = handle[AcceptSocket(w)]] /\ Goto(w, "accepted")
  /\ UNCHANGED <<Worker, ctxVars, ctx2, stage, told, history>>
AcceptUnlocks(w) ==
  /\ At(w, "accepted") /\ UnlockSocketContext(inner[w])
  /\ inner' = [inner EXCEPT ![w] = NULL] /\ Goto(w, "release")
  /\ UNCHANGED <<Worker, ctx2, stage, told, history>>
ReleaseSocketLock(w) ==
  /\ At(w, "release") /\ Live(ctx2[w]) /\ Keeps(NULL, ctx2[w]) /\ Goto(w, "copied")
  /\ UNCHANGED <<Worker, handle, SocketList, mem, provider, bClosing, sync, LayeredSocket,
                 RefCount, ctx2, stage, told, inner, history>>
CompletionUnlocks(w) ==
  /\ At(w, "copied") /\ UnlockSocketContext(ctx2[w])
  /\ ctx2' = [ctx2 EXCEPT ![w] = NULL] /\ Goto(w, "tell")
  /\ UNCHANGED <<Worker, stage, told, inner, history>>
Tells(w) ==
  /\ At(w, "tell") /\ stage[op[w]] = "worker"
  /\ told' = Incr(told, op[w], 1) /\ Goto(w, "check")
  /\ UNCHANGED <<Worker, ctxVars, RefCount, ctx2, stage, inner, history>>

\* CheckForContextCleanup.  Its second half frees a closing SOCK_INFO with one
\* reference (1038-1067).  It is never reached: a worker has that one only, but
\* does not get the lock of a closing SOCK_INFO (ClosingIsLocked), and a thread
\* of the application, whose operation failed at once or was completed at once
\* by WSPIoctl, holds another.
CleanupFinds(t) ==
  /\ At(t, "check") /\ stage[op[t]] # "freed"
  /\ \/ /\ FindAndLockSocketContext(CallerSocket(op[t])) /\ Goto(t, "count")
        /\ inner' = [inner EXCEPT ![t] = handle[CallerSocket(op[t])]]
     \/ NotFound(CallerSocket(op[t])) /\ Goto(t, "put") /\ UNCHANGED <<RefCount, inner>>
  /\ UNCHANGED <<Worker, ctx2, ctxVars, stage, told, history>>
CountsOff(t) ==
  /\ At(t, "count") /\ AcquireSocketLock(t, octx[op[t]])
  /\ dwOutstandingAsync' = Incr(dwOutstandingAsync, octx[op[t]], -1)
  /\ stage' = [stage EXCEPT ![op[t]] = "counted"]
  /\ Goto(t, "unlock")
  /\ UNCHANGED <<Calls, ctxVars, octx, accepting, error, result, told, Pending, Semaphore,
                 port, op, history>>
CleanupUnlocks(t) ==
  /\ At(t, "unlock") /\ UnlockSocketContext(inner[t]) /\ Goto(t, "put")
  /\ inner' = [inner EXCEPT ![t] = NULL]
  /\ UNCHANGED <<Worker, ctx2, stage, told, history>>
PutbackOverlappedStructure(t) ==
  /\ At(t, "put") /\ Overlapped /\ stage[op[t]] # "freed"
  /\ stage' = [stage EXCEPT ![op[t]] = "free"] /\ op' = [op EXCEPT ![t] = NULL]
  /\ Goto(t, IF t \in Workers /\ mode = "apc" /\ result[op[t]] # "dropped"
             THEN "dequeue" ELSE After(t))
  /\ UNCHANGED <<Calls, ctxVars, octx, accepting, error, result, told, Pending, Semaphore,
                 port, dwOutstandingAsync, history>>
-----------------------------------------------------------------------------
(* WSPStartup and WSPCleanup. *)

Others == <<Refs, ctx2, op, inner, dwOutstandingAsync, lost>>

\* gEntryCount is counted before anything can fail.  One of the failures
\* returns inside gCriticalSection (2929).
WSPStartup(t) ==
  /\ t \in Apps /\ At(t, "idle") /\ Critical
  /\ gEntryCount' = gEntryCount + 1
  /\ \/ /\ layers' = IF gEntryCount = 0 THEN 1 ELSE layers
        /\ pc' = [u \in Threads |-> IF At(u, "exit") THEN "wait" ELSE pc[u]]
        /\ UNCHANGED gCriticalSection
     \/ /\ CanFail("load") /\ gEntryCount = 0
        /\ gCriticalSection' \in {NULL, t}
        /\ UNCHANGED <<layers, pc>>
  /\ UNCHANGED <<Others, mode, AsyncWindow, ctxVars, opVars, undefined>>

WSPCleanup(t) ==
  /\ Idle(t) /\ Critical
  /\ gEntryCount' = gEntryCount - 1
  /\ IF gEntryCount = 1
     THEN /\ gCriticalSection' = t /\ Goto(t, "stop")
          /\ AsyncWindow' = IF AsyncWindow = "window" THEN "stopped" ELSE AsyncWindow
     ELSE UNCHANGED <<gCriticalSection, AsyncWindow, pc>>
  /\ UNCHANGED <<Others, mode, layers, ctxVars, opVars, undefined>>

\* Workers that wait end; one that needs a critical section outlives the
\* four seconds StopOverlappedManager waits for it.
StopOverlappedManager(t) ==
  /\ At(t, "stop")
  /\ pc' = [u \in Threads |-> IF u = t THEN "free" ELSE IF At(u, "wait") THEN "exit" ELSE pc[u]]
  /\ UNCHANGED <<Others, entryVars, ctxVars, opVars, undefined>>

\* The list is walked and the heap destroyed, with the SOCK_INFOs and the
\* structures in it; PendingStart is not reset.
FreeSocketsAndMemory(t) ==
  /\ At(t, "free") /\ \A k \in SocketList : Live(k)
  /\ handle' = [h \in Handles |-> IF handle[h] \in SocketList THEN NULL ELSE handle[h]]
  /\ SocketList' = {}
  /\ mem' = [k \in Contexts |-> IF mem[k] = "live" THEN "freed" ELSE mem[k]]
  /\ provider' = [k \in Contexts |-> IF mem[k] = "live" THEN "closed" ELSE provider[k]]
  /\ stage' = [n \in Ops |-> IF stage[n] \in {"none", "free", "missing"} THEN stage[n] ELSE "freed"]
  /\ port' = <<>> /\ Semaphore' = 0 /\ layers' = 0
  /\ gCriticalSection' = NULL /\ Goto(t, "idle")
  /\ UNCHANGED <<Others, mode, gEntryCount, AsyncWindow, bClosing, SockCritSec, sync,
                 LayeredSocket, octx, accepting, error, result, told, Pending, undefined>>
-----------------------------------------------------------------------------
\* Freed memory is used, or the NULL of a second socket that is gone.
UsesCtx == {"end", "select", "selects", "accept", "joinleaf", "close", "close2", "close3", "get",
            "pnp", "queue"}
UsesCtx2 == {"end2", "updates", "update2", "copy", "release", "copied"}
Dangling(t) ==
  \/ pc[t] \in UsesCtx /\ mem[ctx[t]] = "freed"
  \/ pc[t] \in UsesCtx2 /\ mem[ctx2[t]] = "freed"
  \/ pc[t] \in {"update", "acceptex"} /\ \E h \in Handles : Stale(h)
  \/ pc[t] \in {"complete", "check"} /\ Stale(CallerSocket(op[t]))
  \/ At(t, "accepting") /\ (NotFound(AcceptSocket(t)) \/ Stale(AcceptSocket(t)))
  \/ At(t, "count") /\ mem[octx[op[t]]] = "freed"
  \/ pc[t] \in {"accepted", "unlock"} /\ mem[inner[t]] = "freed"
  \/ op[t] # NULL /\ stage[op[t]] = "freed"
  \/ At(t, "dequeue") /\ Pending # <<>> /\ stage[Head(Pending)] = "freed"
  \/ At(t, "free") /\ \E k \in SocketList : mem[k] = "freed"

UseAfterFree(t) ==
  /\ Dangling(t) /\ undefined' = 1
  /\ UNCHANGED <<entryVars, ctxVars, RefCount, dwOutstandingAsync, opVars, pc, ctx, ctx2, op,
                 inner, lost>>

Call(t, h) ==
  \/ WSPBind(t, h) \/ WSPConnect(t, h) \/ WSPDuplicateSocket(t, h) \/ WSPEnumNetworkEvents(t, h)
  \/ WSPEventSelect(t, h) \/ WSPGetPeerName(t, h) \/ WSPGetSockName(t, h) \/ WSPGetSockOpt(t, h)
  \/ WSPGetQOSByName(t, h) \/ WSPListen(t, h) \/ WSPRecvDisconnect(t, h)
  \/ WSPSendDisconnect(t, h) \/ WSPShutdown(t, h) \/ WSPIoctl(t, h) \/ WSPRecv(t, h)
  \/ WSPRecvFrom(t, h) \/ WSPSend(t, h) \/ WSPSendTo(t, h) \/ ExtTransmitFile(t, h)
  \/ ExtConnectEx(t, h) \/ ExtTransmitPackets(t, h) \/ ExtDisconnectEx(t, h)
  \/ ExtWSARecvMsg(t, h) \/ WSPAccept(t, h) \/ WSPJoinLeaf(t, h) \/ WSPAsyncSelect(t, h)
  \/ WSPSelect(t, h) \/ WSPSetSockOpt(t, h) \/ ExtAcceptEx(t, h) \/ WSPCloseSocket(t, h)

Begins(t) ==
  \/ \E h \in Handles : Call(t, h) \/ CallsFreed(t, h)
  \/ \E k \in Contexts : WSPSocketFails(t, k) \/ \E h \in Handles : WSPSocket(t, k, h)
  \/ WSPStartup(t) \/ WSPCleanup(t)

Continues(t) ==
  \/ End(t) \/ End2(t) \/ SelectUnlocks(t) \/ Selects(t) \/ UpdateUnlocks(t) \/ Updates(t)
  \/ UpdateFails(t) \/ AcceptExFails(t) \/ \E h \in Handles : FindSecond(t, h)
  \/ \E k \in Contexts : Creates(t, k)
  \/ GetWorkerWindow(t) \/ SpinEnds(t) \/ CloseBusy(t) \/ CloseIdle(t) \/ CloseEnds(t)
  \/ CloseFails(t)
  \/ \E n \in Ops : GetOverlappedStructure(t, n)
  \/ QueueOverlappedOperation(t) \/ ExecutePending(t) \/ ExecuteSynchronous(t) \/ ExecuteFails(t)
  \/ Wakes(t) \/ DequeueOverlappedOperation(t) \/ CompletionFinds(t) \/ Copies(t)
  \/ AcceptFinds(t) \/ AcceptUnlocks(t) \/ ReleaseSocketLock(t) \/ CompletionUnlocks(t)
  \/ Tells(t) \/ CleanupFinds(t) \/ CountsOff(t) \/ CleanupUnlocks(t)
  \/ PutbackOverlappedStructure(t) \/ StopOverlappedManager(t) \/ FreeSocketsAndMemory(t)
  \/ UseAfterFree(t)

Runs(t) == undefined = 0 /\ UNCHANGED calls /\ Continues(t)
WorkerTakes == undefined = 0 /\ UNCHANGED calls /\ \E w \in Workers : Takes(w)
WindowThread == undefined = 0 /\ UNCHANGED calls /\ AsyncMsgHandler

Next ==
  \/ \E t \in Threads : Runs(t)
  \/ WorkerTakes \/ WindowThread
  \/ /\ undefined = 0 /\ calls < MaxCalls /\ calls' = calls + 1
     /\ \E t \in Apps : Begins(t)
  \/ /\ undefined = 0 /\ UNCHANGED calls
     /\ \E n \in Ops : Complete(n)

Spec == Init /\ [][Next]_vars

(* A call once begun goes on, workers take what has completed, and the     *)
(* window thread runs; the application need not call anything and the      *)
(* provider below need not complete what is outstanding.                   *)
Fairness ==
  /\ \A t \in Threads : WF_vars(Runs(t))
  /\ WF_vars(WorkerTakes) /\ WF_vars(WindowThread)

FairSpec == Spec /\ Fairness
-----------------------------------------------------------------------------
(* Properties. *)

\* The references of k: by ctx, by ctx2, by inner.  What WSPSelect keeps
\* after its unlock, and SO_UPDATE_ACCEPT_CONTEXT, is not one.
Holders(k) ==
  {<<t, 1>> : t \in {u \in Threads : ctx[u] = k /\ ~At(u, "selects")}}
  \cup {<<t, 2>> : t \in {u \in Threads : ctx2[u] = k /\ ~At(u, "update2")}}
  \cup {<<t, 3>> : t \in {u \in Threads : inner[u] = k}}

\* Every function gives its reference back on every path but two, which are
\* counted in lost: SO_UPDATE_ACCEPT_CONTEXT with a socket that is gone (2278),
\* and WSPCloseSocket when WPUCloseSocketHandle fails (634).  And
\* dwOutstandingAsync of a SOCK_INFO counts the operations whose structures
\* lead to it, and those nothing will count off: no structure was left (784),
\* or the socket is synchronous (659).  WSPCloseSocket and UnlockSocketContext
\* free the SOCK_INFO by these two counts.
CountsExact ==
  undefined = 0 => \A k \in Contexts : mem[k] = "live" =>
    /\ RefCount[k] = Cardinality(Holders(k)) + lost[k]
    /\ dwOutstandingAsync[k] = Cardinality({n \in Ops : octx[n] = k /\
      stage[n] \in {"own", "pending", "kernel", "port", "worker", "kept", "missing"}})

\* WSPCloseSocket keeps the lock of a socket in use for good, which marks it
\* closing: a closing SOCK_INFO that is not freed is locked.  And the socket
\* below is closed of none but those marked and those that have left the list.
ClosingIsLocked ==
  \A k \in Contexts : mem[k] = "live" =>
    /\ bClosing[k] = 1 => SockCritSec[k] # NULL
    /\ provider[k] = "closed" => bClosing[k] = 1 \/ k \notin SocketList

\* 971: "we signal that the op has completed".  An operation that has
\* completed is reported, unless its socket was closed meanwhile, a cleanup
\* or a window or a provider that failed has stopped everybody, memory was
\* corrupted, or, without a port, the operation failed when a worker posted it.
Closed(k) == bClosing[k] = 1 \/ SockCritSec[k] \in Apps
Stopped == undefined = 1 \/ gEntryCount = 0 \/ gCriticalSection # NULL
Unreported(n) ==
  /\ result[n] = "pending" /\ told[n] = 0 /\ stage[n] \notin {"kernel", "freed"}
  /\ ~Stopped /\ ~Closed(octx[n])
CompletionsReported == \A n \in Ops : Unreported(n) ~> ~Unreported(n)
=============================================================================
