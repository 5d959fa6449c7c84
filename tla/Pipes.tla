------------------------------- MODULE Pipes -------------------------------
(* chapter20: the named pipe servers Overlap.cpp (one loop for all         *)
(* instances), Threads.cpp (a thread for each) and Server.cpp (one client) *)
(* with clients like Client.cpp; chapter19: the mailslot server            *)
(* Server2/server.cpp.  pipeKind says which.  External: pipes and          *)
(* mailslots.  A new instance can be opened before ConnectNamedPipe, which *)
(* then fails with ERROR_PIPE_CONNECTED; one that was disconnected cannot. *)
EXTENDS Integers, Sequences, SequencesExt, FiniteSets

CONSTANTS
  NUM_PIPES,
  PipeClients,   \* bound of the model: clients
  MaxWrites      \* bound of the model: messages a client writes

ASSUME PipeAssumption == NUM_PIPES \in Nat \ {0} /\ MaxWrites \in Nat \ {0}

NOCLIENT == 0
ASSUME PipeClientAssumption == PipeClients \subseteq Nat \ {NOCLIENT}

VARIABLES
  pipeKind,  \* "overlapped", "thread", "single", "mailslot"
  pipe,      \* the instances: [state, client, in, out, gone]
  overlapped,\* what is pending on each: [op, result, data]
  pipeEvent,
  DataRead,
  pipeMain,  \* main of the overlapped server: <<label, instance>>
  ppc,       \* the thread of each instance
  Buffer,    \* whose message each buffer holds
  pclient,   \* the clients: [at, pipe, wrote, got]
  stuck,     \* instances whose ReadFile or WriteFile failed at once
  slot       \* the mailslot: [main, thread, exists, stop, queue, lost]

pipeVars == <<pipeKind, pipe, overlapped, pipeEvent, DataRead, pipeMain, ppc, Buffer, pclient,
              stuck, slot>>

Instances == 1 .. NUM_PIPES
Single == pipeKind = "single"
Used == IF Single THEN {1} ELSE IF pipeKind = "mailslot" THEN {} ELSE Instances

\* state: "none", "listening", "connected" or "disconnected".  in, out: whose
\* messages lie in the pipe towards the server and the client; gone: the
\* client closed its end.
NoPipe == [state |-> "none", client |-> NOCLIENT, in |-> <<>>, out |-> <<>>, gone |-> 0]
NoOp == [op |-> "none", result |-> "none", data |-> NOCLIENT]

PipesInit ==
  /\ pipeKind \in {"overlapped", "thread", "single", "mailslot"}
  /\ pipe = [i \in Instances |-> NoPipe]
  /\ overlapped = [i \in Instances |-> NoOp]
  /\ pipeEvent = [i \in Instances |-> 0]
  /\ DataRead = [i \in Instances |-> 0]
  /\ pipeMain = <<"create", 1>>
  /\ ppc = [i \in Instances |-> "create"]
  /\ Buffer = [i \in Instances |-> NOCLIENT]
  /\ pclient = [c \in PipeClients |-> [at |-> "open", pipe |-> 0, wrote |-> 0, got |-> 0]]
  /\ stuck = {}
  /\ slot = [main |-> "key", thread |-> "create", exists |-> 0, stop |-> 0, queue |-> <<>>, lost |-> 0]

AtPipe(label) == pipeKind = "overlapped" /\ pipeMain[1] = label
Pipe == pipeMain[2]
threadVars == <<pipeKind, pclient, stuck, slot>>
-----------------------------------------------------------------------------
(* The clients: open an instance, write, and close; some wait for the echo *)
(* of a message before the next and before they close.                     *)

ClientOpens(c, i) ==
  /\ pclient[c].at = "open" /\ pipe[i].state = "listening"
  /\ pipe' = [pipe EXCEPT ![i] = [state |-> "connected", client |-> c, in |-> <<>>, out |-> <<>>,
                                  gone |-> 0]]
  /\ pclient' = [pclient EXCEPT ![c].at = "write", ![c].pipe = i]
  /\ UNCHANGED <<pipeKind, overlapped, pipeEvent, DataRead, pipeMain, ppc, Buffer, stuck, slot>>

Its(c) == pipe[pclient[c].pipe]
Holds(c) == pclient[c].pipe # 0 /\ Its(c).client = c /\ Its(c).state = "connected"

ClientWrites(c) ==
  /\ pclient[c].at = "write" /\ Holds(c) /\ pclient[c].wrote < MaxWrites
  /\ pipe' = [pipe EXCEPT ![pclient[c].pipe].in = Append(@, c)]
  /\ \E next \in {"read", "write"} :
       pclient' = [pclient EXCEPT ![c].wrote = @ + 1, ![c].at = next]
  /\ UNCHANGED <<pipeKind, overlapped, pipeEvent, DataRead, pipeMain, ppc, Buffer, stuck, slot>>

ClientReads(c) ==
  /\ pclient[c].at = "read"
  /\ IF Holds(c)
     THEN /\ Its(c).out # <<>>
          /\ pipe' = [pipe EXCEPT ![pclient[c].pipe].out = Tail(@)]
          /\ pclient' = [pclient EXCEPT ![c].at = "write", ![c].got = @ + 1]
     ELSE pclient' = [pclient EXCEPT ![c].at = "end"] /\ UNCHANGED pipe
  /\ UNCHANGED <<pipeKind, overlapped, pipeEvent, DataRead, pipeMain, ppc, Buffer, stuck, slot>>

ClientCloses(c) ==
  /\ pclient[c].at = "write"
  /\ pipe' = IF Holds(c) THEN [pipe EXCEPT ![pclient[c].pipe].gone = 1, ![pclient[c].pipe].out = <<>>]
             ELSE pipe
  /\ pclient' = [pclient EXCEPT ![c].at = "end"]
  /\ UNCHANGED <<pipeKind, overlapped, pipeEvent, DataRead, pipeMain, ppc, Buffer, stuck, slot>>
-----------------------------------------------------------------------------
(* What the kernel does with an instance.                                  *)

Connected1(i) == pipe[i].state = "connected"
Readable(i) == Connected1(i) /\ pipe[i].in # <<>>
Broken(i) == ~Connected1(i) \/ pipe[i].gone = 1

\* A pending operation completes and sets its event.
Completes(i) ==
  /\ overlapped[i].result = "pending"
  /\ \/ /\ overlapped[i].op = "connect" /\ Connected1(i)
        /\ overlapped' = [overlapped EXCEPT ![i].result = "ok"] /\ UNCHANGED pipe
     \/ /\ overlapped[i].op = "read" /\ Readable(i)
        /\ overlapped' = [overlapped EXCEPT ![i].result = "ok", ![i].data = Head(pipe[i].in)]
        /\ pipe' = [pipe EXCEPT ![i].in = Tail(@)]
     \/ /\ overlapped[i].op = "read" /\ ~Readable(i) /\ Broken(i)
        /\ overlapped' = [overlapped EXCEPT ![i].result = "error"] /\ UNCHANGED pipe
     \/ /\ overlapped[i].op = "write" /\ ~Broken(i)
        /\ overlapped' = [overlapped EXCEPT ![i].result = "ok"]
        /\ pipe' = [pipe EXCEPT ![i].out = Append(@, overlapped[i].data)]
     \/ /\ overlapped[i].op = "write" /\ Broken(i)
        /\ overlapped' = [overlapped EXCEPT ![i].result = "error"] /\ UNCHANGED pipe
  /\ pipeEvent' = [pipeEvent EXCEPT ![i] = 1]
  /\ UNCHANGED <<pipeKind, DataRead, pipeMain, ppc, Buffer, pclient, stuck, slot>>

Pending(i, op, data) ==
  overlapped' = [overlapped EXCEPT ![i] = [op |-> op, result |-> "pending", data |-> data]]
-----------------------------------------------------------------------------
(* Overlap.cpp.                                                            *)

CreatePipe ==
  /\ AtPipe("create")
  /\ pipe' = [pipe EXCEPT ![Pipe].state = "listening"]
  /\ pipeMain' = <<"connect", Pipe>>
  /\ UNCHANGED <<pipeKind, overlapped, pipeEvent, DataRead, ppc, Buffer, pclient, stuck, slot>>

\* A client was faster: main takes it for a failure and returns.
ConnectPipe ==
  /\ AtPipe("connect")
  /\ IF Connected1(Pipe)
     THEN /\ pipeMain' = <<"exit", 0>> /\ pipe' = [i \in Instances |-> NoPipe]
          /\ UNCHANGED overlapped
     ELSE /\ Pending(Pipe, "connect", NOCLIENT)
          /\ pipeMain' = IF Pipe = NUM_PIPES THEN <<"wait", 0>> ELSE <<"create", Pipe + 1>>
          /\ UNCHANGED pipe
  /\ UNCHANGED <<pipeKind, pipeEvent, DataRead, ppc, Buffer, pclient, stuck, slot>>

WaitPipes(i) ==
  /\ AtPipe("wait")
  /\ pipeEvent[i] = 1 /\ \A j \in Instances : j < i => pipeEvent[j] = 0
  /\ pipeEvent' = [pipeEvent EXCEPT ![i] = 0]
  /\ pipeMain' = <<IF overlapped[i].result = "error" THEN "restart"
                   ELSE IF DataRead[i] = 0 THEN "read" ELSE "write", i>>
  /\ UNCHANGED <<pipeKind, pipe, overlapped, DataRead, ppc, Buffer, pclient, stuck, slot>>

NotRead == DataRead' = [DataRead EXCEPT ![Pipe] = 0]

\* The operation failed: disconnect and wait for another client.
Restart ==
  /\ AtPipe("restart")
  /\ pipe' = [pipe EXCEPT ![Pipe] = [NoPipe EXCEPT !.state = "listening"]]
  /\ Pending(Pipe, "connect", NOCLIENT)
  /\ NotRead
  /\ pipeMain' = <<"wait", 0>>
  /\ UNCHANGED <<pipeKind, pipeEvent, ppc, Buffer, pclient, stuck, slot>>

\* ReadFile or WriteFile that fails at once leaves nothing pending.
Starts(op, data, fails) ==
  IF fails
  THEN stuck' = stuck \cup {Pipe} /\ overlapped' = [overlapped EXCEPT ![Pipe] = NoOp]
  ELSE Pending(Pipe, op, data) /\ UNCHANGED stuck

ReadPipe ==
  /\ AtPipe("read")
  /\ Starts("read", NOCLIENT, Broken(Pipe) /\ ~Readable(Pipe))
  /\ DataRead' = [DataRead EXCEPT ![Pipe] = 1]
  /\ pipeMain' = <<"wait", 0>>
  /\ UNCHANGED <<pipeKind, pipe, pipeEvent, ppc, Buffer, pclient, slot>>

WritePipe ==
  /\ AtPipe("write")
  /\ Buffer' = IF overlapped[Pipe].op = "read" THEN [Buffer EXCEPT ![Pipe] = overlapped[Pipe].data] ELSE Buffer
  /\ Starts("write", Buffer'[Pipe], Broken(Pipe))
  /\ DataRead' = [DataRead EXCEPT ![Pipe] = 0]
  /\ pipeMain' = <<"wait", 0>>
  /\ UNCHANGED <<pipeKind, pipe, pipeEvent, ppc, pclient, slot>>
-----------------------------------------------------------------------------
(* Threads.cpp and Server.cpp: every call waits until it is done.          *)

PipeGoto(i, label) == ppc' = [ppc EXCEPT ![i] = label]

ThreadCreates(i) ==
  /\ ppc[i] = "create"
  /\ pipe' = [pipe EXCEPT ![i].state = "listening"]
  /\ PipeGoto(i, "connect")
  /\ UNCHANGED <<threadVars, overlapped, pipeEvent, DataRead, pipeMain, Buffer>>

\* ConnectNamedPipe is called: a client that was faster makes it fail, and
\* the instance is closed.
ThreadConnects(i) ==
  /\ ppc[i] = "connect"
  /\ IF Connected1(i)
     THEN pipe' = [pipe EXCEPT ![i] = NoPipe] /\ PipeGoto(i, "end")
     ELSE pipe' = [pipe EXCEPT ![i].state = "listening"] /\ PipeGoto(i, "connecting")
  /\ UNCHANGED <<threadVars, overlapped, pipeEvent, DataRead, pipeMain, Buffer>>

ThreadConnected(i) ==
  /\ ppc[i] = "connecting" /\ Connected1(i)
  /\ PipeGoto(i, "read")
  /\ UNCHANGED <<threadVars, pipe, overlapped, pipeEvent, DataRead, pipeMain, Buffer>>

\* Server.cpp reads once and is done; Threads.cpp reads until it fails.
ThreadReads(i) ==
  /\ ppc[i] = "read"
  /\ \/ /\ Readable(i)
        /\ Buffer' = [Buffer EXCEPT ![i] = Head(pipe[i].in)]
        /\ pipe' = [pipe EXCEPT ![i].in = Tail(@)]
        /\ PipeGoto(i, IF Single THEN "disconnect" ELSE "write")
     \/ /\ ~Readable(i) /\ Broken(i)
        /\ pipe' = IF Single THEN [pipe EXCEPT ![i] = NoPipe] ELSE pipe
        /\ PipeGoto(i, IF Single THEN "end" ELSE "disconnect")
        /\ UNCHANGED Buffer
  /\ UNCHANGED <<threadVars, overlapped, pipeEvent, DataRead, pipeMain>>

ThreadWrites(i) ==
  /\ ppc[i] = "write"
  /\ IF Broken(i)
     THEN PipeGoto(i, "disconnect") /\ UNCHANGED pipe
     ELSE PipeGoto(i, "read") /\ pipe' = [pipe EXCEPT ![i].out = Append(@, Buffer[i])]
  /\ UNCHANGED <<threadVars, overlapped, pipeEvent, DataRead, pipeMain, Buffer>>

ThreadDisconnects(i) ==
  /\ ppc[i] = "disconnect"
  /\ pipe' = [pipe EXCEPT ![i] = IF Single THEN NoPipe
                                 ELSE [NoPipe EXCEPT !.state = "disconnected"]]
  /\ PipeGoto(i, IF Single THEN "end" ELSE "connect")
  /\ UNCHANGED <<threadVars, overlapped, pipeEvent, DataRead, pipeMain, Buffer>>
-----------------------------------------------------------------------------
(* The mailslot server.  At a key main sets the flag and sends STOP, which *)
(* it cannot before the thread has created the mailslot; then it waits for *)
(* the thread.                                                             *)

slotOthers == <<pipeKind, pipe, overlapped, pipeEvent, DataRead, pipeMain, ppc, Buffer, pclient, stuck>>

\* There may be no mailslot yet, or no more.
SendMessageToMailslot ==
  IF slot.exists = 1
  THEN slot' = [slot EXCEPT !.main = "join", !.queue = Append(@, "STOP")]
  ELSE slot' = [slot EXCEPT !.main = "join", !.lost = 1]

SlotMain ==
  /\ \/ slot.main = "key" /\ slot' = [slot EXCEPT !.main = "send", !.stop = 1]
     \/ slot.main = "send" /\ SendMessageToMailslot
     \/ slot.main = "join" /\ slot.thread = "end" /\ slot' = [slot EXCEPT !.main = "end"]
  /\ UNCHANGED slotOthers

SlotThread ==
  /\ \/ slot.thread = "create" /\ slot' = [slot EXCEPT !.thread = "read", !.exists = 1]
     \/ slot.thread = "read" /\ slot.queue # <<>>
        /\ slot' = [slot EXCEPT !.thread = IF slot.stop = 1 THEN "end" ELSE "read",
                                !.exists = 1 - slot.stop, !.queue = Tail(@)]
  /\ UNCHANGED slotOthers

\* A client that finds the mailslot sends one message.
SlotClient(c) ==
  /\ pclient[c].at = "open" /\ slot.exists = 1
  /\ slot' = [slot EXCEPT !.queue = Append(@, "message")]
  /\ pclient' = [pclient EXCEPT ![c].at = "end"]
  /\ UNCHANGED <<pipeKind, pipe, overlapped, pipeEvent, DataRead, pipeMain, ppc, Buffer, stuck>>
-----------------------------------------------------------------------------
PipesMain ==
  CreatePipe \/ ConnectPipe \/ Restart \/ ReadPipe \/ WritePipe \/ \E i \in Instances : WaitPipes(i)
PipeInstanceProc(i) ==
  /\ pipeKind \in {"thread", "single"} /\ i \in Used
  /\ \/ ThreadCreates(i) \/ ThreadConnects(i) \/ ThreadConnected(i)
     \/ ThreadReads(i) \/ ThreadWrites(i) \/ ThreadDisconnects(i)
SlotServer == pipeKind = "mailslot" /\ (SlotMain \/ SlotThread)
\* A client that waits for an echo reads it, and one that does not writes or
\* closes in the end.
PipeClient(c) == pipeKind # "mailslot" /\ (ClientWrites(c) \/ ClientReads(c) \/ ClientCloses(c))

PipesNext ==
  \/ PipesMain \/ SlotServer
  \/ \E i \in Instances : Completes(i) \/ PipeInstanceProc(i)
  \/ \E c \in PipeClients :
       \/ PipeClient(c)
       \/ pipeKind # "mailslot" /\ \E i \in Instances : ClientOpens(c, i)
       \/ pipeKind = "mailslot" /\ SlotClient(c)

\* An instance of the overlapped server has one operation under way, seen or
\* to be seen by main, unless a call failed at once; DataRead tells which;
\* and a client reads back what it wrote, and not another's.
PipesSound ==
  /\ AtPipe("wait") => \A i \in Instances \ stuck :
       /\ overlapped[i].result = "pending" <=> pipeEvent[i] = 0
       /\ DataRead[i] = 1 <=> overlapped[i].op = "read"
  /\ \A i \in Instances : \A k \in DOMAIN pipe[i].out :
       pipe[i].out[k] = pipe[i].client

\* A client that waits for its echo gets it or is disconnected; the
\* mailslot server ends unless it could not send STOP.
PipesOwe(c) == IF pipeKind = "mailslot" THEN slot.stop = 1 ELSE pclient[c].at = "read"
PipesServe(c) == IF pipeKind = "mailslot" THEN slot.main = "end" \/ slot.lost = 1
                 ELSE pclient[c].at # "read"
=============================================================================
