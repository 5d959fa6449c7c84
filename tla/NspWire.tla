------------------------------ MODULE NspWire ------------------------------
(* chapter12/NSP end to end: applications (rnrcs.cpp), the provider in     *)
(* each of them (mynsp.cpp), and the service (mynspsvc.cpp), which reads   *)
(* one request from one connection after the other.  NameService takes a   *)
(* call as one step; here it is a connection that a peer may cut.          *)
(* A stream is a sequence of units <<what it is, its value>>: the action,  *)
(* a size or a handle, the parts of a marshalled structure (nspsvc.cpp).   *)
EXTENDS Integers, Sequences, SequencesExt, FiniteSets

\* Runs: the command line of each application, and a bound of the model:
\* how many are killed or refused by a failing accept.
CONSTANT NspConfigs

ASSUME NspAssumption ==
  \A config \in NspConfigs :
    /\ config.faults \in Nat
    /\ \A a \in DOMAIN config.apps :
         config.apps[a].role = "client" \/ config.apps[a].name # "*"   \* line 613

VARIABLES
  nargs,       \* of each application: role, name, and delete (-d)
  napp,        \* of each application: [at, handle, body, left]
  ntold,       \* what WSALookupServiceNext gave each of them
  nconn,       \* each one's connection: [up, down, open]
  nqueue,      \* connections to be accepted
  nsvc,        \* the service: [at, app, action, left, got]
  nclasses, nservices, nqueries,   \* its tables
  nremoved,    \* history: the servers whose registration was removed
  nowed, nexcused,   \* history, as in NameService
  nfaults      \* faults still to come
nspVars == <<nargs, napp, ntold, nconn, nqueue, nsvc, nclasses, nservices, nqueries, nremoved,
             nowed, nexcused, nfaults>>
nspTables == <<nclasses, nservices, nqueries, nremoved, nowed, nexcused>>

NspApps == DOMAIN nargs
Unread == [up |-> <<>>, down |-> <<>>, open |-> 0]
NspIdle == [at |-> "accept", app |-> 0, action |-> "none", left |-> 0, got |-> <<>>]

NspInit ==
  /\ \E config \in NspConfigs : nargs = config.apps /\ nfaults = config.faults
  /\ napp = [a \in NspApps |-> [at |-> IF nargs[a].role = "server" THEN "install" ELSE "begin",
                                handle |-> 0, body |-> <<>>, left |-> 0]]
  /\ ntold = [a \in NspApps |-> <<>>] /\ nconn = [a \in NspApps |-> Unread]
  /\ nqueue = <<>> /\ nsvc = NspIdle
  /\ nclasses = {} /\ nservices = <<>> /\ nqueries = <<>> /\ nremoved = {}
  /\ nowed = [a \in NspApps |-> {}] /\ nexcused = [a \in NspApps |-> 0]
-----------------------------------------------------------------------------
(* nspsvc.cpp.  A structure is a record of the pointers that are not NULL. *)

ClassFields == <<"lpServiceClassId", "lpszServiceClassName", "lpClassInfos">>
ServiceFields == <<"lpszServiceInstanceName", "lpServiceClassId", "lpVersion", "lpszComment",
                   "lpNSProviderId", "lpszContext", "lpafpProtocols", "lpszQueryString", "lpcsaBuffer">>

Present(fields, pointers) == SelectSeq(fields, LAMBDA f : f \in pointers)

\* The structure itself, whose pointers tell what follows, then each of it.
Marshall(fields, s) ==
  LET present == Present(fields, DOMAIN s)
  IN <<<<"structure", DOMAIN s>>>> \o [i \in DOMAIN present |-> <<present[i], s[present[i]]>>]

Demarshall(fields, buf) ==
  LET pointers == Head(buf)[2]
      present == Present(fields, pointers)
  IN [f \in pointers |-> buf[1 + CHOOSE i \in DOMAIN present : present[i] = f][2]]

MarshallServiceClassInfo(sc) == Marshall(ClassFields, sc)
DeMarshallServiceClassInfo(buf) == Demarshall(ClassFields, buf)
MarshallServiceInfo(qs) == Marshall(ServiceFields, qs)
DeMarshallServiceInfo(buf) == Demarshall(ServiceFields, buf)

\* readdata: what recv takes, one unit of what has come or all of it.
Taken(stream) == {SubSeq(stream, 1, n) : n \in {1, Len(stream)} \cap DOMAIN stream}
Rest(stream, taken) == SubSeq(stream, Len(taken) + 1, Len(stream))
-----------------------------------------------------------------------------
(* mynsp.cpp: each call is a connection with one request.                  *)

NspAt(a, label) == a \in NspApps /\ napp[a].at = label
Turns(a, label) == napp' = [napp EXCEPT ![a].at = label]
KeepsService == UNCHANGED <<nargs, nsvc, nspTables, nfaults>>

\* MyNspConnect, and the request written; error when there is no service.
MyNspCall(a, request, label, error) ==
  /\ IF nsvc.at = "gone"
       THEN Turns(a, error) /\ UNCHANGED <<nconn, nqueue>>
       ELSE /\ Turns(a, label)
            /\ nconn' = [nconn EXCEPT ![a] = [up |-> request, down |-> <<>>, open |-> 1]]
            /\ nqueue' = Append(nqueue, a)
  /\ UNCHANGED ntold /\ KeepsService

Size(n) == <<"size", n>>
Request(action, buf) == <<<<"action", action>>, Size(Len(buf))>> \o buf
NextRequest(a) == <<<<"action", "LOOKUP_SERVICE_NEXT">>, Size(napp[a].handle)>>

\* What is found in retcode: what was sent, or, when the connection is gone,
\* whatever the uninitialised variable holds.
Retcodes(a) ==
  IF nconn[a].down # <<>> THEN {Head(nconn[a].down)[2]} ELSE IF nconn[a].open = 0 THEN {0, 1} ELSE {}
Answered(a, label) ==
  /\ Turns(a, label) /\ nconn' = [nconn EXCEPT ![a] = Unread]
  /\ UNCHANGED <<nqueue, ntold>> /\ KeepsService
-----------------------------------------------------------------------------
(* rnrcs.cpp as a server: main installs the class and advertises.          *)

ServiceClass == [lpServiceClassId |-> "guid", lpszServiceClassName |-> "class", lpClassInfos |-> "infos"]
Advertised(a) == [lpszServiceInstanceName |-> nargs[a].name, lpServiceClassId |-> "guid",
                  lpNSProviderId |-> "provider", lpszComment |-> "comment", lpcsaBuffer |-> a]

InstallServiceClass(a) ==
  /\ NspAt(a, "install")
  /\ MyNspCall(a, Request("REGISTER_CLASS", MarshallServiceClassInfo(ServiceClass)), "installing", "fail")
\* An error is WSAEALREADY.
Installed(a) == NspAt(a, "installing") /\ Retcodes(a) # {} /\ Answered(a, "bind")

\* The port of -t, taken until the program ends.
BindPort(a) ==
  /\ NspAt(a, "bind")
  /\ Turns(a, IF \E b \in NspApps : napp[b].at \in {"register", "registering"} THEN "fail" ELSE "register")
  /\ UNCHANGED <<nconn, nqueue, ntold>> /\ KeepsService

Advertise(a) ==
  /\ NspAt(a, "register")
  /\ MyNspCall(a, Request("REGISTER_SERVICE", MarshallServiceInfo(Advertised(a))), "registering", "fail")
Registered(a) ==
  /\ NspAt(a, "registering")
  /\ \E retcode \in Retcodes(a) : Answered(a, IF retcode = 0 THEN "fail" ELSE "ok")
-----------------------------------------------------------------------------
(* rnrcs.cpp as a client: LookupService.                                   *)

Restrictions(a) == [lpszServiceInstanceName |-> nargs[a].name, lpServiceClassId |-> "guid",
                    lpNSProviderId |-> "provider", lpafpProtocols |-> "afp"]

LookupBegin(a) ==
  /\ NspAt(a, "begin")
  /\ MyNspCall(a, Request("LOOKUP_SERVICE_BEGIN", MarshallServiceInfo(Restrictions(a))), "beginning", "fail")
Begun(a) ==
  /\ NspAt(a, "beginning")
  /\ \E retcode \in Retcodes(a) :
       /\ napp' = [napp EXCEPT ![a].at = IF retcode = 0 THEN "fail" ELSE "next", ![a].handle = retcode]
       /\ nconn' = [nconn EXCEPT ![a] = Unread]
  /\ UNCHANGED <<nqueue, ntold>> /\ KeepsService

\* When this fails so does WSALookupServiceEnd (539).
LookupNext(a) ==
  NspAt(a, "next") /\ MyNspCall(a, NextRequest(a), "awaiting", "fail")

\* bytes2follow: -1 not found, 0 no more, or the size of the result.
NextFound(a) ==
  /\ NspAt(a, "awaiting")
  /\ \E bytes2follow \in Retcodes(a) :
       /\ napp' = [napp EXCEPT ![a].at = IF bytes2follow \in {-1, 0} THEN "end" ELSE "result",
                                ![a].left = bytes2follow, ![a].body = <<>>]
       /\ nconn' = [nconn EXCEPT ![a].down = IF @ = <<>> THEN @ ELSE Tail(@)]
  /\ UNCHANGED <<nqueue, ntold>> /\ KeepsService

\* The structure, in pieces; a result that never came is garbage ("lost").
Result(a) ==
  /\ NspAt(a, "result")
  /\ \/ \E piece \in Taken(nconn[a].down) :
           LET body == napp[a].body \o piece
               whole == Len(body) >= napp[a].left
           IN /\ nconn' = [nconn EXCEPT ![a].down = Rest(@, piece)]
              /\ napp' = [napp EXCEPT
                   ![a].at = IF ~whole THEN @ ELSE IF nargs[a].delete = 1 THEN "delete" ELSE "next",
                   ![a].body = IF whole THEN <<>> ELSE body]
              /\ ntold' = IF whole THEN [ntold EXCEPT ![a] = Append(@, DeMarshallServiceInfo(body))] ELSE ntold
     \/ /\ nconn[a].down = <<>> /\ nconn[a].open = 0
        /\ Turns(a, "lost") /\ UNCHANGED <<nconn, ntold>>
  /\ UNCHANGED nqueue /\ KeepsService

\* -d: the service just found; what comes of it is not looked at (565).
Delete(a) ==
  /\ NspAt(a, "delete")
  /\ MyNspCall(a, Request("DEREGISTER_SERVICE", MarshallServiceInfo(Last(ntold[a]))), "deleting", "next")
Deleted(a) == NspAt(a, "deleting") /\ Retcodes(a) # {} /\ Answered(a, "next")

\* The request is LOOKUP_SERVICE_NEXT once more (mynsp.cpp 270).
LookupEnd(a) ==
  NspAt(a, "end") /\ MyNspCall(a, NextRequest(a), "ending", "done")
Ended(a) == NspAt(a, "ending") /\ Retcodes(a) # {} /\ Answered(a, "done")

Over == {"ok", "fail", "done", "lost", "killed"}

\* Of what was written a part arrives.
Kill(a) ==
  /\ napp[a].at \notin Over /\ nfaults > 0
  /\ nfaults' = nfaults - 1 /\ Turns(a, "killed")
  /\ \E n \in 0 .. Len(nconn[a].up) :
       nconn' = [nconn EXCEPT ![a] = [up |-> SubSeq(@.up, 1, n), down |-> <<>>, open |-> 0]]
  /\ UNCHANGED <<nargs, nqueue, nsvc, ntold, nspTables>>
-----------------------------------------------------------------------------
(* mynspsvc.cpp: main.                                                     *)

KeepsApps == UNCHANGED <<nargs, napp, ntold>>
Input == nconn[nsvc.app].up

ServiceAccept ==
  /\ nsvc.at = "accept" /\ nqueue # <<>>
  /\ nsvc' = [nsvc EXCEPT !.at = "action", !.app = Head(nqueue)] /\ nqueue' = Tail(nqueue)
  /\ UNCHANGED <<nconn, nspTables, nfaults>> /\ KeepsApps

\* The service returns (409), and the connections that wait are reset.
ServiceAcceptFails ==
  /\ nsvc.at = "accept" /\ nqueue # <<>> /\ nfaults > 0 /\ nfaults' = nfaults - 1
  /\ nsvc' = [nsvc EXCEPT !.at = "gone"] /\ nqueue' = <<>>
  /\ nconn' = [a \in NspApps |-> IF a \in ToSet(nqueue) THEN Unread ELSE nconn[a]]
  /\ UNCHANGED nspTables /\ KeepsApps

ReadAction ==
  /\ nsvc.at = "action" /\ Input # <<>>
  /\ nsvc' = [nsvc EXCEPT !.at = "length", !.action = Head(Input)[2]]
  /\ nconn' = [nconn EXCEPT ![nsvc.app].up = Tail(@)]
  /\ UNCHANGED <<nqueue, nspTables, nfaults>> /\ KeepsApps

\* bytes2follow, or hQuery.
ReadLength ==
  /\ nsvc.at = "length" /\ Input # <<>>
  /\ nsvc' = [nsvc EXCEPT !.at = IF nsvc.action = "LOOKUP_SERVICE_NEXT" THEN "answer" ELSE "data",
                          !.left = Head(Input)[2]]
  /\ nconn' = [nconn EXCEPT ![nsvc.app].up = Tail(@)]
  /\ UNCHANGED <<nqueue, nspTables, nfaults>> /\ KeepsApps

OneMore(got) == Len(got) > nsvc.left                 \* mutant
Complete(got) == Len(got) >= nsvc.left
ReadData ==
  /\ nsvc.at = "data"
  /\ \E piece \in Taken(Input) :
       /\ nconn' = [nconn EXCEPT ![nsvc.app].up = Rest(@, piece)]
       /\ nsvc' = [nsvc EXCEPT !.got = @ \o piece,
                               !.at = IF Complete(nsvc.got \o piece) THEN "answer" ELSE "data"]
  /\ UNCHANGED <<nqueue, nspTables, nfaults>> /\ KeepsApps

\* What readdata did not get is used all the same: the last action, no
\* length, a structure copied into a block too small for it, any handle.
\* Undefined; the model stops.
ReadCut ==
  /\ nsvc.at \in {"action", "length", "data"} /\ Input = <<>> /\ nconn[nsvc.app].open = 0
  /\ nsvc' = [NspIdle EXCEPT !.at = "undefined"]
  /\ UNCHANGED <<nconn, nqueue, nspTables, nfaults>> /\ KeepsApps

\* The reply is written, to whoever is still there, and the socket closed.
Replies(ret, buf) ==
  /\ nconn' = [nconn EXCEPT ![nsvc.app] =
                 [up |-> <<>>, down |-> IF @.open = 1 THEN <<Size(ret)>> \o buf ELSE <<>>, open |-> 0]]
  /\ nsvc' = NspIdle /\ UNCHANGED <<nqueue, nfaults>> /\ KeepsApps
Serving(action) == nsvc.at = "answer" /\ nsvc.action = action

RegisterServiceClass ==
  /\ Serving("REGISTER_CLASS")
  /\ LET guid == DeMarshallServiceClassInfo(nsvc.got).lpServiceClassId
     IN nclasses' = nclasses \cup {guid} /\ Replies(IF guid \in nclasses THEN 0 ELSE 1, <<>>)
  /\ UNCHANGED <<nservices, nqueries, nremoved, nowed, nexcused>>

InstanceName(info) == info.lpszServiceInstanceName
WithName(qs) == {i \in DOMAIN nservices :
  /\ qs.lpServiceClassId \in nclasses /\ InstanceName(nservices[i].info) = InstanceName(qs)}
Wants(query, qs) == InstanceName(query) \in {"*", InstanceName(qs)}

RegisterService ==
  /\ Serving("REGISTER_SERVICE")
  /\ LET si == DeMarshallServiceInfo(nsvc.got)
     IN IF WithName(si) # {}
          THEN Replies(0, <<>>) /\ UNCHANGED <<nservices, nowed>>
          ELSE /\ nservices' = Append(nservices, [info |-> si, by |-> nsvc.app])
               /\ nowed' = [a \in NspApps |->
                    IF \E q \in DOMAIN nqueries : nqueries[q].by = a /\ Wants(nqueries[q].info, si)
                      THEN nowed[a] \cup {nsvc.app} ELSE nowed[a]]
               /\ Replies(1, <<>>)
  /\ UNCHANGED <<nclasses, nqueries, nremoved, nexcused>>

\* The last service takes the place of the one removed.
DeregisterService ==
  /\ Serving("DEREGISTER_SERVICE")
  /\ LET found == WithName(DeMarshallServiceInfo(nsvc.got))
     IN IF found = {}
          THEN Replies(0, <<>>) /\ UNCHANGED <<nservices, nremoved, nowed, nexcused>>
          ELSE LET i == CHOOSE i \in found : \A j \in found : i <= j
               IN /\ nservices' = Front([nservices EXCEPT ![i] = Last(nservices)])
                  /\ nremoved' = nremoved \cup {nservices[i].by}
                  /\ nowed' = [a \in NspApps |-> nowed[a] \ {nservices[i].by}]
                  /\ nexcused' = [a \in NspApps |-> nexcused[a] + 1]
                  /\ Replies(1, <<>>)
  /\ UNCHANGED <<nclasses, nqueries>>

\* The handle is the number of the query; nobody's query is ever deleted.
BeginQuery ==
  /\ Serving("LOOKUP_SERVICE_BEGIN")
  /\ LET query == DeMarshallServiceInfo(nsvc.got)
     IN /\ nqueries' = Append(nqueries, [info |-> query, by |-> nsvc.app, iIndex |-> 0])
        /\ nowed' = [nowed EXCEPT ![nsvc.app] =
                       {v.by : v \in {w \in ToSet(nservices) : Wants(query, w.info)}}]
        /\ nexcused' = [nexcused EXCEPT ![nsvc.app] = 0]
  /\ Replies(Len(nqueries'), <<>>)
  /\ UNCHANGED <<nclasses, nservices, nremoved>>

\* PerformQuery; FindQuery(hQuery) is the handle itself.  With its last
\* answer a query is nobody's: what comes later is not owed.
NextOfQuery ==
  /\ Serving("LOOKUP_SERVICE_NEXT")
  /\ LET q == nsvc.left
         found == {i \in nqueries[q].iIndex + 1 .. Len(nservices) :
                     Wants(nqueries[q].info, nservices[i].info)}
     IN IF found = {}
          THEN /\ Replies(IF nqueries[q].iIndex = 0 THEN -1 ELSE 0, <<>>)
               /\ nqueries' = [nqueries EXCEPT ![q].by = 0] /\ UNCHANGED nowed
          ELSE LET i == CHOOSE i \in found : \A j \in found : i <= j
                   buf == MarshallServiceInfo(nservices[i].info)
               IN /\ nqueries' = [nqueries EXCEPT ![q].iIndex = i]
                  /\ nowed' = [nowed EXCEPT ![nsvc.app] = @ \ {nservices[i].by}]
                  /\ Replies(Len(buf), buf)
  /\ UNCHANGED <<nclasses, nservices, nremoved, nexcused>>
-----------------------------------------------------------------------------
Application(a) ==
  \/ InstallServiceClass(a) \/ Installed(a) \/ BindPort(a) \/ Advertise(a) \/ Registered(a)
  \/ LookupBegin(a) \/ Begun(a) \/ LookupNext(a) \/ NextFound(a) \/ Result(a)
  \/ Delete(a) \/ Deleted(a) \/ LookupEnd(a) \/ Ended(a)

NspService ==
  \/ ServiceAccept \/ ReadAction \/ ReadLength \/ ReadData \/ ReadCut
  \/ RegisterServiceClass \/ RegisterService \/ DeregisterService \/ BeginQuery \/ NextOfQuery

NspApplication(a) == nsvc.at # "undefined" /\ a \in NspApps /\ Application(a)

NspUp == nsvc.at \notin {"gone", "undefined"}
NspNext ==
  /\ nsvc.at # "undefined"
  /\ NspService \/ ServiceAcceptFails \/ \E a \in NspApps : Application(a) \/ Kill(a)
-----------------------------------------------------------------------------
\* A server told that it is registered is, under its name alone and with all
\* it advertised, until somebody removes it.
ServersRegistered ==
  NspUp =>
    /\ \A a \in NspApps : napp[a].at = "ok" =>
         \/ a \in nremoved
         \/ \E i \in DOMAIN nservices : nservices[i] = [info |-> Advertised(a), by |-> a]
    /\ \A i, j \in DOMAIN nservices :
         InstanceName(nservices[i].info) = InstanceName(nservices[j].info) => i = j

\* A client is told of services as they were advertised, of each once, and
\* has at the end missed at most one for every service removed meanwhile, its
\* own -d included: the last service takes the place of the one it deletes.
ClientsTold ==
  \A a \in NspApps :
    /\ IsInjective(ntold[a])
    /\ \A i \in DOMAIN ntold[a] :
         \E b \in NspApps : /\ ntold[a][i] = Advertised(b) /\ nargs[b].role = "server"
                            /\ Wants(Restrictions(a), Advertised(b))
    /\ NspUp /\ napp[a].at = "end" => Cardinality(nowed[a]) <= nexcused[a]

NspRight == ServersRegistered /\ ClientsTold

\* Every application comes to its end, whether the service is there or gone.
NspEnds == nsvc.at = "undefined" \/ \A a \in NspApps : napp[a].at \in Over
=============================================================================
