---------------------------- MODULE NameService ----------------------------
(***************************************************************************)
(* Samples/chapter12/NSP: a name space provider.  mynspsvc.cpp is the      *)
(* service, one thread that answers one connection after the other, and    *)
(* mynsp.cpp is the provider DLL, which turns every call of an application *)
(* into one connection: one request, one reply.  A call is therefore one   *)
(* action here; the interleaving is that of the calls of several           *)
(* applications, whose lookups are open at the same time.                  *)
(*                                                                         *)
(* Indices count from 1 and iIndex = 0 is the code's -1.                   *)
(***************************************************************************)
EXTENDS Integers, SequencesExt

CONSTANTS
  Classes,               \* the service class GUIDs applications use
  Names,                 \* the service names
  Queries,               \* the names lookups ask for; "*" asks for all
  Lookups,               \* the lookups applications begin
  MAX_SERVICE_CLASSES, MAX_SERVICES, MAX_QUERIES,
  MaxIds,                \* bound of the model: services ever registered
  Faults                 \* small: an application's buffer is too small;
                         \* info: one calls WSAGetServiceClassInfo

ASSUME NameServiceAssumption ==
  /\ {MAX_SERVICE_CLASSES, MAX_SERVICES, MAX_QUERIES, MaxIds} \subseteq Nat \ {0}
  /\ Faults \subseteq {"small", "info"}
  /\ "*" \notin Names /\ Queries \subseteq Names \cup {"*"}

VARIABLES
  ServiceClasses,        \* ServiceClasses[0 .. dwNumServiceClasses - 1]
  Services,              \* Services[0 .. dwNumServices - 1]
  QueryInfo,             \* QueryInfo[0 .. dwNumQueries - 1]
  dwHandleValue,
  up,                    \* "up", "crashed", or "lost" after undefined behaviour
  nextId,                \* tells the services registered apart
  status, hLookup,       \* each lookup's stage, and the handle it was given
  results,               \* what WSALookupServiceNext returned to it
  owed,                  \* the matching services it has not been told of
  excused,               \* how many of these it may miss
  guessed                \* handles replied from an uninitialised variable

serviceVars == <<ServiceClasses, QueryInfo, dwHandleValue>>
lookupVars  == <<status, hLookup, results, owed, excused, guessed>>
vars == <<serviceVars, Services, up, nextId, lookupVars>>

Init ==
  /\ ServiceClasses = <<>> /\ Services = <<>> /\ QueryInfo = <<>>
  /\ dwHandleValue = 0 /\ up = "up" /\ nextId = 1
  /\ status = [l \in Lookups |-> "none"]
  /\ hLookup = [l \in Lookups |-> 0]
  /\ results = [l \in Lookups |-> <<>>]
  /\ owed = [l \in Lookups |-> {}]
  /\ excused = [l \in Lookups |-> 0]
  /\ guessed = {}

\* FindQuery: the positions with this handle, at most one of them.
FindQuery(h) == {q \in DOMAIN QueryInfo : QueryInfo[q].hHandle = h}

Known(c) == \E i \in DOMAIN ServiceClasses : ServiceClasses[i] = c
Matches(query, name) == query = "*" \/ query = name
Open(l) == status[l] = "open"
-----------------------------------------------------------------------------
(* Service classes. *)

\* The entry behind the last one of the array is written: undefined.
Overrun == up' = "lost"

\* A class that is there already is answered by an error and changes
\* nothing.  The test at 450 is with MAX_SERVICES, so that the array
\* overflows before it.
InstallServiceClass(c) ==
  /\ ~Known(c)
  /\ IF Len(ServiceClasses) = MAX_SERVICE_CLASSES
       THEN Overrun /\ UNCHANGED ServiceClasses
       ELSE ServiceClasses' = Append(ServiceClasses, c) /\ UNCHANGED up
  /\ UNCHANGED <<Services, QueryInfo, dwHandleValue, nextId, lookupVars>>

\* The provider sends its own GUID, which is no class, and the service
\* marshals the class it has not found: the process ends, and with it all
\* that was registered.
GetServiceClassInfo ==
  /\ "info" \in Faults
  /\ up' = "crashed"
  /\ ServiceClasses' = <<>> /\ Services' = <<>> /\ QueryInfo' = <<>> /\ dwHandleValue' = 0
  /\ UNCHANGED <<nextId, lookupVars>>
-----------------------------------------------------------------------------
(* Services. *)

Named(name) == {i \in DOMAIN Services : Services[i].name = name}

LookupServiceAny(c, name) == FALSE                    \* mutant: no search
LookupService(c, name) == Known(c) /\ Named(name) # {}

Register(c, name) ==
  /\ ~LookupService(c, name) /\ nextId <= MaxIds
  /\ nextId' = nextId + 1
  /\ IF Len(Services) = MAX_SERVICES
       THEN Overrun /\ UNCHANGED <<Services, owed>>
       ELSE /\ Services' = Append(Services, [id |-> nextId, name |-> name, known |-> Known(c)])
            /\ owed' = [l \in Lookups |->
                 IF Open(l) /\ \E q \in FindQuery(hLookup[l]) : Matches(QueryInfo[q].Query, name)
                   THEN owed[l] \cup {nextId} ELSE owed[l]]
            /\ UNCHANGED up
  /\ UNCHANGED <<serviceVars, status, hLookup, results, excused, guessed>>

\* The last service takes the place of the one removed.
Vacate(i) == SubSeq([Services EXCEPT ![i] = Services[Len(Services)]], 1, Len(Services) - 1)

Deregister(c, name) ==
  /\ Known(c) /\ Named(name) # {}
  /\ LET i == CHOOSE i \in Named(name) : \A j \in Named(name) : i <= j
     IN  /\ Services' = Vacate(i)
         /\ owed' = [l \in Lookups |-> owed[l] \ {Services[i].id}]
         /\ excused' = [l \in Lookups |-> IF Open(l) THEN excused[l] + 1 ELSE excused[l]]
  /\ UNCHANGED <<serviceVars, up, nextId, status, hLookup, results, guessed>>
-----------------------------------------------------------------------------
(* Lookups. *)

NextHandle == dwHandleValue + 1

HasRoomForOneMore == Len(QueryInfo) <= MAX_QUERIES    \* mutant
HasRoom == Len(QueryInfo) < MAX_QUERIES

\* RegisterQuery.  When the table is full the reply is whatever handle the
\* uninitialised variable holds; 0 is an error to the provider.
RegisterQuery(l, query) ==
  IF HasRoom
    THEN /\ dwHandleValue' = NextHandle
         /\ QueryInfo' = Append(QueryInfo, [hHandle |-> dwHandleValue', iIndex |-> 0, Query |-> query])
         /\ hLookup' = [hLookup EXCEPT ![l] = dwHandleValue']
         /\ UNCHANGED guessed
    ELSE /\ \E h \in 0 .. dwHandleValue + 1 :
              /\ hLookup' = [hLookup EXCEPT ![l] = h]
              /\ guessed' = guessed \cup ({h} \ {0})
         /\ UNCHANGED <<dwHandleValue, QueryInfo>>

LookupServiceBegin(l, query) ==
  /\ status[l] = "none"
  /\ RegisterQuery(l, query)
  /\ IF hLookup'[l] = 0
       THEN UNCHANGED <<status, owed>>
       ELSE /\ status' = [status EXCEPT ![l] = "open"]
            /\ owed' = [owed EXCEPT ![l] = {v.id : v \in {w \in ToSet(Services) : Matches(query, w.name)}}]
  /\ UNCHANGED <<ServiceClasses, Services, up, nextId, results, excused>>

FromHere(q) == QueryInfo[q].iIndex                    \* mutant: returns it again
Skips(q) == QueryInfo[q].iIndex + 2                   \* mutant: skips one
FirstIndex(q) == QueryInfo[q].iIndex + 1

Found(q) == {i \in FirstIndex(q) .. Len(Services) :
               i > 0 /\ Matches(QueryInfo[q].Query, Services[i].name)}

\* PerformQuery: the next match, whose position becomes iIndex; 0 if none.
PerformQuery(q) ==
  IF Found(q) = {} THEN 0 ELSE CHOOSE i \in Found(q) : \A j \in Found(q) : i <= j
Advance(q) ==
  QueryInfo' = IF PerformQuery(q) = 0 THEN QueryInfo
               ELSE [QueryInfo EXCEPT ![q].iIndex = PerformQuery(q)]

\* An unknown handle makes PerformQuery use QueryInfo[-1].
UnknownHandle(l) ==
  /\ status[l] \in {"open", "done"} /\ FindQuery(hLookup[l]) = {}
  /\ up' = "lost"
  /\ UNCHANGED <<serviceVars, Services, nextId, lookupVars>>

LookupServiceNext(l) ==
  /\ Open(l)
  /\ \E q \in FindQuery(hLookup[l]) :
       /\ Advance(q)
       /\ LET i == PerformQuery(q) IN
          \/ /\ i = 0                                 \* WSA_E_NO_MORE, WSASERVICE_NOT_FOUND
             /\ status' = [status EXCEPT ![l] = "done"]
             /\ UNCHANGED <<results, owed, excused>>
          \/ /\ i > 0
             /\ results' = [results EXCEPT ![l] = Append(@, Services[i].id)]
             /\ owed' = [owed EXCEPT ![l] = @ \ {Services[i].id}]
             /\ UNCHANGED <<status, excused>>
          \/ /\ i > 0 /\ "small" \in Faults           \* WSAEFAULT; the result is gone
             /\ excused' = [excused EXCEPT ![l] = @ + 1]
             /\ UNCHANGED <<status, results, owed>>
  /\ UNCHANGED <<ServiceClasses, dwHandleValue, Services, up, nextId, hLookup, guessed>>

\* The request sent is LOOKUP_SERVICE_NEXT: the service advances the query,
\* keeps it, and what it replies is taken for the status.
LookupServiceEnd(l) ==
  /\ status[l] \in {"open", "done"}
  /\ \E q \in FindQuery(hLookup[l]) : Advance(q)
  /\ status' = [status EXCEPT ![l] = "none"]
  /\ hLookup' = [hLookup EXCEPT ![l] = 0]
  /\ results' = [results EXCEPT ![l] = <<>>]
  /\ owed' = [owed EXCEPT ![l] = {}] /\ excused' = [excused EXCEPT ![l] = 0]
  /\ UNCHANGED <<ServiceClasses, dwHandleValue, Services, up, nextId, guessed>>
-----------------------------------------------------------------------------
Next ==
  /\ up = "up"
  /\ \/ GetServiceClassInfo
     \/ \E c \in Classes : InstallServiceClass(c)
     \/ \E c \in Classes, name \in Names : Register(c, name) \/ Deregister(c, name)
     \/ \E l \in Lookups :
          \/ \E query \in Queries : LookupServiceBegin(l, query)
          \/ LookupServiceNext(l) \/ LookupServiceEnd(l) \/ UnknownHandle(l)

Spec == Init /\ [][Next]_vars
-----------------------------------------------------------------------------
(* Properties. *)

\* Every variable has its type and every table its size.
TypeOK ==
  /\ ServiceClasses \in BoundedSeq(Classes, MAX_SERVICE_CLASSES)
  /\ Services \in Seq([id : 1 .. MaxIds, name : Names, known : BOOLEAN])
  /\ Len(Services) <= MAX_SERVICES
  /\ QueryInfo \in Seq([hHandle : Nat \ {0}, iIndex : 0 .. MAX_SERVICES, Query : Queries])
  /\ Len(QueryInfo) <= MAX_QUERIES
  /\ dwHandleValue \in Nat
  /\ up \in {"up", "crashed", "lost"}
  /\ nextId \in 1 .. MaxIds + 1
  /\ status \in [Lookups -> {"none", "open", "done"}]
  /\ hLookup \in [Lookups -> Nat]
  /\ results \in [Lookups -> Seq(1 .. MaxIds)]
  /\ owed \in [Lookups -> SUBSET (1 .. MaxIds)]
  /\ excused \in [Lookups -> Nat]
  /\ guessed \subseteq Nat

\* Two services have the same name only if the later one was registered
\* before its class (LookupService, 155-157, finds nothing then).
NamesUnique ==
  \A i, j \in DOMAIN Services :
    Services[i].name = Services[j].name /\ Services[i].id < Services[j].id
      => ~Services[j].known

\* No lookup is told of a service twice, although services move in the
\* array while it is open (200-204) and others may share its handle.
NoRepeat == \A l \in Lookups : IsInjective(results[l])

(* A lookup that has reached the end with a handle of its own was told of  *)
(* every matching service there was until then, but for one at most for    *)
(* every service removed meanwhile, whose place another took behind iIndex *)
(* (203), and for the results its buffer was too small for (229).          *)
ReturnedButForRemovals ==
  \A l \in Lookups : status[l] = "done" /\ hLookup[l] \notin guessed =>
    Cardinality(owed[l]) <= excused[l]
=============================================================================
