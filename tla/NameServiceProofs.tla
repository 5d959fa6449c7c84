-------------------------- MODULE NameServiceProofs --------------------------
(***************************************************************************)
(* Theorems about NameService, for any number of classes, names, lookups   *)
(* and registered services, tables of any size, and every set of faults.   *)
(***************************************************************************)
EXTENDS NameService, FiniteSetTheorems, SequenceTheorems, WellFoundedInduction, TLAPS

USE DEF Open, Overrun, serviceVars, lookupVars

Service == [id : 1 .. MaxIds, name : Names, known : BOOLEAN]
Query == [hHandle : Nat \ {0}, iIndex : 0 .. MAX_SERVICES, Query : Queries]

\* Services are told apart by ids that were given out.
IdsOK ==
  /\ \A i \in 1 .. Len(Services) : Services[i].id < nextId
  /\ \A i, j \in 1 .. Len(Services) : Services[i].id = Services[j].id => i = j

\* Queries are told apart by handles that were given out.
HandlesOK ==
  /\ \A q \in 1 .. Len(QueryInfo) : QueryInfo[q].hHandle <= dwHandleValue
  /\ \A p, q \in 1 .. Len(QueryInfo) : QueryInfo[p].hHandle = QueryInfo[q].hHandle => p = q

\* The services behind iIndex of q, where PerformQuery goes on.
Ahead(q) == {i \in 1 .. Len(Services) : i > QueryInfo[q].iIndex}

(* A lookup was told of services registered before, of none twice, of none *)
(* that its query has still ahead, and of none without a query.            *)
Told(l) ==
  /\ \A k \in 1 .. Len(results[l]) : results[l][k] < nextId
  /\ \A k, m \in 1 .. Len(results[l]) : results[l][k] = results[l][m] => k = m
  /\ \A q \in FindQuery(hLookup[l]), k \in 1 .. Len(results[l]) :
       \A i \in Ahead(q) : results[l][k] # Services[i].id
  /\ up = "up" /\ FindQuery(hLookup[l]) = {} => results[l] = <<>>

\* A lookup that is not open has no handle, and two share one only if one
\* of them guessed it.
Handed(l) ==
  /\ status[l] = "none" => hLookup[l] = 0 /\ results[l] = <<>>
  /\ hLookup[l] \in guessed \/ hLookup[l] <= dwHandleValue \/ up # "up"
  /\ \A m \in Lookups : m # l /\ hLookup[m] = hLookup[l] /\ hLookup[l] # 0
       => hLookup[l] \in guessed

\* What a lookup is owed and its query has left behind, and the places
\* behind iIndex where a service registered later is left behind as well.
Missed(l, q) == {d \in owed[l] : \A i \in Ahead(q) : Services[i].id # d}
Gap(q) == IF QueryInfo[q].iIndex > Len(Services) THEN QueryInfo[q].iIndex - Len(Services) ELSE 0

(* A lookup is owed services that there are and that match.  Those left    *)
(* behind are excused, until the end and at the end.                       *)
OwedOK(l) ==
  /\ up = "up" => \A d \in owed[l] : \E i \in 1 .. Len(Services) :
       /\ Services[i].id = d
       /\ \A q \in FindQuery(hLookup[l]) : hLookup[l] \notin guessed =>
            Matches(QueryInfo[q].Query, Services[i].name)
  /\ up = "up" /\ status[l] = "open" /\ hLookup[l] \notin guessed =>
       \A q \in FindQuery(hLookup[l]) : Cardinality(Missed(l, q)) + Gap(q) <= excused[l]
  /\ status[l] = "done" /\ hLookup[l] \notin guessed =>
       Cardinality(owed[l]) <= excused[l]

Inv ==
  /\ TypeOK /\ IdsOK /\ NamesUnique /\ HandlesOK
  /\ \A l \in Lookups : Told(l) /\ Handed(l) /\ OwedOK(l)
-----------------------------------------------------------------------------
\* A set of numbers has a smallest one.
LEMMA SmallestOf ==
  ASSUME NEW T, T \subseteq Nat, T # {}
  PROVE  \E i \in T : \A j \in T : i <= j
<1> DEFINE Less == OpToRel(<, Nat)
<1>1. \E i \in T : \A j \in T : ~ (<<j, i>> \in Less)
  BY NatLessThanWellFounded, WFMin
<1>2. \A i, j \in Nat : j < i => <<j, i>> \in Less
  BY DEF OpToRel
<1> HIDE DEF Less
<1>3. PICK i \in T : \A j \in T : ~ (<<j, i>> \in Less)
  BY <1>1
<1>4. ASSUME NEW j \in T
      PROVE  i <= j
  <2>1. i \in Nat /\ j \in Nat
    OBVIOUS
  <2>2. ~ (j < i)
    BY <1>2, <1>3, <2>1, Zenon
  <2> QED
    BY <2>1, <2>2
<1> QED
  BY <1>4

\* What Deregister leaves: one service less, in whose place is the last.
LEMMA VacateProperties ==
  ASSUME TypeOK, NEW i \in 1 .. Len(Services)
  PROVE  /\ Vacate(i) \in Seq(Service) /\ Len(Vacate(i)) = Len(Services) - 1
         /\ \A k \in 1 .. Len(Vacate(i)) :
              Vacate(i)[k] = IF k = i THEN Services[Len(Services)] ELSE Services[k]
<1> DEFINE n == Len(Services)
           moved == [Services EXCEPT ![i] = Services[n]]
<1>1. Services \in Seq(Service) /\ n \in Nat \ {0} /\ n - 1 <= n
  BY DEF TypeOK, Service
<1>2. moved \in Seq(Service) /\ Len(moved) = n
  BY <1>1, ExceptSeq
<1>3. \A k \in 1 .. n : moved[k] = IF k = i THEN Services[n] ELSE Services[k]
  BY <1>1
<1>4. /\ SubSeq(moved, 1, n - 1) \in Seq(Service) /\ Len(SubSeq(moved, 1, n - 1)) = n - 1
      /\ \A k \in 1 .. n - 1 : SubSeq(moved, 1, n - 1)[k] = moved[k]
  BY <1>1, <1>2, SubSeqProperties
<1> QED
  BY <1>1, <1>3, <1>4 DEF Vacate

\* The tables and what is in them.
LEMMA TableType ==
  ASSUME TypeOK
  PROVE  /\ Services \in Seq(Service) /\ Len(Services) \in 0 .. MAX_SERVICES
         /\ \A i \in 1 .. Len(Services) : Services[i] \in Service /\ Services[i].id \in 1 .. MaxIds
         /\ QueryInfo \in Seq(Query) /\ Len(QueryInfo) \in Nat
         /\ \A q \in 1 .. Len(QueryInfo) :
              /\ QueryInfo[q] \in Query /\ QueryInfo[q].hHandle \in Nat \ {0}
              /\ QueryInfo[q].iIndex \in 0 .. MAX_SERVICES
         /\ DOMAIN Services = 1 .. Len(Services) /\ DOMAIN QueryInfo = 1 .. Len(QueryInfo)
<1>1. Services \in Seq(Service) /\ QueryInfo \in Seq(Query) /\ Len(Services) <= MAX_SERVICES
  BY DEF TypeOK, Service, Query
<1>2. /\ \A v \in Service : v.id \in 1 .. MaxIds
      /\ \A v \in Query : v.hHandle \in Nat \ {0} /\ v.iIndex \in 0 .. MAX_SERVICES
  BY DEF Service, Query
<1> QED
  BY <1>1, <1>2, NameServiceAssumption

\* What is kept for each lookup.
LEMMA LookupType ==
  ASSUME TypeOK, NEW l \in Lookups
  PROVE  /\ status[l] \in {"none", "open", "done"} /\ hLookup[l] \in Nat
         /\ results[l] \in Seq(1 .. MaxIds) /\ Len(results[l]) \in Nat
         /\ \A k \in 1 .. Len(results[l]) : results[l][k] \in 1 .. MaxIds
         /\ owed[l] \subseteq 1 .. MaxIds /\ excused[l] \in Nat
<1>1. /\ status \in [Lookups -> {"none", "open", "done"}] /\ hLookup \in [Lookups -> Nat]
      /\ results \in [Lookups -> Seq(1 .. MaxIds)]
      /\ owed \in [Lookups -> SUBSET (1 .. MaxIds)] /\ excused \in [Lookups -> Nat]
  BY DEF TypeOK
<1>2. results[l] \in Seq(1 .. MaxIds)
  BY <1>1
<1>3. Len(results[l]) \in Nat /\ \A k \in 1 .. Len(results[l]) : results[l][k] \in 1 .. MaxIds
  <2> DEFINE r == results[l]
             S == 1 .. MaxIds
  <2>1. r \in Seq(S)
    BY <1>2
  <2> HIDE DEF r, S
  <2>2. Len(r) \in Nat /\ \A k \in 1 .. Len(r) : r[k] \in S
    BY <2>1
  <2> QED
    BY <2>2 DEF r, S
<1>4. owed[l] \subseteq 1 .. MaxIds
  BY <1>1
<1> QED
  BY <1>1, <1>2, <1>3, <1>4

\* FindQuery finds positions of the table.
LEMMA QueryType ==
  ASSUME TypeOK, NEW h, NEW q \in FindQuery(h)
  PROVE  /\ q \in 1 .. Len(QueryInfo) /\ QueryInfo[q].hHandle = h
         /\ QueryInfo[q] \in Query /\ QueryInfo[q].iIndex \in 0 .. MAX_SERVICES
BY TableType DEF FindQuery

\* PerformQuery finds the first match among the services ahead.
LEMMA PerformQueryProperties ==
  ASSUME TypeOK, NEW q \in 1 .. Len(QueryInfo)
  PROVE  /\ PerformQuery(q) = 0 => Found(q) = {}
         /\ PerformQuery(q) # 0 => /\ PerformQuery(q) \in Ahead(q)
                                   /\ PerformQuery(q) \in 1 .. MAX_SERVICES
                                   /\ Matches(QueryInfo[q].Query, Services[PerformQuery(q)].name)
                                   /\ \A j \in Found(q) : PerformQuery(q) <= j
         /\ Found(q) = {i \in Ahead(q) : Matches(QueryInfo[q].Query, Services[i].name)}
<1>1. Len(Services) \in 0 .. MAX_SERVICES /\ QueryInfo[q].iIndex \in Nat
  BY TableType
<1>2. Found(q) = {i \in Ahead(q) : Matches(QueryInfo[q].Query, Services[i].name)}
  BY <1>1 DEF Found, Ahead, FirstIndex
<1>3. Found(q) \subseteq 1 .. MAX_SERVICES
  BY <1>1, <1>2, NameServiceAssumption DEF Ahead
<1>4. Found(q) # {} => PerformQuery(q) \in Found(q) /\ \A j \in Found(q) : PerformQuery(q) <= j
  <2>1. Found(q) # {} => \E i \in Found(q) : \A j \in Found(q) : i <= j
    BY <1>3, SmallestOf
  <2> QED
    BY <2>1, Zenon DEF PerformQuery
<1>5. PerformQuery(q) = 0 => Found(q) = {}
  BY <1>3, <1>4
<1>6. PerformQuery(q) # 0 => PerformQuery(q) \in Found(q) /\ \A j \in Found(q) : PerformQuery(q) <= j
  BY <1>4 DEF PerformQuery
<1> QED
  BY <1>2, <1>3, <1>5, <1>6
-----------------------------------------------------------------------------
\* A table of at most n entries.
LEMMA BoundedSeqProperties ==
  ASSUME NEW S, NEW n \in Nat
  PROVE  \A t : t \in BoundedSeq(S, n) <=> t \in Seq(S) /\ Len(t) <= n
<1>1. ASSUME NEW t \in BoundedSeq(S, n)
      PROVE  t \in Seq(S) /\ Len(t) <= n
  <2>1. PICK m \in 0 .. n : t \in [1 .. m -> S]
    BY DEF BoundedSeq, SeqOf
  <2> QED
    BY <2>1
<1>2. ASSUME NEW t \in Seq(S), Len(t) <= n
      PROVE  t \in BoundedSeq(S, n)
  <2>1. t \in [1 .. Len(t) -> S] /\ Len(t) \in 0 .. n
    BY <1>2
  <2>2. t \in UNION {[1 .. m -> S] : m \in 0 .. n}
    BY <2>1
  <2> QED
    BY <2>2 DEF BoundedSeq, SeqOf
<1> QED
  BY <1>1, <1>2

\* Counting the services missed.
LEMMA OwedFinite == ASSUME TypeOK, NEW l \in Lookups
                    PROVE  IsFiniteSet(owed[l]) /\ owed[l] \subseteq 1 .. MaxIds
<1>1. owed[l] \subseteq 1 .. MaxIds
  BY DEF TypeOK
<1>2. IsFiniteSet(1 .. MaxIds)
  BY NameServiceAssumption, FS_Interval
<1> QED
  BY <1>1, <1>2, FS_Subset

LEMMA AtMostOneMore ==
  ASSUME NEW S, IsFiniteSet(S), NEW x, NEW T, T \subseteq S \cup {x}
  PROVE  /\ Cardinality(S) \in Nat /\ Cardinality(T) \in Nat
         /\ Cardinality(T) <= Cardinality(S) + 1
         /\ T \subseteq S => Cardinality(T) <= Cardinality(S)
<1>1. /\ IsFiniteSet(S \cup {x}) /\ Cardinality(S) \in Nat
      /\ Cardinality(S \cup {x}) = Cardinality(S) \/ Cardinality(S \cup {x}) = Cardinality(S) + 1
  BY FS_AddElement, FS_CardinalityType
<1>2. IsFiniteSet(T) /\ Cardinality(T) <= Cardinality(S \cup {x})
  BY <1>1, FS_Subset
<1>3. T \subseteq S => Cardinality(T) <= Cardinality(S)
  BY FS_Subset
<1>4. Cardinality(T) \in Nat
  BY <1>2, FS_CardinalityType
<1> QED
  BY <1>1, <1>2, <1>3, <1>4

\* What a query that goes on leaves as it is.
LEMMA AdvanceProperties ==
  ASSUME TypeOK, NEW q \in 1 .. Len(QueryInfo), Advance(q), UNCHANGED Services
  PROVE  /\ QueryInfo' \in Seq(Query) /\ Len(QueryInfo') = Len(QueryInfo)
         /\ \A p \in 1 .. Len(QueryInfo) :
              /\ QueryInfo'[p].hHandle = QueryInfo[p].hHandle
              /\ QueryInfo'[p].Query = QueryInfo[p].Query
              /\ QueryInfo'[p].iIndex =
                   IF p = q /\ PerformQuery(q) # 0 THEN PerformQuery(q) ELSE QueryInfo[p].iIndex
              /\ Ahead(p)' \subseteq Ahead(p)
         /\ \A h : FindQuery(h)' = FindQuery(h)
<1> DEFINE i == PerformQuery(q)
<1>1. /\ QueryInfo \in Seq(Query) /\ Len(QueryInfo) \in Nat /\ DOMAIN QueryInfo = 1 .. Len(QueryInfo)
      /\ \A p \in 1 .. Len(QueryInfo) :
           QueryInfo[p] \in Query /\ QueryInfo[p].iIndex \in 0 .. MAX_SERVICES
      /\ Len(Services) \in Nat
  BY TableType
<1>2. i # 0 => i \in 1 .. MAX_SERVICES /\ i \in Ahead(q)
  BY PerformQueryProperties
<1>3. CASE i = 0
  <2>1. QueryInfo' = QueryInfo
    BY <1>3 DEF Advance
  <2> QED
    BY <1>1, <1>3, <2>1 DEF Ahead, FindQuery
<1>4. CASE i # 0
  <2> DEFINE e == [QueryInfo[q] EXCEPT !.iIndex = i]
  <2>1. e \in Query
    BY <1>1, <1>2, <1>4 DEF Query
  <2>2. QueryInfo' = [QueryInfo EXCEPT ![q] = e]
    BY <1>4 DEF Advance
  <2>3. QueryInfo' \in Seq(Query) /\ Len(QueryInfo') = Len(QueryInfo)
    BY <1>1, <2>1, <2>2, ExceptSeq
  <2>4. /\ \A p \in 1 .. Len(QueryInfo) : p # q => QueryInfo'[p] = QueryInfo[p]
        /\ QueryInfo'[q] = e
    BY <1>1, <2>2
  <2>5. e.hHandle = QueryInfo[q].hHandle /\ e.Query = QueryInfo[q].Query /\ e.iIndex = i
    BY <1>1 DEF Query
  <2>6. \A p \in 1 .. Len(QueryInfo) :
          /\ QueryInfo'[p].hHandle = QueryInfo[p].hHandle
          /\ QueryInfo'[p].Query = QueryInfo[p].Query
          /\ QueryInfo'[p].iIndex = IF p = q THEN i ELSE QueryInfo[p].iIndex
    BY <2>4, <2>5
  <2>7. \A p \in 1 .. Len(QueryInfo) : Ahead(p)' \subseteq Ahead(p)
    BY <1>1, <1>2, <1>4, <2>6 DEF Ahead
  <2>8. \A h : FindQuery(h)' = FindQuery(h)
    <3>1. DOMAIN QueryInfo' = DOMAIN QueryInfo
      BY <1>1, <2>3
    <3> QED
      BY <1>1, <2>6, <3>1 DEF FindQuery
  <2> QED
    BY <1>4, <2>3, <2>6, <2>7, <2>8
<1> QED
  BY <1>3, <1>4

LEMMA InvGetServiceClassInfo ==
  ASSUME Inv, up = "up", GetServiceClassInfo
  PROVE  Inv'
<1> USE DEF Inv, GetServiceClassInfo
<1>1. TypeOK'
  <2>1. <<>> \in BoundedSeq(Classes, MAX_SERVICE_CLASSES)
    <3>1. MAX_SERVICE_CLASSES \in Nat /\ <<>> \in Seq(Classes) /\ Len(<<>>) = 0
      BY NameServiceAssumption, EmptySeq
    <3>2. Len(<<>>) <= MAX_SERVICE_CLASSES
      BY <3>1
    <3> QED
      BY <3>1, <3>2, BoundedSeqProperties, Zenon
  <2> QED
    BY <2>1, NameServiceAssumption DEF TypeOK
<1>2. IdsOK' /\ HandlesOK'
  BY DEF IdsOK, HandlesOK
<1>3. NamesUnique'
  BY DEF NamesUnique
<1>4. ASSUME NEW l \in Lookups
      PROVE  Told(l)' /\ Handed(l)' /\ OwedOK(l)'
  <2>1. Told(l)'
    BY DEF Told, FindQuery, Ahead
  <2>2. Handed(l)'
    BY DEF Handed
  <2>3. OwedOK(l)'
    BY DEF OwedOK, FindQuery, Missed, Gap, Ahead
  <2> QED
    BY <2>1, <2>2, <2>3
<1> QED
  BY <1>1, <1>2, <1>3, <1>4

LEMMA InvInstallServiceClass ==
  ASSUME Inv, up = "up", NEW c \in Classes, InstallServiceClass(c)
  PROVE  Inv'
<1> USE DEF Inv, InstallServiceClass
<1>1. TypeOK'
  <2>1. Len(ServiceClasses) # MAX_SERVICE_CLASSES
          => Append(ServiceClasses, c) \in BoundedSeq(Classes, MAX_SERVICE_CLASSES)
    <3>1. ServiceClasses \in Seq(Classes) /\ Len(ServiceClasses) <= MAX_SERVICE_CLASSES
      BY BoundedSeqProperties, NameServiceAssumption DEF TypeOK
    <3>2. /\ Append(ServiceClasses, c) \in Seq(Classes)
          /\ Len(Append(ServiceClasses, c)) = Len(ServiceClasses) + 1
      BY <3>1
    <3>3. MAX_SERVICE_CLASSES \in Nat
      BY NameServiceAssumption
    <3>4. Len(Append(ServiceClasses, c)) <= MAX_SERVICE_CLASSES
             \/ Len(ServiceClasses) = MAX_SERVICE_CLASSES
      BY <3>1, <3>2, <3>3
    <3> QED
      BY <3>2, <3>3, <3>4, BoundedSeqProperties, Zenon
  <2> QED
    BY <2>1, NameServiceAssumption DEF TypeOK
<1>2. IdsOK' /\ HandlesOK'
  BY DEF IdsOK, HandlesOK
<1>3. NamesUnique'
  BY DEF NamesUnique
<1>4. ASSUME NEW l \in Lookups
      PROVE  Told(l)' /\ Handed(l)' /\ OwedOK(l)'
  <2>1. Told(l)'
    BY DEF Told, FindQuery, Ahead
  <2>2. Handed(l)'
    BY DEF Handed
  <2>3. OwedOK(l)'
    BY DEF OwedOK, FindQuery, Missed, Gap, Ahead
  <2> QED
    BY <2>1, <2>2, <2>3
<1> QED
  BY <1>1, <1>2, <1>3, <1>4

LEMMA InvUnknownHandle ==
  ASSUME Inv, up = "up", NEW k \in Lookups, UnknownHandle(k)
  PROVE  Inv'
<1> USE DEF Inv, UnknownHandle
<1>1. TypeOK'
  BY DEF TypeOK
<1>2. IdsOK' /\ HandlesOK'
  BY DEF IdsOK, HandlesOK
<1>3. NamesUnique'
  BY DEF NamesUnique
<1>4. ASSUME NEW l \in Lookups
      PROVE  Told(l)' /\ Handed(l)' /\ OwedOK(l)'
  <2>1. Told(l)'
    BY DEF Told, FindQuery, Ahead
  <2>2. Handed(l)'
    BY DEF Handed
  <2>3. OwedOK(l)'
    BY DEF OwedOK, FindQuery, Missed, Gap, Ahead
  <2> QED
    BY <2>1, <2>2, <2>3
<1> QED
  BY <1>1, <1>2, <1>3, <1>4

LEMMA InvRegister ==
  ASSUME Inv, up = "up", NEW c \in Classes, NEW name \in Names, Register(c, name)
  PROVE  Inv'
<1> DEFINE n == Len(Services)
           new == [id |-> nextId, name |-> name, known |-> Known(c)]
<1>1. /\ TypeOK /\ IdsOK /\ NamesUnique /\ HandlesOK
      /\ \A l \in Lookups : Told(l) /\ Handed(l) /\ OwedOK(l)
  BY DEF Inv
<1>2. /\ Services \in Seq(Service) /\ n \in 0 .. MAX_SERVICES /\ DOMAIN Services = 1 .. n
      /\ \A i \in 1 .. n : Services[i] \in Service /\ Services[i].id \in 1 .. MaxIds
      /\ nextId \in 1 .. MaxIds /\ nextId' = nextId + 1
      /\ MAX_SERVICES \in Nat /\ MaxIds \in Nat
  <2>1. /\ Services \in Seq(Service) /\ n \in 0 .. MAX_SERVICES /\ DOMAIN Services = 1 .. n
        /\ \A i \in 1 .. n : Services[i] \in Service /\ Services[i].id \in 1 .. MaxIds
    BY <1>1, TableType
  <2>2. nextId \in 1 .. MaxIds /\ nextId' = nextId + 1
    BY <1>1, NameServiceAssumption DEF Register, TypeOK
  <2> QED
    BY <2>1, <2>2, NameServiceAssumption
<1>3. UNCHANGED <<ServiceClasses, QueryInfo, dwHandleValue, status, hLookup, results, excused, guessed>>
  BY DEF Register
<1>4. \A h : FindQuery(h)' = FindQuery(h)
  BY <1>3 DEF FindQuery
<1>5. CASE n = MAX_SERVICES
  <2>1. up' = "lost" /\ UNCHANGED <<Services, owed>>
    BY <1>5 DEF Register
  <2>2. TypeOK'
    BY <1>1, <1>2, <1>3, <2>1 DEF TypeOK
  <2>3. IdsOK' /\ NamesUnique' /\ HandlesOK'
    BY <1>1, <1>2, <1>3, <2>1 DEF IdsOK, NamesUnique, HandlesOK
  <2>4. ASSUME NEW l \in Lookups
        PROVE  Told(l)' /\ Handed(l)' /\ OwedOK(l)'
    <3>1. Told(l)'
      <4>1. \A k \in 1 .. Len(results[l]) : results[l][k] \in Int
        BY <1>1, LookupType
      <4> QED
        BY <1>1, <1>2, <1>3, <1>4, <2>1, <4>1 DEF Told, Ahead
    <3>2. Handed(l)'
      BY <1>1, <1>3, <2>1 DEF Handed
    <3>3. OwedOK(l)'
      BY <1>1, <1>3, <2>1 DEF OwedOK
    <3> QED
      BY <3>1, <3>2, <3>3
  <2> QED
    BY <2>2, <2>3, <2>4 DEF Inv
<1>6. CASE n # MAX_SERVICES
  <2>1. /\ Services' = Append(Services, new) /\ up' = "up"
        /\ owed' = [l \in Lookups |->
             IF Open(l) /\ \E q \in FindQuery(hLookup[l]) : Matches(QueryInfo[q].Query, name)
               THEN owed[l] \cup {nextId} ELSE owed[l]]
    BY <1>6 DEF Register
  <2>2. /\ new \in Service /\ new.id = nextId /\ new.name = name /\ new.known = Known(c)
    BY <1>2 DEF Service, Known
  <2>3. /\ Services' \in Seq(Service) /\ Len(Services') = n + 1
        /\ \A i \in 1 .. n : Services'[i] = Services[i]
        /\ Services'[n + 1] = new /\ DOMAIN Services' = 1 .. (n + 1)
    BY <1>2, <2>1, <2>2, AppendProperties
  <2>4. TypeOK'
    <3>1. Services' \in Seq([id : 1 .. MaxIds, name : Names, known : BOOLEAN])
      BY <2>3 DEF Service
    <3>2. owed' \in [Lookups -> SUBSET (1 .. MaxIds)]
      BY <1>1, <1>2, <2>1 DEF TypeOK
    <3>3. Len(Services') <= MAX_SERVICES /\ nextId' \in 1 .. MaxIds + 1
      <4>1. n + 1 <= MAX_SERVICES
        <5>1. n \in 0 .. MAX_SERVICES /\ MAX_SERVICES \in Nat /\ n # MAX_SERVICES
          BY <1>2, <1>6
        <5> HIDE DEF n
        <5> QED
          BY <5>1
      <4> QED
        BY <1>2, <2>3, <4>1
    <3> QED
      BY <1>1, <1>3, <2>1, <3>1, <3>2, <3>3 DEF TypeOK
  <2>5. IdsOK'
    <3>1. \A i \in 1 .. (n + 1) : i \in 1 .. n \/ i = n + 1
      <4>1. n \in Nat
        BY <1>2
      <4> HIDE DEF n
      <4> QED
        BY <4>1
    <3>2. \A i \in 1 .. n : Services[i].id < nextId /\ Services[i].id \in Nat
      BY <1>1, <1>2 DEF IdsOK
    <3>3. nextId \in Nat /\ nextId' = nextId + 1
      BY <1>2 DEF Register
    <3>4. \A i \in 1 .. (n + 1) : Services'[i].id < nextId'
      BY <2>2, <2>3, <3>1, <3>2, <3>3
    <3>5. \A i, j \in 1 .. n : Services[i].id = Services[j].id => i = j
      BY <1>1 DEF IdsOK
    <3>6. \A i, j \in 1 .. (n + 1) : Services'[i].id = Services'[j].id => i = j
      BY <2>2, <2>3, <3>1, <3>2, <3>3, <3>5
    <3> QED
      BY <2>3, <3>4, <3>6 DEF IdsOK
  <2>6. NamesUnique'
    <3>1. new.known => \A i \in 1 .. n : Services[i].name # name
      BY <1>2, <2>2 DEF Register, LookupService, Named
    <3>2. \A i \in 1 .. n : Services[i].id < nextId
      BY <1>1 DEF IdsOK
    <3>3. \A i, j \in 1 .. n : Services[i].name = Services[j].name /\ Services[i].id < Services[j].id
            => ~Services[j].known
      BY <1>1, <1>2 DEF NamesUnique
    <3> QED
      BY <1>2, <2>2, <2>3, <3>1, <3>2, <3>3 DEF NamesUnique
  <2>7. HandlesOK'
    BY <1>1, <1>3 DEF HandlesOK
  <2>8. ASSUME NEW l \in Lookups
        PROVE  Told(l)' /\ Handed(l)' /\ OwedOK(l)'
    <3> DEFINE H == FindQuery(hLookup[l])
    <3>1. H' = H /\ \A q \in H : q \in 1 .. Len(QueryInfo) /\ QueryInfo[q].iIndex \in Nat
      BY <1>1, <1>3, <1>4, QueryType
    <3>2. \A q \in H : Ahead(q)' = IF QueryInfo[q].iIndex <= n THEN Ahead(q) \cup {n + 1} ELSE Ahead(q)
      BY <1>2, <1>3, <2>3, <3>1 DEF Ahead
    <3>3. Told(l)'
      <4>1. \A k \in 1 .. Len(results[l]) : results[l][k] \in Int /\ results[l][k] < nextId
        <5>1. \A k \in 1 .. Len(results[l]) : results[l][k] < nextId
          BY <1>1 DEF Told
        <5> QED
          BY <1>1, <5>1, LookupType
      <4>2. ASSUME NEW q \in H, NEW k \in 1 .. Len(results[l]), NEW i \in Ahead(q)'
            PROVE  results[l][k] # Services'[i].id
        <5>1. CASE i \in Ahead(q)
          BY <1>1, <2>3, <4>2, <5>1 DEF Told, Ahead
        <5>2. CASE i = n + 1
          BY <2>2, <2>3, <4>1, <5>2
        <5> QED
          BY <3>2, <4>2, <5>1, <5>2
      <4>3. \A k \in 1 .. Len(results[l]) : results[l][k] < nextId'
        BY <1>2, <4>1
      <4>4. Told(l)
        BY <1>1
      <4>5. \A q \in H', k \in 1 .. Len(results'[l]) :
              \A i \in Ahead(q)' : results'[l][k] # Services'[i].id
        BY <1>3, <3>1, <4>2
      <4>6. /\ \A k \in 1 .. Len(results'[l]) : results'[l][k] < nextId'
            /\ \A k, m \in 1 .. Len(results'[l]) : results'[l][k] = results'[l][m] => k = m
            /\ up' = "up" /\ H' = {} => results'[l] = <<>>
        BY <1>1, <1>3, <3>1, <4>3, <4>4 DEF Told
      <4> QED
        BY <4>5, <4>6 DEF Told
    <3>4. Handed(l)'
      BY <1>1, <1>3, <2>1 DEF Handed
    <3>5. OwedOK(l)'
      <4>1. ASSUME NEW d \in owed'[l]
            PROVE  \E i \in 1 .. (n + 1) :
                     /\ Services'[i].id = d
                     /\ \A q \in H : hLookup[l] \notin guessed =>
                          Matches(QueryInfo[q].Query, Services'[i].name)
        <5>1. CASE d \in owed[l]
          BY <1>1, <1>2, <2>3, <5>1 DEF OwedOK
        <5>2. CASE d = nextId /\ \E q \in H : Matches(QueryInfo[q].Query, name)
          <6>1. \A q \in H : Matches(QueryInfo[q].Query, name)
            BY <1>1, <5>2, QueryType DEF HandlesOK
          <6> QED
            BY <1>2, <2>2, <2>3, <5>2, <6>1
        <5> QED
          BY <2>1, <4>1, <5>1, <5>2
      <4>2. ASSUME status[l] = "open", hLookup[l] \notin guessed, NEW q \in H
            PROVE  Cardinality(Missed(l, q)') + Gap(q)' <= excused[l]
        <5>1. /\ Cardinality(Missed(l, q)) + Gap(q) <= excused[l] /\ IsFiniteSet(Missed(l, q))
              /\ excused[l] \in Nat /\ Gap(q) \in Nat
          <6>1. Cardinality(Missed(l, q)) + Gap(q) <= excused[l]
            BY <1>1, <4>2 DEF OwedOK
          <6>2. IsFiniteSet(Missed(l, q))
            BY <1>1, OwedFinite, FS_Subset DEF Missed
          <6>3. excused[l] \in Nat
            BY <1>1, LookupType
          <6>4. Gap(q) \in Nat
            BY <1>2, <3>1, <4>2 DEF Gap
          <6> QED
            BY <6>1, <6>2, <6>3, <6>4
        <5>2. Missed(l, q)' \subseteq Missed(l, q) \cup {nextId}
          <6> SUFFICES ASSUME NEW d \in Missed(l, q)', d # nextId
                       PROVE  d \in Missed(l, q)
            OBVIOUS
          <6>1. d \in owed[l]
            BY <2>1 DEF Missed
          <6>2. \A i \in Ahead(q) : Services[i].id # d
            BY <2>3, <3>2, <4>2 DEF Missed, Ahead
          <6> QED
            BY <6>1, <6>2 DEF Missed
        <5>3. CASE QueryInfo[q].iIndex <= n
          <6>1. nextId \notin Missed(l, q)'
            BY <1>2, <2>2, <2>3, <3>1, <3>2, <4>2, <5>3 DEF Missed
          <6>2. Cardinality(Missed(l, q)') <= Cardinality(Missed(l, q))
            BY <5>1, <5>2, <6>1, FS_Subset
          <6>3. Gap(q)' = 0 /\ Gap(q) = 0
            BY <1>2, <1>3, <2>3, <3>1, <4>2, <5>3 DEF Gap
          <6>4. Cardinality(Missed(l, q)') \in Nat /\ Cardinality(Missed(l, q)) \in Nat
            BY <5>1, <5>2, AtMostOneMore
          <6> QED
            BY <5>1, <6>2, <6>3, <6>4
        <5>4. CASE QueryInfo[q].iIndex > n
          <6>1. /\ Cardinality(Missed(l, q)') <= Cardinality(Missed(l, q)) + 1
                /\ Cardinality(Missed(l, q)') \in Nat /\ Cardinality(Missed(l, q)) \in Nat
            BY <5>1, <5>2, AtMostOneMore
          <6>2. Gap(q)' = Gap(q) - 1 /\ Gap(q)' \in Nat
            BY <1>2, <1>3, <2>3, <3>1, <4>2, <5>4 DEF Gap
          <6> QED
            BY <5>1, <6>1, <6>2
        <5> QED
          BY <1>2, <3>1, <4>2, <5>3, <5>4
      <4>3. status[l] = "done" => owed'[l] = owed[l]
        BY <2>1
      <4>4. OwedOK(l) /\ up = "up"
        BY <1>1
      <4>5. \A d \in owed'[l] : \E i \in 1 .. Len(Services') :
              /\ Services'[i].id = d
              /\ \A q \in H' : hLookup'[l] \notin guessed' =>
                   Matches(QueryInfo'[q].Query, Services'[i].name)
        BY <1>3, <2>3, <3>1, <4>1
      <4>6. status'[l] = "open" /\ hLookup'[l] \notin guessed' =>
              \A q \in H' : Cardinality(Missed(l, q)') + Gap(q)' <= excused'[l]
        BY <1>3, <3>1, <4>2
      <4>7. status'[l] = "done" /\ hLookup'[l] \notin guessed' =>
              Cardinality(owed'[l]) <= excused'[l]
        BY <1>3, <4>3, <4>4 DEF OwedOK
      <4> QED
        BY <4>5, <4>6, <4>7 DEF OwedOK, Matches
    <3> QED
      BY <3>3, <3>4, <3>5
  <2> QED
    BY <2>4, <2>5, <2>6, <2>7, <2>8 DEF Inv
<1> QED
  BY <1>5, <1>6

LEMMA InvDeregister ==
  ASSUME Inv, up = "up", NEW c \in Classes, NEW name \in Names, Deregister(c, name)
  PROVE  Inv'
<1> DEFINE n == Len(Services)
<1>1. /\ TypeOK /\ IdsOK /\ NamesUnique /\ HandlesOK
      /\ \A l \in Lookups : Told(l) /\ Handed(l) /\ OwedOK(l)
  BY DEF Inv
<1>2. /\ Services \in Seq(Service) /\ n \in 0 .. MAX_SERVICES /\ DOMAIN Services = 1 .. n
      /\ \A i \in 1 .. n : Services[i] \in Service /\ Services[i].id \in 1 .. MaxIds
  BY <1>1, TableType
<1>3. UNCHANGED <<ServiceClasses, QueryInfo, dwHandleValue, up, nextId, status, hLookup, results, guessed>>
  BY DEF Deregister
<1>4. \A h : FindQuery(h)' = FindQuery(h)
  BY <1>3 DEF FindQuery
<1>5. PICK i \in 1 .. n :
        /\ Services' = Vacate(i)
        /\ owed' = [l \in Lookups |-> owed[l] \ {Services[i].id}]
        /\ excused' = [l \in Lookups |-> IF Open(l) THEN excused[l] + 1 ELSE excused[l]]
  <2>1. Named(name) \subseteq 1 .. n /\ Named(name) \subseteq Nat /\ Named(name) # {}
    BY <1>2 DEF Deregister, Named
  <2>2. \E i \in Named(name) : \A j \in Named(name) : i <= j
    BY <2>1, SmallestOf
  <2> DEFINE i == CHOOSE i \in Named(name) : \A j \in Named(name) : i <= j
  <2>3. i \in Named(name)
    BY <2>2
  <2>4. /\ Services' = Vacate(i)
        /\ owed' = [l \in Lookups |-> owed[l] \ {Services[i].id}]
        /\ excused' = [l \in Lookups |-> IF Open(l) THEN excused[l] + 1 ELSE excused[l]]
    BY DEF Deregister
  <2> HIDE DEF i
  <2> QED
    BY <2>1, <2>3, <2>4
<1>6. /\ Services' \in Seq(Service) /\ Len(Services') = n - 1 /\ DOMAIN Services' = 1 .. (n - 1)
      /\ \A k \in 1 .. (n - 1) : Services'[k] = Services[IF k = i THEN n ELSE k]
      /\ n \in Nat \ {0}
  <2>1. /\ Vacate(i) \in Seq(Service) /\ Len(Vacate(i)) = n - 1
        /\ \A k \in 1 .. Len(Vacate(i)) : Vacate(i)[k] = IF k = i THEN Services[n] ELSE Services[k]
    BY <1>1, VacateProperties
  <2> QED
    BY <1>2, <1>5, <2>1
<1>7. TypeOK'
  <2>1. Services' \in Seq([id : 1 .. MaxIds, name : Names, known : BOOLEAN])
    BY <1>6 DEF Service
  <2>2. owed' \in [Lookups -> SUBSET (1 .. MaxIds)] /\ excused' \in [Lookups -> Nat]
    BY <1>1, <1>5 DEF TypeOK
  <2>3. Len(Services') <= MAX_SERVICES
    BY <1>2, <1>6, NameServiceAssumption
  <2> QED
    BY <1>1, <1>3, <2>1, <2>2, <2>3 DEF TypeOK
<1>8. IdsOK'
  <2> DEFINE from(k) == IF k = i THEN n ELSE k
  <2>1. /\ \A k \in 1 .. (n - 1) : from(k) \in 1 .. n /\ Services'[k] = Services[from(k)]
        /\ \A j, k \in 1 .. (n - 1) : from(j) = from(k) => j = k
    BY <1>2, <1>6
  <2> HIDE DEF from
  <2>2. /\ \A k \in 1 .. n : Services[k].id < nextId
        /\ \A j, k \in 1 .. n : Services[j].id = Services[k].id => j = k
    BY <1>1 DEF IdsOK
  <2> QED
    BY <1>3, <1>6, <2>1, <2>2 DEF IdsOK
<1>9. NamesUnique'
  <2>1. \A k \in 1 .. (n - 1) : \E m \in 1 .. n : Services'[k] = Services[m]
    BY <1>2, <1>6
  <2>2. \A j, k \in 1 .. n : Services[j].name = Services[k].name /\ Services[j].id < Services[k].id
          => ~Services[k].known
    BY <1>1, <1>2 DEF NamesUnique
  <2>3. ASSUME NEW j \in 1 .. (n - 1), NEW k \in 1 .. (n - 1),
               Services'[j].name = Services'[k].name, Services'[j].id < Services'[k].id
        PROVE  ~Services'[k].known
    <3>1. PICK a \in 1 .. n : Services'[j] = Services[a]
      BY <2>1
    <3>2. PICK b \in 1 .. n : Services'[k] = Services[b]
      BY <2>1
    <3> QED
      BY <2>2, <2>3, <3>1, <3>2
  <2> QED
    BY <1>6, <2>3 DEF NamesUnique
<1>10. HandlesOK'
  BY <1>1, <1>3 DEF HandlesOK
<1>11. ASSUME NEW l \in Lookups
       PROVE  Told(l)' /\ Handed(l)' /\ OwedOK(l)'
  <2> DEFINE H == FindQuery(hLookup[l])
             gone == Services[i].id
  <2>1. H' = H /\ \A q \in H : q \in 1 .. Len(QueryInfo) /\ QueryInfo[q].iIndex \in Nat
    BY <1>1, <1>3, <1>4, QueryType
  <2>2. ASSUME NEW q \in H, NEW k \in Ahead(q)'
        PROVE  \E m \in Ahead(q) : Services'[k] = Services[m]
    BY <1>3, <1>6, <2>1, <2>2 DEF Ahead
  <2>3. Told(l)'
    <3>1. \A q \in H', k \in 1 .. Len(results'[l]) :
            \A m \in Ahead(q)' : results'[l][k] # Services'[m].id
      BY <1>1, <1>3, <2>1, <2>2 DEF Told
    <3> QED
      BY <1>1, <1>3, <2>1, <3>1 DEF Told
  <2>4. Handed(l)'
    BY <1>1, <1>3 DEF Handed
  <2>5. owed'[l] = owed[l] \ {gone} /\ IsFiniteSet(owed[l])
    BY <1>1, <1>5, OwedFinite
  <2>6. ASSUME NEW d \in owed'[l]
        PROVE  \E k \in 1 .. (n - 1) :
                 /\ Services'[k].id = d
                 /\ \A q \in H : hLookup[l] \notin guessed =>
                      Matches(QueryInfo[q].Query, Services'[k].name)
    <3>1. PICK m \in 1 .. n :
            /\ Services[m].id = d
            /\ \A q \in H : hLookup[l] \notin guessed =>
                 Matches(QueryInfo[q].Query, Services[m].name)
      BY <1>1, <2>5, <2>6 DEF OwedOK
    <3>2. m # i
      BY <2>5, <2>6, <3>1
    <3> DEFINE k == IF m = n THEN i ELSE m
    <3>3. k \in 1 .. (n - 1) /\ Services'[k] = Services[m]
      BY <1>6, <3>2
    <3> QED
      BY <3>1, <3>3
  <2>7. ASSUME status[l] = "open", hLookup[l] \notin guessed, NEW q \in H
        PROVE  Cardinality(Missed(l, q)') + Gap(q)' <= excused'[l]
    <3>1. /\ Cardinality(Missed(l, q)) + Gap(q) <= excused[l] /\ IsFiniteSet(Missed(l, q))
          /\ excused[l] \in Nat /\ Gap(q) \in Nat /\ excused'[l] = excused[l] + 1
      <4>1. Cardinality(Missed(l, q)) + Gap(q) <= excused[l]
        BY <1>1, <2>7 DEF OwedOK
      <4>2. IsFiniteSet(Missed(l, q))
        BY <2>5, FS_Subset DEF Missed
      <4>3. excused[l] \in Nat
        BY <1>1, LookupType
      <4>4. Gap(q) \in Nat
        BY <1>2, <2>1, <2>7 DEF Gap
      <4> QED
        BY <1>5, <2>7, <4>1, <4>2, <4>3, <4>4
    <3>2. CASE QueryInfo[q].iIndex < n
      <4>1. Missed(l, q)' \subseteq Missed(l, q) \cup {Services[n].id}
        <5> SUFFICES ASSUME NEW d \in Missed(l, q)', d # Services[n].id
                     PROVE  d \in Missed(l, q)
          OBVIOUS
        <5>1. d \in owed[l] /\ d # gone /\ \A k \in Ahead(q)' : Services'[k].id # d
          BY <2>5 DEF Missed
        <5>2. ASSUME NEW m \in Ahead(q)
              PROVE  Services[m].id # d
          <6>1. CASE m = n \/ m = i
            BY <5>1, <6>1
          <6>2. CASE m # n /\ m # i
            <7>1. m \in Ahead(q)' /\ Services'[m] = Services[m]
              BY <1>3, <1>6, <2>1, <2>7, <5>2, <6>2 DEF Ahead
            <7> QED
              BY <5>1, <7>1
          <6> QED
            BY <6>1, <6>2
        <5> QED
          BY <5>1, <5>2 DEF Missed
      <4>2. Gap(q)' = 0 /\ Gap(q) = 0
        BY <1>3, <1>6, <2>1, <2>7, <3>2 DEF Gap
      <4>3. /\ Cardinality(Missed(l, q)') <= Cardinality(Missed(l, q)) + 1
            /\ Cardinality(Missed(l, q)') \in Nat /\ Cardinality(Missed(l, q)) \in Nat
        BY <3>1, <4>1, AtMostOneMore
      <4> QED
        BY <3>1, <4>2, <4>3
    <3>3. CASE QueryInfo[q].iIndex >= n
      <4>1. Missed(l, q)' \subseteq Missed(l, q)
        <5>1. Ahead(q) = {}
          BY <1>6, <2>1, <2>7, <3>3 DEF Ahead
        <5> QED
          BY <2>5, <5>1 DEF Missed
      <4>2. Gap(q)' = Gap(q) + 1
        BY <1>3, <1>6, <2>1, <2>7, <3>3 DEF Gap
      <4>3. /\ Cardinality(Missed(l, q)') <= Cardinality(Missed(l, q))
            /\ Cardinality(Missed(l, q)') \in Nat /\ Cardinality(Missed(l, q)) \in Nat
        BY <3>1, <4>1, AtMostOneMore
      <4> QED
        BY <3>1, <4>2, <4>3
    <3> QED
      BY <1>6, <2>1, <2>7, <3>2, <3>3
  <2>8. status[l] = "done" /\ hLookup[l] \notin guessed => Cardinality(owed'[l]) <= excused'[l]
    <3> SUFFICES ASSUME status[l] = "done", hLookup[l] \notin guessed
                 PROVE  Cardinality(owed'[l]) <= excused'[l]
      OBVIOUS
    <3>1. Cardinality(owed[l]) <= excused[l] /\ excused'[l] = excused[l]
      BY <1>1, <1>5 DEF OwedOK
    <3>2. /\ Cardinality(owed'[l]) <= Cardinality(owed[l])
          /\ Cardinality(owed'[l]) \in Nat /\ Cardinality(owed[l]) \in Nat
      BY <2>5, AtMostOneMore
    <3>3. excused[l] \in Nat
      BY <1>1, LookupType
    <3> QED
      BY <3>1, <3>2, <3>3
  <2>9. OwedOK(l)'
    <3>1. \A d \in owed'[l] : \E k \in 1 .. Len(Services') :
            /\ Services'[k].id = d
            /\ \A q \in H' : hLookup'[l] \notin guessed' =>
                 Matches(QueryInfo'[q].Query, Services'[k].name)
      BY <1>3, <1>6, <2>1, <2>6
    <3>2. status'[l] = "open" /\ hLookup'[l] \notin guessed' =>
            \A q \in H' : Cardinality(Missed(l, q)') + Gap(q)' <= excused'[l]
      BY <1>3, <2>1, <2>7
    <3>3. status'[l] = "done" /\ hLookup'[l] \notin guessed' =>
            Cardinality(owed'[l]) <= excused'[l]
      BY <1>3, <2>8
    <3> QED
      BY <3>1, <3>2, <3>3 DEF OwedOK, Matches
  <2> QED
    BY <2>3, <2>4, <2>9
<1> QED
  BY <1>7, <1>8, <1>9, <1>10, <1>11 DEF Inv

LEMMA InvLookupServiceBegin ==
  ASSUME Inv, up = "up", NEW l \in Lookups, NEW query \in Queries, LookupServiceBegin(l, query)
  PROVE  Inv'
<1> DEFINE h == hLookup'[l]
           n == Len(QueryInfo)
           new == [hHandle |-> NextHandle, iIndex |-> 0, Query |-> query]
<1>1. /\ TypeOK /\ IdsOK /\ NamesUnique /\ HandlesOK
      /\ \A m \in Lookups : Told(m) /\ Handed(m) /\ OwedOK(m)
  BY DEF Inv
<1>2. /\ QueryInfo \in Seq(Query) /\ n \in Nat /\ DOMAIN QueryInfo = 1 .. n
      /\ \A q \in 1 .. n : QueryInfo[q] \in Query /\ QueryInfo[q].hHandle \in Nat \ {0}
      /\ dwHandleValue \in Nat /\ guessed \subseteq Nat /\ n <= MAX_QUERIES
  BY <1>1, TableType DEF TypeOK
<1>3. /\ status[l] = "none" /\ UNCHANGED <<ServiceClasses, Services, up, nextId, results, excused>>
      /\ IF h = 0
           THEN UNCHANGED <<status, owed>>
           ELSE /\ status' = [status EXCEPT ![l] = "open"]
                /\ owed' = [owed EXCEPT ![l] = {v.id : v \in {w \in ToSet(Services) : Matches(query, w.name)}}]
  BY DEF LookupServiceBegin
<1>4. /\ h \in Nat /\ hLookup' = [hLookup EXCEPT ![l] = h]
      /\ guessed \subseteq guessed' /\ guessed' \subseteq Nat /\ dwHandleValue' \in Nat
      /\ dwHandleValue <= dwHandleValue'
      /\ h = 0 \/ h \in guessed' \/ h = dwHandleValue'
      /\ h = 0 \/ h \in guessed' \/ h = NextHandle
  <2>1. hLookup \in [Lookups -> Nat]
    BY <1>1 DEF TypeOK
  <2>2. CASE HasRoom
    <3>1. /\ dwHandleValue' = NextHandle /\ hLookup' = [hLookup EXCEPT ![l] = dwHandleValue']
          /\ guessed' = guessed
      BY <2>2 DEF LookupServiceBegin, RegisterQuery
    <3> QED
      BY <1>2, <2>1, <3>1 DEF NextHandle
  <2>3. CASE ~HasRoom
    <3>1. PICK g \in 0 .. dwHandleValue + 1 :
            hLookup' = [hLookup EXCEPT ![l] = g] /\ guessed' = guessed \cup ({g} \ {0})
      BY <2>3 DEF LookupServiceBegin, RegisterQuery
    <3>2. dwHandleValue' = dwHandleValue /\ g \in Nat
      BY <1>2, <2>3 DEF LookupServiceBegin, RegisterQuery
    <3>3. h = g
      BY <2>1, <3>1
    <3>4. guessed' \subseteq Nat /\ (h = 0 \/ h \in guessed')
      BY <1>2, <3>1, <3>2, <3>3
    <3> QED
      BY <1>2, <2>1, <3>1, <3>2, <3>3, <3>4
  <2> QED
    BY <2>2, <2>3
<1>5. \/ QueryInfo' = QueryInfo /\ (h = 0 \/ h \in guessed')
      \/ /\ QueryInfo' = Append(QueryInfo, new) /\ dwHandleValue' = NextHandle
         /\ h = NextHandle /\ HasRoom /\ guessed' = guessed
  BY <1>1, <1>2 DEF LookupServiceBegin, RegisterQuery, NextHandle, TypeOK
<1>6. /\ QueryInfo' \in Seq(Query) /\ Len(QueryInfo') <= MAX_QUERIES
      /\ Len(QueryInfo') \in {n, n + 1} /\ DOMAIN QueryInfo' = 1 .. Len(QueryInfo')
      /\ \A q \in 1 .. n : QueryInfo'[q] = QueryInfo[q]
      /\ Len(QueryInfo') = n + 1 =>
           /\ QueryInfo'[n + 1] = new /\ h = NextHandle /\ dwHandleValue' = NextHandle
           /\ guessed' = guessed
  <2>1. CASE QueryInfo' = QueryInfo
    <3>1. Len(QueryInfo') = n /\ n # n + 1
      <4>1. n \in Nat
        BY <1>2
      <4>2. n # n + 1
        BY <4>1
      <4> QED
        BY <2>1, <4>2
    <3> QED
      BY <1>2, <2>1, <3>1
  <2>2. CASE /\ QueryInfo' = Append(QueryInfo, new) /\ dwHandleValue' = NextHandle
             /\ h = NextHandle /\ HasRoom /\ guessed' = guessed
    <3>1. new \in Query
      BY <1>2, NameServiceAssumption DEF Query, NextHandle
    <3>2. /\ QueryInfo' \in Seq(Query) /\ Len(QueryInfo') = n + 1
          /\ \A q \in 1 .. n : QueryInfo'[q] = QueryInfo[q]
          /\ QueryInfo'[n + 1] = new
      BY <1>2, <2>2, <3>1, AppendProperties
    <3>3. n + 1 <= MAX_QUERIES
      BY <1>2, <2>2, NameServiceAssumption DEF HasRoom
    <3> QED
      BY <2>2, <3>2, <3>3
  <2> QED
    BY <1>5, <2>1, <2>2
<1>7. new.hHandle = NextHandle /\ new.iIndex = 0 /\ new.Query = query /\ NextHandle = dwHandleValue + 1
  BY DEF NextHandle
<1>19. /\ \A g : FindQuery(g) = {q \in 1 .. n : QueryInfo[q].hHandle = g}
       /\ \A m \in Lookups : FindQuery(hLookup[m])' =
            {q \in 1 .. Len(QueryInfo') : QueryInfo'[q].hHandle = hLookup'[m]}
  BY <1>2, <1>6 DEF FindQuery
<1>20. \A q \in 1 .. n : QueryInfo[q].hHandle <= dwHandleValue /\ QueryInfo[q].hHandle \in Nat \ {0}
  BY <1>1, <1>2 DEF HandlesOK
<1>21. \A q \in 1 .. Len(QueryInfo') : q \in 1 .. n \/ (q = n + 1 /\ Len(QueryInfo') = n + 1)
  <2>1. n \in Nat /\ Len(QueryInfo') \in {n, n + 1}
    BY <1>2, <1>6
  <2> HIDE DEF n
  <2> QED
    BY <2>1
<1>8. \A i \in 1 .. Len(Services) : Services[i].id \in 1 .. MaxIds
  BY <1>1, TableType
<1>9. \A d : h # 0 => (d \in owed'[l] <=>
        \E i \in 1 .. Len(Services) : d = Services[i].id /\ Matches(query, Services[i].name))
  <2>1. h # 0 => owed'[l] = {v.id : v \in {w \in ToSet(Services) : Matches(query, w.name)}}
    BY <1>1, <1>3 DEF TypeOK
  <2>2. ToSet(Services) = {Services[i] : i \in 1 .. Len(Services)}
    BY <1>1, TableType DEF ToSet
  <2> QED
    BY <2>1, <2>2
<1>10. TypeOK'
  <2>1. owed' \in [Lookups -> SUBSET (1 .. MaxIds)]
    <3>1. h # 0 => owed'[l] \subseteq 1 .. MaxIds
      BY <1>8, <1>9
    <3> QED
      BY <1>1, <1>3, <3>1 DEF TypeOK
  <2>2. /\ status' \in [Lookups -> {"none", "open", "done"}] /\ hLookup' \in [Lookups -> Nat]
        /\ guessed' \subseteq Nat /\ dwHandleValue' \in Nat
    BY <1>1, <1>3, <1>4 DEF TypeOK
  <2>3. QueryInfo' \in Seq([hHandle : Nat \ {0}, iIndex : 0 .. MAX_SERVICES, Query : Queries])
    BY <1>6 DEF Query
  <2> QED
    BY <1>1, <1>3, <1>6, <2>1, <2>2, <2>3 DEF TypeOK
<1>11. IdsOK' /\ NamesUnique'
  BY <1>1, <1>3 DEF IdsOK, NamesUnique
<1>12. HandlesOK'
  <2>1. \A q \in 1 .. Len(QueryInfo') : QueryInfo'[q].hHandle <= dwHandleValue'
    <3> SUFFICES ASSUME NEW q \in 1 .. Len(QueryInfo')
                 PROVE  QueryInfo'[q].hHandle <= dwHandleValue'
      OBVIOUS
    <3>1. CASE q \in 1 .. n
      <4>1. QueryInfo'[q].hHandle \in Nat /\ QueryInfo'[q].hHandle <= dwHandleValue
        BY <1>6, <1>20, <3>1
      <4>2. dwHandleValue \in Nat /\ dwHandleValue' \in Nat /\ dwHandleValue <= dwHandleValue'
        BY <1>2, <1>4
      <4> QED
        BY <4>1, <4>2
    <3>2. CASE q = n + 1 /\ Len(QueryInfo') = n + 1
      <4>1. QueryInfo'[q].hHandle = dwHandleValue' /\ dwHandleValue' \in Nat
        BY <1>4, <1>6, <1>7, <3>2
      <4> QED
        BY <4>1
    <3> QED
      BY <1>21, <3>1, <3>2
  <2>2. \A p, q \in 1 .. n : QueryInfo[p].hHandle = QueryInfo[q].hHandle => p = q
    BY <1>1 DEF HandlesOK
  <2>3. \A p, q \in 1 .. Len(QueryInfo') : QueryInfo'[p].hHandle = QueryInfo'[q].hHandle => p = q
    <3>1. ASSUME NEW p \in 1 .. Len(QueryInfo'), NEW q \in 1 .. n,
                 QueryInfo'[p].hHandle = QueryInfo'[q].hHandle
          PROVE  p = q
      <4>1. CASE p \in 1 .. n
        BY <1>6, <2>2, <3>1, <4>1
      <4>2. CASE p = n + 1 /\ Len(QueryInfo') = n + 1
        <5>1. /\ QueryInfo[q].hHandle <= dwHandleValue /\ QueryInfo[q].hHandle \in Nat
              /\ QueryInfo'[p].hHandle = dwHandleValue + 1 /\ QueryInfo'[q] = QueryInfo[q]
              /\ dwHandleValue \in Nat
          BY <1>2, <1>6, <1>7, <1>20, <4>2
        <5>2. QueryInfo[q].hHandle = dwHandleValue + 1
          BY <3>1, <5>1
        <5> QED
          BY <5>1, <5>2
      <4> QED
        BY <1>21, <4>1, <4>2
    <3> QED
      BY <1>21, <3>1
  <2> QED
    BY <2>1, <2>3 DEF HandlesOK
<1>13. \A m \in Lookups : m # l => /\ hLookup'[m] = hLookup[m] /\ hLookup[m] \in Nat
                                   /\ status'[m] = status[m] /\ owed'[m] = owed[m]
  BY <1>1, <1>3, <1>4 DEF TypeOK
<1>14. results[l] = <<>> /\ hLookup[l] = 0 /\ excused[l] \in Nat
  BY <1>1, <1>3, LookupType DEF Handed
<1>15. ASSUME NEW m \in Lookups, m # l
       PROVE  Told(m)' /\ OwedOK(m)'
  <2>1. ASSUME NEW q \in FindQuery(hLookup[m])'
        PROVE  /\ q \in FindQuery(hLookup[m]) /\ QueryInfo'[q] = QueryInfo[q]
               \/ /\ q = n + 1 /\ QueryInfo'[q] = new /\ hLookup[m] = NextHandle
                  /\ FindQuery(hLookup[m]) = {}
    <3>1. q \in 1 .. Len(QueryInfo') /\ QueryInfo'[q].hHandle = hLookup[m]
      BY <1>13, <1>15, <1>19, <2>1
    <3>2. CASE q \in 1 .. n
      BY <1>6, <1>19, <3>1, <3>2
    <3>3. CASE q = n + 1 /\ Len(QueryInfo') = n + 1
      <4>1. QueryInfo'[q] = new /\ hLookup[m] = NextHandle
        BY <1>6, <1>7, <3>1, <3>3
      <4>2. FindQuery(hLookup[m]) = {}
        BY <1>2, <1>7, <1>19, <1>20, <4>1
      <4> QED
        BY <3>3, <4>1, <4>2
    <3> QED
      BY <1>21, <3>1, <3>2, <3>3
  <2>2. FindQuery(hLookup[m]) \subseteq FindQuery(hLookup[m])'
    <3>1. 1 .. n \subseteq 1 .. Len(QueryInfo')
      <4>1. n \in Nat /\ Len(QueryInfo') \in {n, n + 1}
        BY <1>2, <1>6
      <4> HIDE DEF n
      <4> QED
        BY <4>1
    <3> QED
      BY <1>6, <1>13, <1>15, <1>19, <3>1
  <2>3. hLookup[m] = NextHandle => hLookup[m] \in guessed'
    BY <1>1, <1>2, <1>4, <1>7 DEF Handed
  <2>4. Told(m)'
    <3>1. ASSUME NEW q \in FindQuery(hLookup[m])', NEW k \in 1 .. Len(results[m]),
                 NEW i \in Ahead(q)'
          PROVE  results[m][k] # Services[i].id
      <4>1. CASE q \in FindQuery(hLookup[m]) /\ QueryInfo'[q] = QueryInfo[q]
        <5>1. i \in Ahead(q)
          BY <1>3, <3>1, <4>1 DEF Ahead
        <5> QED
          BY <1>1, <3>1, <4>1, <5>1 DEF Told
      <4>2. CASE FindQuery(hLookup[m]) = {}
        BY <1>1, <3>1, <4>2 DEF Told
      <4> QED
        BY <2>1, <3>1, <4>1, <4>2
    <3> QED
      BY <1>1, <1>3, <2>2, <3>1 DEF Told
  <2>5. OwedOK(m)'
    <3>1. ASSUME hLookup[m] \notin guessed'
          PROVE  \A q \in FindQuery(hLookup[m])' :
                   q \in FindQuery(hLookup[m]) /\ QueryInfo'[q] = QueryInfo[q]
      BY <2>1, <2>3, <3>1
    <3>2. \A d \in owed[m] : \E i \in 1 .. Len(Services) :
                /\ Services[i].id = d
                /\ \A q \in FindQuery(hLookup[m])' : hLookup[m] \notin guessed' =>
                     Matches(QueryInfo'[q].Query, Services[i].name)
      <4>1. \A d \in owed[m] : \E i \in 1 .. Len(Services) :
              /\ Services[i].id = d
              /\ \A q \in FindQuery(hLookup[m]) : hLookup[m] \notin guessed =>
                   Matches(QueryInfo[q].Query, Services[i].name)
        BY <1>1 DEF OwedOK
      <4>2. hLookup[m] \notin guessed' => hLookup[m] \notin guessed
        BY <1>4
      <4> QED
        BY <3>1, <4>1, <4>2
    <3>3. ASSUME status[m] = "open", hLookup[m] \notin guessed', NEW q \in FindQuery(hLookup[m])'
          PROVE  Cardinality(Missed(m, q)') + Gap(q)' <= excused[m]
      <4>1. q \in FindQuery(hLookup[m]) /\ QueryInfo'[q] = QueryInfo[q]
        BY <3>1, <3>3
      <4>2. Missed(m, q)' = Missed(m, q) /\ Gap(q)' = Gap(q)
        BY <1>3, <1>13, <1>15, <4>1 DEF Missed, Gap, Ahead
      <4> QED
        BY <1>1, <1>4, <3>3, <4>1, <4>2 DEF OwedOK
    <3>4. status[m] = "done" /\ hLookup[m] \notin guessed' => Cardinality(owed[m]) <= excused[m]
      BY <1>1, <1>4 DEF OwedOK
    <3> QED
      BY <1>3, <1>13, <1>15, <3>2, <3>3, <3>4 DEF OwedOK, Matches
  <2> QED
    BY <2>4, <2>5
<1>16. Told(l)'
  <2>1. results'[l] = <<>> /\ Len(<<>>) = 0
    BY <1>3, <1>14
  <2> QED
    BY <2>1 DEF Told
<1>17. OwedOK(l)'
  <2>1. CASE h = 0
    <3>1. FindQuery(hLookup[l])' = {}
      <4>1. \A q \in 1 .. Len(QueryInfo') : QueryInfo'[q].hHandle # 0
        <5>1. dwHandleValue + 1 # 0
          BY <1>2
        <5>2. \A q \in 1 .. n : QueryInfo'[q].hHandle # 0
          BY <1>6, <1>20
        <5> QED
          BY <1>6, <1>7, <1>21, <5>1, <5>2
      <4> QED
        BY <1>19, <2>1, <4>1
    <3>2. owed'[l] = owed[l] /\ status'[l] = "none"
      BY <1>3, <2>1
    <3> QED
      BY <1>1, <1>3, <3>1, <3>2 DEF OwedOK
  <2>2. CASE h # 0 /\ h \in guessed'
    <3>1. status'[l] = "open"
      BY <1>1, <1>3, <2>2 DEF TypeOK
    <3> QED
      BY <1>3, <1>9, <2>2, <3>1 DEF OwedOK
  <2>3. CASE h # 0 /\ h \notin guessed'
    <3>1. ASSUME NEW q \in FindQuery(hLookup[l])'
          PROVE  QueryInfo'[q] = new
      <4>1. q \in 1 .. Len(QueryInfo') /\ QueryInfo'[q].hHandle = NextHandle
        BY <1>4, <1>19, <2>3, <3>1
      <4>2. q \notin 1 .. n
        <5> SUFFICES ASSUME q \in 1 .. n
                     PROVE  FALSE
          OBVIOUS
        <5>1. /\ QueryInfo'[q].hHandle <= dwHandleValue /\ QueryInfo'[q].hHandle = dwHandleValue + 1
              /\ dwHandleValue \in Nat
          BY <1>2, <1>6, <1>7, <1>20, <4>1
        <5> QED
          BY <5>1
      <4> QED
        BY <1>6, <1>21, <4>1, <4>2
    <3>2. \A d \in owed'[l] : \E i \in 1 .. Len(Services') :
            /\ Services'[i].id = d
            /\ \A q \in FindQuery(hLookup[l])' : hLookup'[l] \notin guessed' =>
                 Matches(QueryInfo'[q].Query, Services'[i].name)
      BY <1>3, <1>7, <1>9, <2>3, <3>1
    <3>3. ASSUME NEW q \in FindQuery(hLookup[l])'
          PROVE  Cardinality(Missed(l, q)') + Gap(q)' <= excused'[l]
      <4>1. QueryInfo'[q].iIndex = 0 /\ Len(Services) \in Nat
        BY <1>1, <1>7, <3>1, <3>3, TableType
      <4>2. Ahead(q)' = 1 .. Len(Services)
        BY <1>3, <4>1 DEF Ahead
      <4>3. Missed(l, q)' = {}
        BY <1>3, <1>9, <2>3, <4>2 DEF Missed
      <4>4. Gap(q)' = 0
        BY <1>3, <4>1 DEF Gap
      <4> QED
        BY <1>3, <1>14, <4>3, <4>4, FS_EmptySet
    <3>4. status'[l] = "open"
      BY <1>1, <1>3, <2>3 DEF TypeOK
    <3> QED
      BY <3>2, <3>3, <3>4 DEF OwedOK, Matches
  <2> QED
    BY <2>1, <2>2, <2>3
<1>18. ASSUME NEW m \in Lookups
       PROVE  Handed(m)'
  <2>1. CASE m = l
    <3>1. h = 0 => status'[l] = "none" /\ results'[l] = <<>>
      BY <1>3, <1>14
    <3>2. h # 0 => status'[l] = "open"
      BY <1>1, <1>3 DEF TypeOK
    <3>3. h \in guessed' \/ h <= dwHandleValue'
      BY <1>4
    <3>4. \A k \in Lookups : k # l /\ hLookup'[k] = h /\ h # 0 => h \in guessed'
      BY <1>1, <1>2, <1>4, <1>7, <1>13 DEF Handed
    <3> QED
      BY <1>3, <1>14, <2>1, <3>1, <3>2, <3>3, <3>4 DEF Handed
  <2>2. CASE m # l
    <3>1. \A k \in Lookups : k # m /\ hLookup'[k] = hLookup[m] /\ hLookup[m] # 0
            => hLookup[m] \in guessed'
      BY <1>1, <1>2, <1>4, <1>7, <1>13, <2>2 DEF Handed
    <3>2. hLookup[m] \in guessed' \/ hLookup[m] <= dwHandleValue'
      BY <1>1, <1>2, <1>4, <1>13, <2>2 DEF Handed
    <3> QED
      BY <1>1, <1>3, <1>13, <2>2, <3>1, <3>2 DEF Handed
  <2> QED
    BY <2>1, <2>2
<1> QED
  BY <1>10, <1>11, <1>12, <1>15, <1>16, <1>17, <1>18 DEF Inv

\* A lookup that is not the one served keeps what it has: the query that
\* goes on is its own only if its handle was guessed.
LEMMA OtherLookups ==
  ASSUME Inv, up = "up", NEW l \in Lookups, NEW q \in FindQuery(hLookup[l]), Advance(q),
         UNCHANGED <<Services, up, nextId, guessed>>,
         NEW m \in Lookups, m # l,
         status'[m] = status[m], hLookup'[m] = hLookup[m], results'[m] = results[m],
         owed'[m] = owed[m], excused'[m] = excused[m]
  PROVE  Told(m)' /\ OwedOK(m)'
<1> DEFINE n == Len(QueryInfo)
           P == FindQuery(hLookup[m])
<1>1. /\ TypeOK /\ Told(m) /\ Handed(m) /\ OwedOK(m)
  BY DEF Inv
<1>2. /\ q \in 1 .. n /\ QueryInfo[q].hHandle = hLookup[l] /\ hLookup[l] # 0
      /\ P \subseteq 1 .. n /\ \A p \in P : QueryInfo[p].hHandle = hLookup[m]
  BY <1>1, QueryType, TableType
<1>3. /\ \A p \in 1 .. n :
           /\ QueryInfo'[p].Query = QueryInfo[p].Query
           /\ QueryInfo'[p].iIndex =
                IF p = q /\ PerformQuery(q) # 0 THEN PerformQuery(q) ELSE QueryInfo[p].iIndex
           /\ Ahead(p)' \subseteq Ahead(p)
      /\ \A h : FindQuery(h)' = FindQuery(h)
  BY <1>1, <1>2, AdvanceProperties
<1>4. FindQuery(hLookup[m])' = P
  BY <1>3 DEF FindQuery
<1>5. hLookup[m] \notin guessed => q \notin P
  BY <1>1, <1>2 DEF Handed
<1>6. Told(m)'
  <2>1. \A p \in P, k \in 1 .. Len(results[m]) : \A i \in Ahead(p)' : results[m][k] # Services[i].id
    BY <1>1, <1>2, <1>3 DEF Told
  <2>2. P = {} => results[m] = <<>>
    BY <1>1 DEF Told
  <2> QED
    BY <1>1, <1>4, <2>1, <2>2 DEF Told
<1>7. ASSUME NEW p \in P, hLookup[m] \notin guessed
      PROVE  /\ QueryInfo'[p].Query = QueryInfo[p].Query
             /\ Missed(m, p)' = Missed(m, p) /\ Gap(p)' = Gap(p)
  <2>1. QueryInfo'[p].Query = QueryInfo[p].Query /\ QueryInfo'[p].iIndex = QueryInfo[p].iIndex
    BY <1>2, <1>3, <1>5, <1>7
  <2> QED
    BY <2>1 DEF Missed, Gap, Ahead
<1>8. OwedOK(m)'
  <2>1. \A d \in owed[m] : \E i \in 1 .. Len(Services) :
          /\ Services[i].id = d
          /\ \A p \in P : hLookup[m] \notin guessed =>
               Matches(QueryInfo'[p].Query, Services[i].name)
    BY <1>1, <1>7 DEF OwedOK
  <2>2. status[m] = "open" /\ hLookup[m] \notin guessed =>
          \A p \in P : Cardinality(Missed(m, p)') + Gap(p)' <= excused[m]
    BY <1>1, <1>7 DEF OwedOK
  <2>3. status[m] = "done" /\ hLookup[m] \notin guessed => Cardinality(owed[m]) <= excused[m]
    BY <1>1 DEF OwedOK
  <2> QED
    BY <1>4, <2>1, <2>2, <2>3 DEF OwedOK, Matches
<1> QED
  BY <1>6, <1>8

\* A query that goes on leaves the tables in order.
LEMMA TablesAdvance ==
  ASSUME Inv, NEW h, NEW q \in FindQuery(h), Advance(q),
         UNCHANGED <<Services, nextId, dwHandleValue>>
  PROVE  /\ IdsOK' /\ NamesUnique' /\ HandlesOK'
         /\ QueryInfo' \in Seq(Query) /\ Len(QueryInfo') = Len(QueryInfo)
<1>1. TypeOK /\ IdsOK /\ NamesUnique /\ HandlesOK
  BY DEF Inv
<1>2. q \in 1 .. Len(QueryInfo)
  BY <1>1, QueryType
<1>3. /\ QueryInfo' \in Seq(Query) /\ Len(QueryInfo') = Len(QueryInfo)
      /\ \A p \in 1 .. Len(QueryInfo) : QueryInfo'[p].hHandle = QueryInfo[p].hHandle
  BY <1>1, <1>2, AdvanceProperties
<1> QED
  BY <1>1, <1>3 DEF IdsOK, NamesUnique, HandlesOK

LEMMA InvLookupServiceEnd ==
  ASSUME Inv, up = "up", NEW l \in Lookups, LookupServiceEnd(l)
  PROVE  Inv'
<1>1. /\ TypeOK /\ IdsOK /\ NamesUnique /\ HandlesOK
      /\ \A m \in Lookups : Told(m) /\ Handed(m) /\ OwedOK(m)
  BY DEF Inv
<1>2. PICK q \in FindQuery(hLookup[l]) : Advance(q)
  BY DEF LookupServiceEnd
<1>3. /\ status' = [status EXCEPT ![l] = "none"] /\ hLookup' = [hLookup EXCEPT ![l] = 0]
      /\ results' = [results EXCEPT ![l] = <<>>]
      /\ owed' = [owed EXCEPT ![l] = {}] /\ excused' = [excused EXCEPT ![l] = 0]
      /\ UNCHANGED <<ServiceClasses, dwHandleValue, Services, up, nextId, guessed>>
  BY DEF LookupServiceEnd
<1>4. /\ IdsOK' /\ NamesUnique' /\ HandlesOK'
      /\ QueryInfo' \in Seq(Query) /\ Len(QueryInfo') = Len(QueryInfo)
  BY <1>2, <1>3, TablesAdvance
<1>5. TypeOK'
  <2>1. /\ status' \in [Lookups -> {"none", "open", "done"}] /\ hLookup' \in [Lookups -> Nat]
        /\ owed' \in [Lookups -> SUBSET (1 .. MaxIds)] /\ excused' \in [Lookups -> Nat]
    BY <1>1, <1>3 DEF TypeOK
  <2>2. results' \in [Lookups -> Seq(1 .. MaxIds)]
    <3>1. <<>> \in Seq(1 .. MaxIds)
      BY EmptySeq
    <3> QED
      BY <1>1, <1>3, <3>1, Zenon DEF TypeOK
  <2> QED
    BY <1>1, <1>3, <1>4, <2>1, <2>2 DEF TypeOK, Query
<1>6. /\ status'[l] = "none" /\ hLookup'[l] = 0 /\ results'[l] = <<>> /\ owed'[l] = {}
      /\ \A m \in Lookups : m # l =>
           /\ status'[m] = status[m] /\ hLookup'[m] = hLookup[m] /\ results'[m] = results[m]
           /\ owed'[m] = owed[m] /\ excused'[m] = excused[m]
  BY <1>1, <1>3 DEF TypeOK
<1>7. ASSUME NEW m \in Lookups, m # l
      PROVE  Told(m)' /\ OwedOK(m)'
  BY <1>2, <1>3, <1>6, <1>7, OtherLookups
<1>8. Told(l)' /\ OwedOK(l)'
  <2>1. Len(<<>>) = 0
    OBVIOUS
  <2>2. Told(l)'
    BY <1>6, <2>1 DEF Told
  <2>3. OwedOK(l)'
    BY <1>6 DEF OwedOK
  <2> QED
    BY <2>2, <2>3
<1>9. ASSUME NEW m \in Lookups
      PROVE  Handed(m)'
  <2>1. CASE m = l
    BY <1>1, <1>3, <1>6, <2>1, NameServiceAssumption DEF Handed, TypeOK
  <2>2. CASE m # l
    BY <1>1, <1>3, <1>6, <2>2 DEF Handed
  <2> QED
    BY <2>1, <2>2
<1> QED
  BY <1>4, <1>5, <1>7, <1>8, <1>9 DEF Inv

LEMMA InvLookupServiceNext ==
  ASSUME Inv, up = "up", NEW l \in Lookups, LookupServiceNext(l)
  PROVE  Inv'
<1>1. /\ TypeOK /\ IdsOK /\ NamesUnique /\ HandlesOK
      /\ \A m \in Lookups : Told(m) /\ Handed(m) /\ OwedOK(m)
  BY DEF Inv
<1>2. PICK q \in FindQuery(hLookup[l]) :
        /\ Advance(q)
        /\ LET i == PerformQuery(q) IN
           \/ /\ i = 0
              /\ status' = [status EXCEPT ![l] = "done"]
              /\ UNCHANGED <<results, owed, excused>>
           \/ /\ i > 0
              /\ results' = [results EXCEPT ![l] = Append(@, Services[i].id)]
              /\ owed' = [owed EXCEPT ![l] = @ \ {Services[i].id}]
              /\ UNCHANGED <<status, excused>>
           \/ /\ i > 0 /\ "small" \in Faults
              /\ excused' = [excused EXCEPT ![l] = @ + 1]
              /\ UNCHANGED <<status, results, owed>>
  BY DEF LookupServiceNext
<1> DEFINE i == PerformQuery(q)
           d == Services[i].id
           r == results[l]
<1>3. /\ status[l] = "open"
      /\ UNCHANGED <<ServiceClasses, dwHandleValue, Services, up, nextId, hLookup, guessed>>
  BY DEF LookupServiceNext
<1>4. /\ IdsOK' /\ NamesUnique' /\ HandlesOK'
      /\ QueryInfo' \in Seq(Query) /\ Len(QueryInfo') = Len(QueryInfo)
  BY <1>2, <1>3, TablesAdvance
<1>5. /\ q \in 1 .. Len(QueryInfo) /\ QueryInfo[q].iIndex \in Nat
      /\ \A p \in FindQuery(hLookup[l]) : p = q
      /\ Len(Services) \in Nat
      /\ \A j \in 1 .. Len(Services) : Services[j].id \in 1 .. MaxIds
  <2>1. \A p \in FindQuery(hLookup[l]) : p \in 1 .. Len(QueryInfo) /\ QueryInfo[p].hHandle = hLookup[l]
    BY <1>1, QueryType
  <2>2. \A p \in FindQuery(hLookup[l]) : p = q
    BY <1>1, <2>1 DEF HandlesOK
  <2> QED
    BY <1>1, <2>1, <2>2, TableType
<1>6. /\ i = 0 => Found(q) = {}
      /\ i # 0 => /\ i \in Ahead(q) /\ i \in 1 .. Len(Services) /\ \A j \in Found(q) : i <= j
      /\ Found(q) = {j \in Ahead(q) : Matches(QueryInfo[q].Query, Services[j].name)}
  BY <1>1, <1>5, PerformQueryProperties DEF Ahead
<1>7. /\ QueryInfo'[q].Query = QueryInfo[q].Query
      /\ QueryInfo'[q].iIndex = IF i # 0 THEN i ELSE QueryInfo[q].iIndex
      /\ Ahead(q)' \subseteq Ahead(q)
      /\ FindQuery(hLookup[l])' = FindQuery(hLookup[l])
  BY <1>1, <1>2, <1>3, <1>5, AdvanceProperties DEF FindQuery
<1>8. /\ r \in Seq(1 .. MaxIds) /\ Len(r) \in Nat /\ excused[l] \in Nat
      /\ owed[l] \subseteq 1 .. MaxIds /\ IsFiniteSet(owed[l])
  BY <1>1, LookupType, OwedFinite
<1>9. i # 0 => /\ d \in 1 .. MaxIds /\ d < nextId
               /\ \A k \in 1 .. Len(r) : r[k] # d
  BY <1>1, <1>5, <1>6 DEF IdsOK, Told
<1>10. /\ \/ r' = r
          \/ i # 0 /\ results'[l] = Append(r, d)
       /\ owed'[l] \subseteq owed[l]
       /\ excused'[l] \in Nat
       /\ \A m \in Lookups : m # l =>
            /\ status'[m] = status[m] /\ results'[m] = results[m]
            /\ owed'[m] = owed[m] /\ excused'[m] = excused[m]
       /\ \/ i = 0 /\ status'[l] = "done" /\ owed'[l] = owed[l] /\ excused'[l] = excused[l]
          \/ i # 0 /\ status'[l] = "open" /\ owed'[l] = owed[l] \ {d} /\ excused'[l] = excused[l]
          \/ i # 0 /\ status'[l] = "open" /\ owed'[l] = owed[l] /\ excused'[l] = excused[l] + 1
  BY <1>1, <1>2, <1>3, <1>6 DEF TypeOK
<1>11. TypeOK'
  <2>1. /\ status' \in [Lookups -> {"none", "open", "done"}]
        /\ owed' \in [Lookups -> SUBSET (1 .. MaxIds)] /\ excused' \in [Lookups -> Nat]
    <3>1. status \in [Lookups -> {"none", "open", "done"}] /\ excused \in [Lookups -> Nat]
      BY <1>1 DEF TypeOK
    <3>2. /\ status' \in [Lookups -> {"none", "open", "done"}]
          /\ excused' \in [Lookups -> Nat]
      BY <1>2, <3>1
    <3>3. owed \in [Lookups -> SUBSET (1 .. MaxIds)]
      BY <1>1 DEF TypeOK
    <3>4. owed' = owed \/ owed' = [owed EXCEPT ![l] = owed[l] \ {d}]
      BY <1>2
    <3>5. owed[l] \ {d} \in SUBSET (1 .. MaxIds)
      BY <1>8
    <3>6. owed' \in [Lookups -> SUBSET (1 .. MaxIds)]
      BY <3>3, <3>4, <3>5, Zenon
    <3> QED
      BY <3>2, <3>6
  <2>2. results' \in [Lookups -> Seq(1 .. MaxIds)]
    <3>1. i # 0 => Append(r, d) \in Seq(1 .. MaxIds)
      BY <1>8, <1>9, AppendProperties
    <3>2. results' = results \/ (i # 0 /\ results' = [results EXCEPT ![l] = Append(r, d)])
      BY <1>2, <1>6
    <3> QED
      BY <1>1, <3>1, <3>2, Zenon DEF TypeOK
  <2> QED
    BY <1>1, <1>3, <1>4, <2>1, <2>2 DEF TypeOK, Query
<1>12. ASSUME NEW m \in Lookups, m # l
       PROVE  Told(m)' /\ OwedOK(m)'
  BY <1>2, <1>3, <1>10, <1>12, OtherLookups
<1>13. Told(l)'
  <2>1. CASE results'[l] = r
    <3>1. /\ \A k \in 1 .. Len(r) : r[k] < nextId
          /\ \A k, m \in 1 .. Len(r) : r[k] = r[m] => k = m
          /\ \A k \in 1 .. Len(r) : \A j \in Ahead(q) : r[k] # Services[j].id
      BY <1>1 DEF Told
    <3>2. \A k \in 1 .. Len(r) : \A j \in Ahead(q)' : r[k] # Services[j].id
      BY <1>7, <3>1
    <3>3. /\ FindQuery(hLookup[l])' = FindQuery(hLookup[l])
          /\ \A p \in FindQuery(hLookup[l]) : p = q
          /\ q \in FindQuery(hLookup[l])
      BY <1>5, <1>7
    <3> QED
      BY <1>3, <2>1, <3>1, <3>2, <3>3 DEF Told
  <2>2. CASE i # 0 /\ results'[l] = Append(r, d)
    <3>1. /\ Len(results'[l]) = Len(r) + 1 /\ results'[l][Len(r) + 1] = d
          /\ \A k \in 1 .. Len(r) : results'[l][k] = r[k]
      BY <1>8, <1>9, <2>2, AppendProperties
    <3>2. \A k \in 1 .. Len(results'[l]) : k \in 1 .. Len(r) \/ k = Len(r) + 1
      BY <1>8, <3>1
    <3>3. \A k \in 1 .. Len(results'[l]) : results'[l][k] < nextId
      BY <1>1, <1>9, <2>2, <3>1, <3>2 DEF Told
    <3>4. \A k, m \in 1 .. Len(results'[l]) : results'[l][k] = results'[l][m] => k = m
      BY <1>1, <1>9, <2>2, <3>1, <3>2 DEF Told
    <3>5. \A j \in Ahead(q)' : Services[j].id # d
      BY <1>1, <1>3, <1>5, <1>6, <1>7, <2>2 DEF IdsOK, Ahead
    <3>6. \A k \in 1 .. Len(results'[l]), j \in Ahead(q)' : results'[l][k] # Services[j].id
      BY <1>1, <1>7, <2>2, <3>1, <3>2, <3>5 DEF Told
    <3> QED
      BY <1>3, <1>5, <1>7, <3>3, <3>4, <3>6 DEF Told
  <2> QED
    BY <1>10, <2>1, <2>2
<1>14. ASSUME hLookup[l] \notin guessed
       PROVE  /\ i # 0 => Missed(l, q)' \subseteq Missed(l, q) \cup {d} /\ Gap(q)' = 0
              /\ i = 0 => owed[l] = Missed(l, q)
  <2>1. \A e \in owed[l] : \E j \in 1 .. Len(Services) :
          Services[j].id = e /\ Matches(QueryInfo[q].Query, Services[j].name)
    BY <1>1, <1>3, <1>14 DEF OwedOK
  <2>2. \A e \in owed[l], j \in Ahead(q) : Services[j].id = e => j \in Found(q)
    BY <1>1, <1>6, <2>1 DEF IdsOK, Ahead
  <2>3. i = 0 => owed[l] = Missed(l, q)
    BY <1>6, <2>2 DEF Missed
  <2>4. ASSUME i # 0
        PROVE  Missed(l, q)' \subseteq Missed(l, q) \cup {d}
    <3> SUFFICES ASSUME NEW e \in Missed(l, q)', e # d, NEW j \in Ahead(q), Services[j].id = e
                 PROVE  FALSE
      BY <1>10 DEF Missed
    <3>1. e \in owed[l] /\ j \notin Ahead(q)'
      BY <1>3, <1>10 DEF Missed
    <3>2. j \in Found(q)
      BY <2>2, <3>1
    <3>3. i <= j /\ i # j
      BY <1>6, <2>4, <3>2
    <3>4. j \in 1 .. Len(Services) /\ i \in 1 .. Len(Services)
      BY <1>6, <2>4 DEF Ahead
    <3>5. j \in Ahead(q)'
      BY <1>3, <1>7, <2>4, <3>3, <3>4 DEF Ahead
    <3> QED
      BY <3>1, <3>5
  <2>5. i # 0 => Gap(q)' = 0
    BY <1>3, <1>5, <1>6, <1>7 DEF Gap
  <2> QED
    BY <2>3, <2>4, <2>5
<1>15. hLookup[l] \notin guessed =>
         /\ Cardinality(Missed(l, q)) + Gap(q) <= excused[l]
         /\ Gap(q) \in Nat /\ IsFiniteSet(Missed(l, q)) /\ Cardinality(Missed(l, q)) \in Nat
  <2>1. hLookup[l] \notin guessed => Cardinality(Missed(l, q)) + Gap(q) <= excused[l]
    BY <1>1, <1>3 DEF OwedOK
  <2>2. Gap(q) \in Nat
    BY <1>5 DEF Gap
  <2>3. IsFiniteSet(Missed(l, q)) /\ Cardinality(Missed(l, q)) \in Nat
    BY <1>8, FS_Subset, FS_CardinalityType DEF Missed
  <2> QED
    BY <2>1, <2>2, <2>3
<1>16. OwedOK(l)'
  <2>1. \A e \in owed'[l] : \E j \in 1 .. Len(Services') :
          /\ Services'[j].id = e
          /\ \A p \in FindQuery(hLookup[l])' : hLookup'[l] \notin guessed' =>
               Matches(QueryInfo'[p].Query, Services'[j].name)
    <3>1. \A e \in owed[l] : \E j \in 1 .. Len(Services) :
            /\ Services[j].id = e
            /\ hLookup[l] \notin guessed => Matches(QueryInfo[q].Query, Services[j].name)
      BY <1>1, <1>3 DEF OwedOK
    <3>2. \A e \in owed'[l] : \E j \in 1 .. Len(Services) :
            /\ Services[j].id = e
            /\ hLookup[l] \notin guessed => Matches(QueryInfo'[q].Query, Services[j].name)
      BY <1>7, <1>10, <3>1
    <3>3. \A p \in FindQuery(hLookup[l])' : p = q
      BY <1>5, <1>7
    <3>4. Services' = Services /\ hLookup' = hLookup /\ guessed' = guessed
      BY <1>3
    <3> QED
      BY <3>2, <3>3, <3>4, Zenon
  <2>2. ASSUME status'[l] = "open", hLookup[l] \notin guessed
        PROVE  Cardinality(Missed(l, q)') + Gap(q)' <= excused'[l]
    <3>1. i # 0 /\ Missed(l, q)' \subseteq Missed(l, q) \cup {d} /\ Gap(q)' = 0
      BY <1>10, <1>14, <2>2
    <3>2. /\ Cardinality(Missed(l, q)') \in Nat
          /\ Cardinality(Missed(l, q)') <= Cardinality(Missed(l, q)) + 1
          /\ Missed(l, q)' \subseteq Missed(l, q) =>
               Cardinality(Missed(l, q)') <= Cardinality(Missed(l, q))
      BY <1>15, <2>2, <3>1, AtMostOneMore
    <3>3. owed'[l] = owed[l] \ {d} => Missed(l, q)' \subseteq Missed(l, q)
      BY <3>1 DEF Missed
    <3> QED
      BY <1>8, <1>10, <1>15, <2>2, <3>1, <3>2, <3>3
  <2>3. ASSUME status'[l] = "done", hLookup[l] \notin guessed
        PROVE  Cardinality(owed'[l]) <= excused'[l]
    <3>1. owed[l] = Missed(l, q) /\ owed'[l] = owed[l] /\ excused'[l] = excused[l]
      BY <1>10, <1>14, <2>3
    <3> QED
      BY <1>8, <1>15, <2>3, <3>1
  <2>4. \A p \in FindQuery(hLookup[l])' : p = q
    BY <1>5, <1>7
  <2> QED
    BY <1>3, <2>1, <2>2, <2>3, <2>4 DEF OwedOK, Matches
<1>17. ASSUME NEW m \in Lookups
       PROVE  Handed(m)'
  <2>1. status'[m] = "none" => status[m] = "none" /\ m # l
    BY <1>10
  <2> QED
    BY <1>1, <1>3, <1>10, <2>1 DEF Handed
<1> QED
  BY <1>4, <1>11, <1>12, <1>13, <1>16, <1>17 DEF Inv

LEMMA InvInit == Init => Inv
<1> SUFFICES ASSUME Init
             PROVE  Inv
  OBVIOUS
<1> USE DEF Init
<1>1. TypeOK
  <2>1. <<>> \in BoundedSeq(Classes, MAX_SERVICE_CLASSES)
    <3>1. MAX_SERVICE_CLASSES \in Nat /\ <<>> \in Seq(Classes) /\ Len(<<>>) = 0
      BY NameServiceAssumption, EmptySeq
    <3>2. Len(<<>>) <= MAX_SERVICE_CLASSES
      BY <3>1
    <3> QED
      BY <3>1, <3>2, BoundedSeqProperties, Zenon
  <2>2. <<>> \in Seq(1 .. MaxIds) /\ nextId \in 1 .. MaxIds + 1
    BY NameServiceAssumption, EmptySeq
  <2>3. results \in [Lookups -> Seq(1 .. MaxIds)]
    BY <2>2, Zenon
  <2> QED
    BY <2>1, <2>2, <2>3, NameServiceAssumption DEF TypeOK
<1>2. IdsOK /\ HandlesOK /\ NamesUnique
  BY DEF IdsOK, HandlesOK, NamesUnique
<1>3. ASSUME NEW l \in Lookups
      PROVE  Told(l) /\ Handed(l) /\ OwedOK(l)
  <2>1. Told(l)
    BY DEF Told
  <2>2. Handed(l)
    BY DEF Handed
  <2>3. OwedOK(l)
    BY DEF OwedOK
  <2> QED
    BY <2>1, <2>2, <2>3
<1> QED
  BY <1>1, <1>2, <1>3 DEF Inv

LEMMA InvStep == Inv /\ [Next]_vars => Inv'
<1> SUFFICES ASSUME Inv, [Next]_vars
             PROVE  Inv'
  OBVIOUS
<1>1. ASSUME Next
      PROVE  Inv'
  <2>1. up = "up"
    BY <1>1 DEF Next
  <2>2. CASE GetServiceClassInfo
    BY <2>1, <2>2, InvGetServiceClassInfo
  <2>3. ASSUME NEW c \in Classes, InstallServiceClass(c)
        PROVE  Inv'
    BY <2>1, <2>3, InvInstallServiceClass
  <2>4. ASSUME NEW c \in Classes, NEW name \in Names, Register(c, name)
        PROVE  Inv'
    BY <2>1, <2>4, InvRegister
  <2>5. ASSUME NEW c \in Classes, NEW name \in Names, Deregister(c, name)
        PROVE  Inv'
    BY <2>1, <2>5, InvDeregister
  <2>6. ASSUME NEW l \in Lookups, NEW query \in Queries, LookupServiceBegin(l, query)
        PROVE  Inv'
    BY <2>1, <2>6, InvLookupServiceBegin
  <2>7. ASSUME NEW l \in Lookups, LookupServiceNext(l)
        PROVE  Inv'
    BY <2>1, <2>7, InvLookupServiceNext
  <2>8. ASSUME NEW l \in Lookups, LookupServiceEnd(l)
        PROVE  Inv'
    BY <2>1, <2>8, InvLookupServiceEnd
  <2>9. ASSUME NEW l \in Lookups, UnknownHandle(l)
        PROVE  Inv'
    BY <2>1, <2>9, InvUnknownHandle
  <2> QED
    BY <1>1, <2>2, <2>3, <2>4, <2>5, <2>6, <2>7, <2>8, <2>9 DEF Next
<1>2. ASSUME UNCHANGED vars
      PROVE  Inv'
  <2>1. TypeOK' /\ IdsOK' /\ NamesUnique' /\ HandlesOK'
    BY <1>2 DEF vars, Inv, TypeOK, IdsOK, NamesUnique, HandlesOK
  <2>2. ASSUME NEW l \in Lookups
        PROVE  Told(l)' /\ Handed(l)' /\ OwedOK(l)'
    <3>1. Told(l)'
      BY <1>2 DEF vars, Inv, Told, FindQuery, Ahead
    <3>2. Handed(l)'
      BY <1>2 DEF vars, Inv, Handed
    <3>3. OwedOK(l)'
      BY <1>2 DEF vars, Inv, OwedOK, FindQuery, Missed, Gap, Ahead, Matches
    <3> QED
      BY <3>1, <3>2, <3>3
  <2> QED
    BY <2>1, <2>2 DEF Inv
<1> QED
  BY <1>1, <1>2

(* The inductive invariant: the tables are in order, and what each lookup  *)
(* was told of and is still owed fits the place its query has reached.     *)
THEOREM Invariance == Spec => []Inv
BY InvInit, InvStep, PTL DEF Spec
-----------------------------------------------------------------------------
\* The tables of the service keep their sizes and their entries' types.
THEOREM TypeCorrect == Spec => []TypeOK
<1>1. Inv => TypeOK
  BY DEF Inv
<1> QED
  BY <1>1, Invariance, PTL

\* The search of LookupService (151-176) keeps a second service of a name
\* out, if its class is known.
THEOREM NamesStayUnique == Spec => []NamesUnique
<1>1. Inv => NamesUnique
  BY DEF Inv
<1> QED
  BY <1>1, Invariance, PTL

(* iIndex only grows, and the service that fills a vacancy comes from      *)
(* behind: no lookup is told of a service twice.                           *)
THEOREM NeverRepeats == Spec => []NoRepeat
<1>1. Inv => NoRepeat
  <2> SUFFICES ASSUME Inv, NEW l \in Lookups
               PROVE  IsInjective(results[l])
    BY DEF NoRepeat
  <2>1. /\ DOMAIN results[l] = 1 .. Len(results[l])
        /\ \A k, m \in 1 .. Len(results[l]) : results[l][k] = results[l][m] => k = m
    BY LookupType DEF Inv, Told
  <2> QED
    BY <2>1 DEF IsInjective
<1> QED
  BY <1>1, Invariance, PTL

(* At most one matching service is missed for each removal and each result *)
(* the application's buffer was too small for.                             *)
THEOREM AllReturned == Spec => []ReturnedButForRemovals
<1>1. Inv => ReturnedButForRemovals
  BY DEF Inv, OwedOK, ReturnedButForRemovals
<1> QED
  BY <1>1, Invariance, PTL
=============================================================================
