---------------------------- MODULE LspInstaller ----------------------------
(* chapter12/LSP/instlsp.cpp: the installer of the layered provider, run   *)
(* one command after another by the builds of Lsps (each with a            *)
(* ProviderGuid of its own).  External: the Winsock catalog, where a       *)
(* provider GUID is installed once and every entry gets a new id.          *)
(* An entry is [id, guid, chain]; a chain of length 0 is a hidden          *)
(* (LAYERED_PROTOCOL) entry, of length 1 a BASE_PROTOCOL.                  *)
EXTENDS Integers, Sequences, SequencesExt, FiniteSets

CONSTANTS
  Lsps,              \* the builds of the provider
  BaseProtocols,     \* number of base entries
  MaxOver,           \* bound of the model: -o options of a command
  MaxCommands,       \* bound of the model: commands
  MaxCatalogFaults   \* bound of the model: failing catalog calls

ASSUME InstallerAssumption == BaseProtocols \in Nat \ {0} /\ MaxOver \in Nat

VARIABLES
  catalog,           \* sequence of the entries, in provider order
  nextId,            \* the id of the next entry
  command,           \* [op, lsp, over]
  instMain,             \* <<label, index>>
  layers,            \* OriginalProtocolInfo: the chains to install
  info,              \* ProtocolInfo as last read
  LayeredCatalogId,
  GuidOrder,
  Cleanup,           \* CleanupProtoInfo
  before,            \* the GUIDs in order when the command began
  strange,           \* what went wrong: "odd", "guess", the operations with a failed call
  commands, catalogFaults

instVars == <<catalog, nextId, command, instMain, layers, info, LayeredCatalogId, GuidOrder, Cleanup,
              before, strange, commands, catalogFaults>>
localVars == <<layers, info, LayeredCatalogId, GuidOrder, Cleanup>>

NOID == 0
BASE == <<"base", 0>>
DummyGuid(lsp) == <<lsp, 0>>          \* ProviderGuid; <<lsp, n>> are its layers

InstallerInit ==
  /\ catalog = [i \in 1 .. BaseProtocols |-> [id |-> i, guid |-> BASE, chain |-> <<NOID>>]]
  /\ nextId = BaseProtocols + 1
  /\ command = [op |-> "none", lsp |-> "none", over |-> <<>>]
  /\ instMain = <<"idle", 0>>
  /\ layers = <<>> /\ info = <<>> /\ LayeredCatalogId = NOID /\ GuidOrder = <<>> /\ Cleanup = <<>>
  /\ before = <<>> /\ strange = {} /\ commands = 0 /\ catalogFaults = 0

Ids == {e.id : e \in ToSet(catalog)}
IdsOf(entries) == [i \in DOMAIN entries |-> entries[i].id]
Guids(entries) == [i \in DOMAIN entries |-> entries[i].guid]
IsIdinChain(e, id) == Contains(e.chain, id)
With(entries, id) == SelectSeq(entries, LAMBDA e : IsIdinChain(e, id))
Without(entries, id) == SelectSeq(entries, LAMBDA e : ~IsIdinChain(e, id))
FirstOf(entries, guid) == SelectInSeq(entries, LAMBDA e : e.guid = guid)

At(label) == instMain[1] = label
Goes(label, i) == instMain' = <<label, i>>
Index == instMain[2]

\* The catalog's calls.  Each can fail; catalogFaults counts the failures
\* for no reason of ours.
CatalogFails ==
  /\ catalogFaults < MaxCatalogFaults /\ catalogFaults' = catalogFaults + 1
  /\ strange' = strange \cup {command.op} /\ UNCHANGED <<catalog, nextId>>
Works == UNCHANGED <<strange, catalogFaults>>
CanInstall(guid) == FirstOf(catalog, guid) = 0
WSCInstallProvider(guid, chain) ==
  /\ CanInstall(guid)
  /\ catalog' = Append(catalog, [id |-> nextId, guid |-> guid, chain |-> chain])
  /\ nextId' = nextId + 1 /\ Works
WSCDeinstallProvider(guid) ==
  /\ ~CanInstall(guid)
  /\ catalog' = SelectSeq(catalog, LAMBDA e : e.guid # guid) /\ UNCHANGED nextId /\ Works
WSCWriteProviderOrder(order) ==
  /\ ToSet(order) = Ids /\ Len(order) = Len(catalog)
  /\ catalog' = [i \in DOMAIN order |-> CHOOSE e \in ToSet(catalog) : e.id = order[i]]
  /\ UNCHANGED nextId /\ Works
CatalogRefused == UNCHANGED <<catalog, nextId>> /\ Works
-----------------------------------------------------------------------------
\* The command line: -i -o id ..., -i -a, -r or -f.  -o may name an id that
\* is not there, -a and -o a hidden entry.
OverLists == (SeqOf(Ids \cup {nextId}, MaxOver) \ {<<>>}) \cup {IdsOf(catalog)}
Odd(id) == id \notin Ids \/ \E e \in ToSet(catalog) : e.id = id /\ e.chain = <<>>

Begin(op, lsp, over) ==
  /\ At("idle") /\ commands < MaxCommands /\ commands' = commands + 1
  /\ command' = [op |-> op, lsp |-> lsp, over |-> over]
  /\ before' = Guids(catalog)
  /\ strange' = IF op = "install" /\ \E id \in ToSet(over) : Odd(id)
                THEN strange \cup {"odd"} ELSE strange
  /\ Goes(op, 1)
  /\ UNCHANGED <<catalog, nextId, localVars, catalogFaults>>

\* InstallProvider's copy of the entries to layer over, in the order of the
\* options; one that is not in the catalog leaves a zeroed copy at the end.
Copies(over) ==
  LET there == SelectSeq(over, LAMBDA id : id \in Ids)
  IN [i \in DOMAIN over |->
        IF i <= Len(there) THEN CHOOSE e \in ToSet(catalog) : e.id = there[i]
        ELSE [id |-> NOID, guid |-> BASE, chain |-> <<>>]]

InstallDummy ==
  /\ At("install") /\ info' = Copies(command.over)
  /\ \/ WSCInstallProvider(DummyGuid(command.lsp), <<>>) /\ Goes("chains", 1)
     \/ ~CanInstall(DummyGuid(command.lsp)) /\ CatalogRefused /\ Goes("idle", 0)
     \/ CatalogFails /\ Goes("idle", 0)
  /\ UNCHANGED <<command, layers, LayeredCatalogId, GuidOrder, Cleanup, before, commands>>

\* The hidden entry's id goes in front of each chain.
Layered(e, id) == <<id>> \o (IF Len(e.chain) = 1 THEN <<e.id>> ELSE e.chain)

BuildChains ==
  /\ At("chains")
  /\ LayeredCatalogId' = catalog[FirstOf(catalog, DummyGuid(command.lsp))].id
  /\ layers' = [i \in DOMAIN info |-> Layered(info[i], LayeredCatalogId')]
  /\ Goes("layer", 1)
  /\ UNCHANGED <<catalog, nextId, command, info, GuidOrder, Cleanup, before, strange, commands, catalogFaults>>

\* UuidCreate and WSCInstallProvider; a failure ends the command.
InstallLayer ==
  /\ At("layer") /\ Index <= Len(layers)
  /\ \/ WSCInstallProvider(<<command.lsp, nextId>>, layers[Index]) /\ Goes("layer", Index + 1)
     \/ CatalogFails /\ Goes("idle", 0)
  /\ UNCHANGED <<command, localVars, before, commands>>

\* The entries with our id in their chain first, then the rest.
NewOrder == IdsOf(With(catalog, LayeredCatalogId) \o Without(catalog, LayeredCatalogId))

Reorder ==
  /\ At("layer") /\ Index > Len(layers) /\ Goes("idle", 0)
  /\ WSCWriteProviderOrder(NewOrder) \/ CatalogFails
  /\ UNCHANGED <<command, localVars, before, commands>>
-----------------------------------------------------------------------------
\* RemoveProvider.  If the provider is not installed LayeredCatalogId keeps
\* whatever was on the stack.
FindLayer ==
  /\ At("remove") /\ info' = catalog /\ Goes("deinstall", 1)
  /\ LET i == FirstOf(catalog, DummyGuid(command.lsp))
     IN IF i # 0 THEN LayeredCatalogId' = catalog[i].id /\ UNCHANGED strange
        ELSE LayeredCatalogId' \in Ids \cup {NOID} /\ strange' = strange \cup {"guess"}
  /\ UNCHANGED <<catalog, nextId, command, layers, GuidOrder, Cleanup, before, commands, catalogFaults>>

OwnLayer(e) == Len(e.chain) > 1 /\ e.chain[1] = LayeredCatalogId

\* Deinstalls one GUID; a failure is printed.
Deinstalls(guid) == WSCDeinstallProvider(guid) \/ CatalogFails
NotThere(guid) == CanInstall(guid) /\ CatalogRefused

DeinstallLayers ==
  /\ At("deinstall") /\ Index <= Len(info) /\ Goes("deinstall", Index + 1)
  /\ IF OwnLayer(info[Index]) THEN Deinstalls(info[Index].guid) ELSE CatalogRefused
  /\ UNCHANGED <<command, localVars, before, commands>>

DeinstallDummy ==
  /\ At("deinstall") /\ Index > Len(info) /\ Goes("collect", 0)
  /\ Deinstalls(DummyGuid(command.lsp)) \/ NotThere(DummyGuid(command.lsp))
  /\ UNCHANGED <<command, localVars, before, commands>>

WithoutTop(chain, id) == Tail(chain)                          \* mutant
RemoveIdFromChain(chain, id) == RemoveFirst(chain, id)

\* What is layered over the removed provider, without its id.
Collect ==
  /\ At("collect")
  /\ GuidOrder' = Guids(catalog)
  /\ LET over == With(catalog, LayeredCatalogId)
     IN /\ Cleanup' = [i \in DOMAIN over |->
                         [over[i] EXCEPT !.chain = RemoveIdFromChain(@, LayeredCatalogId)]]
        /\ IF over = <<>> THEN Goes("idle", 0) ELSE Goes("out", 1)
  /\ UNCHANGED <<catalog, nextId, command, layers, info, LayeredCatalogId, before, strange, commands, catalogFaults>>

TakeOut ==
  /\ At("out") /\ Index <= Len(Cleanup) /\ Goes("in", Index)
  /\ Deinstalls(Cleanup[Index].guid) \/ NotThere(Cleanup[Index].guid)
  /\ UNCHANGED <<command, localVars, before, commands>>

PutBack ==
  /\ At("in") /\ Goes("out", Index + 1)
  /\ LET guid == Cleanup[Index].guid
     IN WSCInstallProvider(guid, Cleanup[Index].chain) \/ (~CanInstall(guid) /\ CatalogRefused) \/ CatalogFails
  /\ UNCHANGED <<command, localVars, before, commands>>

\* The ids in the order of GuidOrder: of several entries with one GUID each
\* is taken once, and an entry that is gone leaves a 0.
OldOrder ==
  LET n == Len(catalog)
      Before(i) == Cardinality({j \in 1 .. i - 1 : GuidOrder[j] = GuidOrder[i]})
      Same(i) == SelectSeq(catalog, LAMBDA e : e.guid = GuidOrder[i])
  IN [i \in 1 .. n |-> IF Before(i) < Len(Same(i)) THEN Same(i)[Before(i) + 1].id ELSE NOID]

RestoreOrder ==
  /\ At("out") /\ Index > Len(Cleanup) /\ Goes("idle", 0)
  /\ \/ WSCWriteProviderOrder(OldOrder)
     \/ ToSet(OldOrder) # Ids /\ CatalogRefused
     \/ CatalogFails
  /\ UNCHANGED <<command, localVars, before, commands>>

\* RemoveAllLayeredEntries: the first entry that is not a base protocol, for
\* as long as there is one; one that cannot be removed is tried again.
RemoveAllLayeredEntries ==
  /\ At("removeall")
  /\ LET i == SelectInSeq(catalog, LAMBDA e : Len(e.chain) # 1)
     IN IF i = 0 THEN CatalogRefused /\ Goes("idle", 0)
        ELSE Deinstalls(catalog[i].guid) /\ Goes("removeall", 1)
  /\ UNCHANGED <<command, localVars, before, commands>>
-----------------------------------------------------------------------------
InstallerMain ==
  \/ InstallDummy \/ BuildChains \/ InstallLayer \/ Reorder
  \/ FindLayer \/ DeinstallLayers \/ DeinstallDummy \/ Collect \/ TakeOut \/ PutBack \/ RestoreOrder
  \/ RemoveAllLayeredEntries

InstallerNext ==
  \/ \E lsp \in Lsps, over \in OverLists : Begin("install", lsp, over)
  \/ \E lsp \in Lsps : Begin("remove", lsp, <<>>)
  \/ Begin("removeall", "none", <<>>)
  \/ InstallerMain
-----------------------------------------------------------------------------
\* Between commands every chain can be followed: hidden entries that exist,
\* then a base protocol.  Excused: a command line that names a hidden entry
\* or none (a layer of one link results, which looks like a base protocol), a
\* call that failed while removing, a removal that guesses its id; an install
\* that fails half way leaves whole chains.
ChainsWhole ==
  (At("idle") /\ strange \subseteq {"install"}) =>
    \A e \in ToSet(catalog) : Len(e.chain) > 1 =>
      /\ \A i \in 1 .. Len(e.chain) - 1 :
           \E h \in ToSet(catalog) : h.id = e.chain[i] /\ h.chain = <<>>
      /\ \E b \in ToSet(catalog) : b.id = Last(e.chain) /\ b.guid = BASE

\* Installing and removing a provider leaves the entries of everybody else
\* there and in their order, although removal takes those above it out of
\* the catalog and appends them again (lines 411-424, 611-662).
Others(guids) == SelectSeq(guids, LAMBDA g : g[1] # command.lsp)
OthersInOrder ==
  (At("idle") /\ command.op \in {"install", "remove"} /\ strange \subseteq {"odd", "install"}) =>
    Others(Guids(catalog)) = Others(before)

\* A removal leaves no reference to the provider, whatever it was layered
\* over; -f leaves base protocols alone.
RemovedGone ==
  (At("idle") /\ strange \subseteq {"odd", "install"}) =>
    /\ command.op = "remove" => With(catalog, LayeredCatalogId) = <<>>
    /\ command.op = "removeall" => \A e \in ToSet(catalog) : Len(e.chain) = 1

CatalogRight == ChainsWhole /\ OthersInOrder /\ RemovedGone
InstallerEnds == At("idle") /\ commands = MaxCommands
=============================================================================
