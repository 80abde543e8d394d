----------------------------- MODULE TenantRegistry -----------------------------
(***************************************************************************)
(* The durable tenant catalog of the Host (src/tenant-registry.ts): one    *)
(* document in memory and on disk, its migration when a build with other   *)
(* official tenants opens it, and the changes to custom tenants.           *)
(*                                                                         *)
(* A tenant's backend is its host, and own says that its endpoints are the *)
(* ones derived from that host.  Names, and the counter of commits, are    *)
(* left out.  No two tenants share a backend (BackendsAreUnique), so the   *)
(* order of the tenants in the document does not matter and they are a set.*)
(***************************************************************************)
EXTENDS Naturals, FiniteSets, FiniteSetsExt

CONSTANTS
  Hosts,       \* the hosts of backends
  Catalogs,    \* the official hosts of the builds: <<primary, secondary>>
  MaxTenants,  \* bound on the tenants the user creates
  Failures     \* may a write fail?

ASSUME CatalogsAssumption ==
  Hosts \subseteq Nat /\ \A c \in Catalogs : c \in Hosts \X Hosts /\ c[1] # c[2]

Slots == {1, 2}   \* OFFICIALS: the primary and the secondary slot

VARIABLES
  catalog,   \* AWIKI_BUILTIN_TENANT_CONFIG of the installed build
  file,      \* filePath: the document on disk
  backup,    \* backupPath: the document before its first change
  registry   \* this.document, or Closed before open() has succeeded

vars == <<catalog, file, backup, registry>>

-----------------------------------------------------------------------------
(* Documents.                                                               *)

BuiltIn(slot) == <<"builtin", slot, 0>>
Former(slot) == <<"official", slot, 0>>     \* legacyTenantId
Custom(scope, suffix) == <<"custom", scope, suffix>>
Uuid(n) == <<"uuid", n, 0>>

\* The storage scopes builtin-<slot>-v1 are 1 and 2, random ones follow.
FreshScope(ts) == 1 + Max({t.scope : t \in ts} \cup Slots)

Tenant(id, scope, kind, host, own, lifecycle, layout) ==
  [id |-> id, scope |-> scope, prior |-> {}, kind |-> kind, host |-> host, own |-> own,
   lifecycle |-> lifecycle, layout |-> layout]

Document(active, ts) == [active |-> active, tenants |-> ts]
NoFile == Document(<<"none", 0, 0>>, {})
Closed == NoFile

\* tenantStateRoot(): the directory of the tenant's identity and messages.
Root(t) ==
  <<t.layout, IF t.layout = "domain-v1" THEN t.host
              ELSE IF t.layout = "scope-v1" THEN t.scope ELSE 0>>

Distinct(ts, F(_)) == \A t, u \in ts : F(t) = F(u) => t = u

Decodes(d) ==
  /\ Distinct(d.tenants, LAMBDA t : t.id)
  /\ {t.id : t \in {u \in d.tenants : u.lifecycle = "active"}} = {d.active}

ScopesDistinct(d) == Distinct(d.tenants, LAMBDA t : t.scope)

Valid(d) == Decodes(d) /\ ScopesDistinct(d) /\ Distinct(d.tenants, Root)

Activate(d, id) ==
  Document(id, {[t EXCEPT !.lifecycle = IF t.id = id THEN "active"
                                        ELSE IF @ = "active" THEN "inactive" ELSE @] :
                t \in d.tenants})

-----------------------------------------------------------------------------
(* reconcileOfficials()                                                     *)

Official(c, slot, ts) ==
  Tenant(BuiltIn(slot), FreshScope(ts), "built_in", c[slot], TRUE, "inactive", "scope-v1")

SameOfficialEndpoint(t, c, slot) == t.host = c[slot] /\ t.own

PreservedId(ts, t) ==
  LET taken(n) == \E u \in ts : u.id = Custom(t.scope, n)
  IN Custom(t.scope, IF ~taken(0) THEN 0
                     ELSE CHOOSE n \in 2..(2 + Cardinality(ts)) :
                            ~taken(n) /\ \A m \in 2..(n - 1) : taken(m))

\* Mutant: the active tenant is still named by its old id.
ReplaceNotActive(d, t, u) == Document(d.active, (d.tenants \ {t}) \cup {u})

Replace(d, t, u) ==
  Document(IF d.active = t.id THEN u.id ELSE d.active, (d.tenants \ {t}) \cup {u})

\* Mutant: the old ids of a preserved environment are dropped.
PreserveForgets(d, t) ==
  Replace(d, t, [t EXCEPT !.id = PreservedId(d.tenants, t), !.kind = "custom"])

\* An official slot whose endpoint has changed keeps its environment as a custom tenant.
Preserve(d, t) ==
  Replace(d, t, [t EXCEPT !.id = PreservedId(d.tenants, t), !.kind = "custom",
                          !.prior = {t.id} \cup @])

\* Mutant: the storage layout of the official profile is taken too.
PromoteMoves(d, t, slot) ==
  Replace(d, t, [t EXCEPT !.id = BuiltIn(slot), !.kind = "built_in", !.layout = "scope-v1",
                          !.prior = IF t.id = BuiltIn(slot) THEN @ ELSE {t.id} \cup @])

\* The tenant with the official endpoint becomes the official one, in place.
Promote(d, t, slot) ==
  Replace(d, t, [t EXCEPT !.id = BuiltIn(slot), !.kind = "built_in",
                          !.prior = IF t.id = BuiltIn(slot) THEN @ ELSE {t.id} \cup @])

ReconcileSlot(d, c, slot) ==
  LET exact(e)  == {t \in e.tenants : t.id = BuiltIn(slot)}
      former(e) == {t \in e.tenants : t.id = Former(slot)}
      same(ts)  == {t \in ts : SameOfficialEndpoint(t, c, slot)}
      kept      == IF exact(d) = same(exact(d)) THEN d
                   ELSE Preserve(d, CHOOSE t \in exact(d) : TRUE)
      demoted   == IF same(exact(kept)) # {} \/ former(kept) = same(former(kept)) THEN kept
                   ELSE LET t == CHOOSE t \in former(kept) : TRUE
                        IN Replace(kept, t, [t EXCEPT !.kind = "custom"])
  IN IF same(demoted.tenants) # {}
     THEN Promote(demoted, CHOOSE t \in same(demoted.tenants) : TRUE, slot)
     ELSE Document(demoted.active, demoted.tenants \cup {Official(c, slot, demoted.tenants)})

\* Mutant: a migration puts the user back to the default slot.
ReconcileResets(d, c) ==
  Activate(ReconcileSlot(ReconcileSlot(d, c, 1), c, 2), BuiltIn(1))

ReconcileOfficials(d, c) ==
  LET e == ReconcileSlot(ReconcileSlot(d, c, 1), c, 2) IN Activate(e, e.active)

-----------------------------------------------------------------------------
(* Documents the program starts from.                                       *)

FreshDocument(c) ==
  LET first == Official(c, 1, {})
  IN Activate(Document(BuiltIn(1), {first, Official(c, 2, {first})}), BuiltIn(1))

\* legacyDocument(): the base directory belongs to the host of the old configuration.
LegacyDocument(c, host, own) ==
  LET slots == {s \in Slots : c[s] = host}
      scope == FreshScope({})
      id    == IF slots = {} THEN Uuid(scope) ELSE BuiltIn(CHOOSE s \in slots : TRUE)
      kind  == IF slots = {} THEN "custom" ELSE "built_in"
  IN ReconcileOfficials(
       Document(id, {Tenant(id, scope, kind, host, own, "active", "legacy-base")}), c)

\* A document of an earlier release: the official tenants had other ids.
FormerDocument(hosts, active, layout) ==
  Document(Former(active),
    {Tenant(Former(s), s, "built_in", hosts[s], TRUE,
            IF s = active THEN "active" ELSE "inactive", layout) : s \in Slots})

\* One that gave the new primary tenant the storage scope of the environment it replaced.
Collided(hosts, old, active) ==
  Document(active,
    {Tenant(BuiltIn(1), 1, "built_in", hosts[1], TRUE,
            IF active = BuiltIn(1) THEN "active" ELSE "inactive", "scope-v1"),
     Tenant(BuiltIn(2), 2, "built_in", hosts[2], TRUE, "inactive", "scope-v1"),
     Tenant(Custom(1, 0), 1, "custom", old, TRUE,
            IF active = BuiltIn(1) THEN "inactive" ELSE "active", "scope-v1")})

BeforeCollision(hosts, old) ==
  Document(BuiltIn(1),
    {Tenant(BuiltIn(1), 1, "built_in", old, TRUE, "active", "scope-v1"),
     Tenant(BuiltIn(2), 2, "built_in", hosts[2], TRUE, "inactive", "scope-v1")})

Init ==
  /\ catalog \in Catalogs /\ registry = Closed
  /\ \/ file = NoFile /\ backup = NoFile
     \/ /\ \E hosts \in Catalogs, s \in Slots, layout \in {"scope-v1", "domain-v1"} :
             file = FormerDocument(hosts, s, layout)
        /\ backup = NoFile
     \/ \E hosts \in Catalogs, active \in {BuiltIn(1), Custom(1, 0)} :
          \E old \in Hosts \ {hosts[1], hosts[2]} :
            /\ file = Collided(hosts, old, active)
            /\ backup = BeforeCollision(hosts, old)

-----------------------------------------------------------------------------
(* persist()                                                                *)

Backed == IF backup = NoFile THEN file ELSE backup

Saves(d) == Valid(d) /\ file' = d /\ backup' = Backed

\* The document is refused, or a write fails before the rename.
SaveFails(d) ==
  /\ UNCHANGED file
  /\ \/ ~Valid(d) /\ UNCHANGED backup
     \/ Failures /\ Valid(d) /\ backup' \in {backup, Backed}

-----------------------------------------------------------------------------
(* open()                                                                   *)

\* repairCatalogCollision(), if the identities below the shared root allow it.
Repaired ==
  LET sharing(s) == {t \in file.tenants : t.scope = s}
      current(s) == {t \in sharing(s) : t.id = BuiltIn(s) /\ SameOfficialEndpoint(t, catalog, s)}
      preserved(s) == {t \in sharing(s) : t.kind = "custom" /\ t.id = Custom(s, 0)}
      owners(s) == {t \in backup.tenants : t.scope = s}
      fits(s) ==
        /\ Cardinality(sharing(s)) = 2 /\ current(s) # {} /\ preserved(s) # {}
        /\ \A t \in sharing(s) : t.layout = "scope-v1"
        /\ Cardinality(owners(s)) = 1
        /\ \A o \in owners(s), t \in preserved(s) :
             <<o.layout, o.host, o.own>> = <<t.layout, t.host, t.own>>
      Split(d, s) ==
        IF fits(s)
        THEN LET t == CHOOSE t \in current(s) : TRUE
             IN Replace(d, t, [t EXCEPT !.scope = FreshScope(d.tenants)])
        ELSE d
  IN IF backup = NoFile THEN file ELSE Split(Split(file, 1), 2)

\* The document that open() reads.
Readable ==
  IF Decodes(file) /\ ScopesDistinct(file) THEN {file}
  ELSE IF Decodes(file) /\ Valid(Repaired) THEN {Repaired}
  ELSE {}

Open ==
  /\ registry = Closed /\ file # NoFile
  /\ \E read \in Readable :
       LET d == ReconcileOfficials(read, catalog)
       IN /\ Valid(d) /\ registry' = d
          /\ IF d = file THEN UNCHANGED <<file, backup>> ELSE Saves(d)
  /\ UNCHANGED catalog

\* Nothing is opened: the document is left for repair, or could not be written.
OpenFails ==
  /\ registry = Closed /\ file # NoFile
  /\ \/ /\ \/ ~ScopesDistinct(file)  \* the identities there are not the preserved tenant's
           \/ \A read \in Readable : ~Valid(ReconcileOfficials(read, catalog))
        /\ UNCHANGED <<file, backup>>
     \/ \E read \in Readable :
          LET d == ReconcileOfficials(read, catalog) IN d # file /\ SaveFails(d)
  /\ UNCHANGED <<catalog, registry>>

\* The first start: a fresh installation, or a base directory in use.
OpenFirst ==
  /\ registry = Closed /\ file = NoFile
  /\ \E d \in {FreshDocument(catalog)}
              \cup {LegacyDocument(catalog, h, own) : h \in Hosts, own \in BOOLEAN} :
       Valid(d) /\ file' = d /\ registry' = d
  /\ UNCHANGED <<catalog, backup>>

-----------------------------------------------------------------------------
(* Changes of an open registry.                                             *)

\* The change is kept in memory whether or not it can be written.
Change(d) == registry' = d /\ (Saves(d) \/ SaveFails(d)) /\ UNCHANGED catalog

CreateCustom(host) ==
  /\ registry # Closed
  /\ \A t \in registry.tenants : t.host # host
  /\ Cardinality(registry.tenants) < MaxTenants
  /\ LET scope == FreshScope(registry.tenants)
     IN Change(Document(registry.active, registry.tenants \cup
          {Tenant(Uuid(scope), scope, "custom", host, TRUE, "inactive", "scope-v1")}))

RenameCustom ==
  /\ registry # Closed
  /\ \E t \in registry.tenants : t.kind = "custom"
  /\ Change(registry)

ArchiveCustom ==
  /\ registry # Closed
  /\ \E t \in registry.tenants :
       /\ t.kind = "custom" /\ t.lifecycle # "active"
       /\ Change(Replace(registry, t, [t EXCEPT !.lifecycle = "archived"]))

CommitActive ==
  /\ registry # Closed
  /\ \E t \in registry.tenants :
       LET d == Activate(registry, t.id)
       IN /\ t.lifecycle # "archived"
          /\ \/ Saves(d) /\ registry' = d
             \/ SaveFails(d) /\ UNCHANGED registry
  /\ UNCHANGED catalog

\* The Host ends, at any time, and starts again, perhaps as another build.
Restart ==
  /\ registry' = Closed
  /\ catalog' \in Catalogs
  /\ UNCHANGED <<file, backup>>

Next ==
  \/ Open \/ OpenFails \/ OpenFirst
  \/ \E host \in Hosts : CreateCustom(host)
  \/ RenameCustom \/ ArchiveCustom \/ CommitActive
  \/ Restart

Spec == Init /\ [][Next]_vars

-----------------------------------------------------------------------------
(* Properties.                                                              *)

Tenants == registry.tenants

TypeOK ==
  /\ catalog \in Catalogs
  /\ \A d \in {file, backup, registry} :
       \A t \in d.tenants :
         /\ t.scope \in Nat /\ t.host \in Hosts /\ t.own \in BOOLEAN
         /\ t.kind \in {"built_in", "custom"}
         /\ t.lifecycle \in {"active", "inactive", "archived"}
         /\ t.layout \in {"scope-v1", "legacy-base", "domain-v1"}

\* No two tenants share a backend, so the order in which a slot looks for its tenant
\* does not matter.
BackendsAreUnique ==
  \A t, u \in Tenants : t.host = u.host /\ t.own = u.own => t = u

\* Every open registry has one active tenant, and no two tenants share an id, a storage
\* scope, a directory or a backend: validateDocument() never has a reason to refuse it.
RegistryIsValid == registry # Closed => Valid(registry) /\ BackendsAreUnique

\* Both slots are there with the endpoint of the build, and opening the document again
\* changes nothing: a second start writes nothing.
ReconciledOnce ==
  registry # Closed =>
    /\ \A s \in Slots : \E t \in registry.tenants :
         t.id = BuiltIn(s) /\ t.kind = "built_in" /\ SameOfficialEndpoint(t, catalog, s)
    /\ ReconcileOfficials(registry, catalog) = registry

\* A document the registry has written can be opened by every build.
EveryBuildOpens ==
  registry # Closed => \A c \in Catalogs : Valid(ReconcileOfficials(file, c))

\* No write loses a directory, or gives it to another backend.
Data(d) == {<<Root(t), t.host>> : t \in d.tenants}
DataIsKept == [][file # NoFile /\ Valid(file) => Data(file) \subseteq Data(file')]_vars

\* Opening never changes which environment the user is in, whatever the ids become.
ActiveData(d) == {<<Root(t), t.host>> : t \in {u \in d.tenants : u.id = d.active}}
ActiveIsKept ==
  [][registry = Closed /\ file # NoFile /\ Valid(file) => ActiveData(file) = ActiveData(file')]_vars

\* A storage scope never loses an id its preferences may be stored under.
PreferencesFollow ==
  [][file # NoFile /\ Valid(file) =>
       \A t \in file.tenants : \E u \in file'.tenants :
         u.scope = t.scope /\ {t.id} \cup t.prior \subseteq {u.id} \cup u.prior]_vars

\* "official tenants cannot be archived"
OfficialsUsable ==
  \A t \in Tenants : t.kind = "built_in" => t.lifecycle # "archived"

\* "All mutations are synchronous, backup-aware, and atomic."
ChangesAreAtomic == registry # Closed => registry = file
=============================================================================
