----------------------------- MODULE HostFilesProofs -----------------------------
(***************************************************************************)
(* The files the Host keeps itself: the registry of its tenants, and what  *)
(* it has of an identity (LocalData).                                      *)
(*                                                                         *)
(* TenantRegistry, for any hosts, builds, number of tenants and failed     *)
(* writes: the type of the documents, that no write loses a directory, a   *)
(* preference or the active environment, and that every build opens what   *)
(* the registry has written.  The invariant relates the document in memory *)
(* to the one on disk, which it may be ahead of; the lemmas say what each  *)
(* change of a document keeps.                                             *)
(*                                                                         *)
(* LocalData, for any number of calls, identities, images and chats: that  *)
(* no update is lost, what a clear leaves, that an eviction keeps the      *)
(* budget of the cache and the image it was made for, and the types.       *)
(***************************************************************************)
EXTENDS TenantRegistry, LocalData, FiniteSetTheorems, SequenceTheorems, TLAPS

Ids == {"none", "builtin", "official", "custom", "uuid"} \X Nat \X Nat

TenantSet ==
  [id : Ids, scope : Nat, prior : SUBSET Ids, kind : {"built_in", "custom"}, host : Hosts,
   own : BOOLEAN, lifecycle : {"active", "inactive", "archived"},
   layout : {"scope-v1", "legacy-base", "domain-v1"}]

\* Only finitely many tenants: there is always a storage scope and an id left.
DocType(d) ==
  /\ d \in [active : Ids, tenants : SUBSET TenantSet]
  /\ IsFiniteSet(d.tenants)

BackendUnique(d) == \A t, u \in d.tenants : t.host = u.host /\ t.own = u.own => t = u

IdsUnique(d)    == \A t, u \in d.tenants : t.id = u.id => t = u
PlacesUnique(d) == \A t, u \in d.tenants : t.scope = u.scope \/ Root(t) = Root(u) => t = u
HasActive(d)    == \E t \in d.tenants : t.id = d.active
OneActive(d) ==
  /\ \E t \in d.tenants : t.id = d.active /\ t.lifecycle = "active"
  /\ \A t \in d.tenants : t.lifecycle = "active" => t.id = d.active

\* A random id was made together with the storage scope of its tenant.
UuidScoped(d) == \A t \in d.tenants : t.id[1] = "uuid" => t.id[2] = t.scope

\* The type of a document, and what every change of one keeps.
Sound(d) == DocType(d) /\ BackendUnique(d) /\ UuidScoped(d)

HasOfficial(d, c, slot) ==
  \E t \in d.tenants : t.id = BuiltIn(slot) /\ t.kind = "built_in" /\ SameOfficialEndpoint(t, c, slot)

\* u is what has become of t: the same directory and backend, and the ids t was known by.
SamePlace(t, u) == t.scope = u.scope /\ t.layout = u.layout /\ t.host = u.host /\ t.own = u.own
Follows(t, u) ==
  /\ SamePlace(t, u) /\ {t.id} \cup t.prior \subseteq {u.id} \cup u.prior
  /\ u.id = t.id \/ u.id[1] # "uuid"

\* Every tenant of d is still there in e.
Carries(d, e) == \A t \in d.tenants : \E u \in e.tenants : Follows(t, u)

IInv ==
  /\ catalog \in Catalogs
  /\ Sound(file) /\ DocType(backup) /\ Sound(registry)
  /\ registry # Closed =>
       /\ Valid(file) /\ Carries(file, registry) /\ Valid(registry)
       /\ \A s \in Slots : HasOfficial(registry, catalog, s)

-----------------------------------------------------------------------------
(* Numbers that are free: a storage scope, the suffix of an id. *)

\* A set of natural numbers has a least one.
LEMMA LeastNat ==
  ASSUME NEW T \in SUBSET Nat, T # {}
  PROVE  \E x \in T : \A y \in T : x <= y
<1>1. \E x \in T : \A y \in T : ~(<<y, x>> \in OpToRel(<, Nat))
  BY NatLessThanWellFounded, WFMin
<1>2. \A x, y \in T : ~(<<y, x>> \in OpToRel(<, Nat)) => x <= y
  BY DEF OpToRel
<1> QED BY <1>1, <1>2

\* A finite one has a greatest one.
HasMax(S) == \E x \in S : \A y \in S : x >= y

LEMMA GreatestNat ==
  ASSUME NEW S \in SUBSET Nat, IsFiniteSet(S), S # {}
  PROVE  HasMax(S)
<1> DEFINE Sized(n) == {R \in SUBSET Nat : IsFiniteSet(R) /\ Cardinality(R) = n}
           Bad == {n \in Nat : n # 0 /\ \E R \in Sized(n) : ~HasMax(R)}
<1>0. Cardinality(S) \in Nat /\ Cardinality(S) # 0 BY FS_CardinalityType, FS_EmptySet
<1>1. ASSUME Bad # {} PROVE FALSE
  <2>1. PICK n \in Bad : \A k \in Bad : n <= k
    <3>1. Bad \in SUBSET Nat OBVIOUS
    <3> HIDE DEF Bad
    <3> QED BY <3>1, <1>1, LeastNat
  <2>2. PICK R \in Sized(n) : ~HasMax(R) BY <2>1
  <2>3. PICK m \in R : TRUE BY <2>1, <2>2, FS_EmptySet
  <2>4. R \ {m} \in Sized(n - 1) BY <2>1, <2>2, <2>3, FS_RemoveElement
  <2>5. CASE R \ {m} = {}
    <3>1. R = {m} BY <2>3, <2>5
    <3>2. m \in Nat BY <2>2, <2>3
    <3>3. HasMax(R) BY <3>1, <3>2 DEF HasMax
    <3> QED BY <3>3, <2>2
  <2>6. CASE R \ {m} # {}
    <3>1. n - 1 # 0 BY <2>4, <2>6, FS_EmptySet
    <3>2. n - 1 \in Nat /\ ~(n <= n - 1) BY <2>1
    <3>3. n - 1 \notin Bad BY <3>2, <2>1
    <3>4. HasMax(R \ {m}) BY <3>1, <3>2, <3>3, <2>4
    <3>5. PICK x \in R \ {m} : \A y \in R \ {m} : x >= y BY <3>4 DEF HasMax
    <3>6. R \subseteq Nat BY <2>2
    <3>7. CASE x >= m
      <4>1. \A y \in R : x >= y BY <3>5, <3>7
      <4> QED BY <4>1, <2>2 DEF HasMax
    <3>8. CASE ~(x >= m)
      <4>1. m \in Nat /\ x \in Nat BY <3>5, <3>6, <2>3
      <4>2. m >= x /\ m >= m BY <3>8, <4>1
      <4>3. \A y \in R \ {m} : m >= y
        <5> TAKE y \in R \ {m}
        <5>1. y \in Nat /\ x >= y BY <3>5, <3>6
        <5> QED BY <5>1, <4>1, <4>2
      <4>4. \A y \in R : m >= y BY <4>2, <4>3
      <4> QED BY <4>4, <2>2, <2>3 DEF HasMax
    <3> QED BY <3>7, <3>8
  <2> QED BY <2>5, <2>6
<1>2. Cardinality(S) \notin Bad BY <1>1
<1> QED BY <1>0, <1>2

\* The next storage scope is above those in use.
LEMMA FreshIsAbove ==
  ASSUME NEW ts \in SUBSET TenantSet, IsFiniteSet(ts)
  PROVE  FreshScope(ts) \in Nat /\ \A t \in ts : t.scope < FreshScope(ts)
<1> DEFINE scopes == {t.scope : t \in ts}
           all == scopes \cup Slots
           f == [t \in ts |-> t.scope]
<1>1. IsFiniteSet(scopes)
  <2>1. f \in Surjection(ts, scopes) BY DEF Surjection
  <2> QED BY <2>1, FS_Surjection
<1>2. IsFiniteSet(Slots)
  <2>1. \A s \in Slots : s <= 2 BY DEF Slots
  <2>2. Slots \in SUBSET Nat BY DEF Slots
  <2> QED BY <2>1, <2>2, FS_BoundedSetOfNaturals
<1>3. IsFiniteSet(all) BY <1>1, <1>2, FS_Union
<1>4. \A t \in ts : t.scope \in Nat BY DEF TenantSet
<1>5. all \in SUBSET Nat /\ all # {} BY <1>4 DEF Slots
<1>6. HasMax(all)
  <2> HIDE DEF all
  <2> QED BY <1>3, <1>5, GreatestNat
<1>7. Max(all) \in all /\ \A y \in all : Max(all) >= y
  <2> HIDE DEF all
  <2> QED BY <1>6 DEF Max, HasMax
<1>8. FreshScope(ts) = 1 + Max(all) BY DEF FreshScope
<1>9. Max(all) \in Nat
  <2> HIDE DEF all
  <2> QED BY <1>5, <1>7
<1>10. \A t \in ts : t.scope < 1 + Max(all)
  <2> TAKE t \in ts
  <2>1. t.scope \in all OBVIOUS
  <2>2. Max(all) >= t.scope BY <1>7, <2>1
  <2> HIDE DEF all
  <2> QED BY <2>2, <1>4, <1>9
<1> HIDE DEF all
<1> QED BY <1>8, <1>9, <1>10

\* The id of a preserved environment is a new one.
LEMMA PreservedIsNew ==
  ASSUME NEW ts \in SUBSET TenantSet, IsFiniteSet(ts), NEW t \in ts
  PROVE  PreservedId(ts, t) \in Ids /\ PreservedId(ts, t)[1] # "uuid" /\ \A u \in ts : u.id # PreservedId(ts, t)
<1> DEFINE taken(n) == \E u \in ts : u.id = Custom(t.scope, n)
           range == 2..(2 + Cardinality(ts))
           free == {n \in range : ~taken(n)}
           least == CHOOSE n \in range : ~taken(n) /\ \A m \in 2..(n - 1) : taken(m)
<1>1. Cardinality(ts) \in Nat /\ t.scope \in Nat BY FS_CardinalityType DEF TenantSet
<1>2. PreservedId(ts, t) = Custom(t.scope, IF ~taken(0) THEN 0 ELSE least)
  BY DEF PreservedId
<1>3. ASSUME free = {} PROVE FALSE
  <2> DEFINE f == [n \in range |-> CHOOSE u \in ts : u.id = Custom(t.scope, n)]
  <2>1. \A n \in range : f[n] \in ts /\ f[n].id = Custom(t.scope, n) BY <1>3
  <2>2. f \in [range -> ts] BY <2>1
  <2>3. IsFiniteSet(range) /\ Cardinality(range) = Cardinality(ts) + 1
    <3>1. PICK b \in Nat : b = 2 + Cardinality(ts) BY <1>1
    <3>2. IsFiniteSet(2..b) /\ Cardinality(2..b) = IF 2 > b THEN 0 ELSE b - 2 + 1
      BY FS_Interval
    <3>3. ~(2 > b) BY <3>1, <1>1
    <3>4. b - 2 + 1 = Cardinality(ts) + 1 BY <3>1, <1>1
    <3> QED BY <3>1, <3>2, <3>3, <3>4
  <2>4. Cardinality(ts) < Cardinality(range) BY <2>3, <1>1
  <2> HIDE DEF range, f
  <2>5. PICK n, m \in range : n # m /\ f[n] = f[m] BY <2>2, <2>3, <2>4, FS_PigeonHole
  <2>6. Custom(t.scope, n) = Custom(t.scope, m) BY <2>1, <2>5
  <2>7. n = m BY <2>6 DEF Custom
  <2> QED BY <2>5, <2>7
<1>4. \E n \in range : ~taken(n) /\ \A m \in 2..(n - 1) : taken(m)
  <2>1. free \in SUBSET Nat BY <1>1
  <2>2. PICK n \in free : \A m \in free : n <= m
    <3> HIDE DEF free
    <3> QED BY <1>3, <2>1, LeastNat
  <2>3. \A m \in 2..(n - 1) : m \in range /\ ~(n <= m) BY <2>2, <1>1
  <2> QED BY <2>2, <2>3
<1>5. least \in range /\ ~taken(least) BY <1>4
<1>6. least \in Nat BY <1>5, <1>1
<1>7. \E n \in Nat : PreservedId(ts, t) = Custom(t.scope, n) /\ ~taken(n)
  <2> HIDE DEF least, taken
  <2>1. CASE ~taken(0) BY <2>1, <1>2
  <2>2. CASE taken(0) BY <2>2, <1>2, <1>5, <1>6
  <2> QED BY <2>1, <2>2
<1>8. PICK n \in Nat : PreservedId(ts, t) = Custom(t.scope, n) /\ ~taken(n) BY <1>7
<1>9. Custom(t.scope, n) \in Ids /\ Custom(t.scope, n)[1] # "uuid" BY <1>1, <1>8 DEF Custom, Ids
<1> QED BY <1>8, <1>9

-----------------------------------------------------------------------------
(* What changes of a document keep. *)

\* What validateDocument() asks for, without the parameterized helper.
LEMMA ValidMeans ==
  ASSUME NEW d
  PROVE  Valid(d) <=> IdsUnique(d) /\ PlacesUnique(d) /\ OneActive(d)
<1>1. Distinct(d.tenants, LAMBDA t : t.id) <=> IdsUnique(d) BY DEF Distinct, IdsUnique
<1>2. Distinct(d.tenants, LAMBDA t : t.scope) /\ Distinct(d.tenants, Root) <=> PlacesUnique(d)
  BY DEF Distinct, PlacesUnique
<1>3. {t.id : t \in {u \in d.tenants : u.lifecycle = "active"}} = {d.active} <=> OneActive(d)
  BY DEF OneActive
<1> QED BY <1>1, <1>2, <1>3 DEF Valid, Decodes, ScopesDistinct

LEMMA PlaceRoot == ASSUME NEW t, NEW u, SamePlace(t, u) PROVE Root(t) = Root(u) /\ t.host = u.host
BY DEF SamePlace, Root

LEMMA CarriesItself == ASSUME NEW d PROVE Carries(d, d)
BY DEF Carries, Follows, SamePlace

LEMMA CarriesOn ==
  ASSUME NEW d, NEW e, NEW f, Carries(d, e), Carries(e, f)
  PROVE  Carries(d, f)
<1> SUFFICES ASSUME NEW t \in d.tenants PROVE \E v \in f.tenants : Follows(t, v) BY DEF Carries
<1>1. PICK u \in e.tenants : Follows(t, u) BY DEF Carries
<1>2. PICK v \in f.tenants : Follows(u, v) BY DEF Carries
<1>3. Follows(t, v) BY <1>1, <1>2 DEF Follows, SamePlace
<1> QED BY <1>3

LEMMA CarriesData == ASSUME NEW d, NEW e, Carries(d, e) PROVE Data(d) \subseteq Data(e)
BY PlaceRoot DEF Carries, Follows, Data

\* A tenant in place of another, of the same place and with its ids.
LEMMA ReplaceKeeps ==
  ASSUME NEW d, DocType(d), NEW t \in d.tenants, NEW u \in TenantSet, Follows(t, u)
  PROVE  /\ DocType(Replace(d, t, u)) /\ Carries(d, Replace(d, t, u))
         /\ BackendUnique(d) => BackendUnique(Replace(d, t, u))
         /\ PlacesUnique(d) => PlacesUnique(Replace(d, t, u))
         /\ UuidScoped(d) => UuidScoped(Replace(d, t, u))
<1> DEFINE e == Replace(d, t, u)
<1>1. /\ e.tenants = (d.tenants \ {t}) \cup {u}
      /\ e.active \in {d.active, u.id}
  BY DEF Replace, Document
<1>2. DocType(e)
  <2>1. IsFiniteSet(e.tenants)
    <3>1. IsFiniteSet(d.tenants \ {t}) BY FS_RemoveElement DEF DocType
    <3>2. IsFiniteSet((d.tenants \ {t}) \cup {u}) BY <3>1, FS_AddElement
    <3> QED BY <3>2, <1>1
  <2>2. e.active \in Ids BY <1>1 DEF DocType, TenantSet
  <2>3. e.tenants \subseteq TenantSet BY <1>1 DEF DocType
  <2>4. e = [active |-> e.active, tenants |-> e.tenants] BY DEF Replace, Document
  <2> HIDE DEF e
  <2> QED BY <2>1, <2>2, <2>3, <2>4 DEF DocType
<1>3. Carries(d, e)
  <2>1. \A v \in d.tenants : Follows(v, v) BY DEF Follows, SamePlace
  <2> HIDE DEF e
  <2> QED BY <1>1, <2>1 DEF Carries
<1> HIDE DEF e
<1>4. ASSUME NEW v \in e.tenants
      PROVE  \E w \in d.tenants : SamePlace(w, v) /\ (w = t <=> v = u) /\ (v # u => v = w)
  <2>1. CASE v = u BY <2>1 DEF Follows
  <2>2. CASE v # u BY <2>2, <1>1 DEF SamePlace
  <2> QED BY <2>1, <2>2
<1>5. ASSUME BackendUnique(d), NEW v \in e.tenants, NEW x \in e.tenants, v.host = x.host, v.own = x.own
      PROVE  v = x
  <2>1. PICK w \in d.tenants : SamePlace(w, v) /\ (w = t <=> v = u) /\ (v # u => v = w) BY <1>4
  <2>2. PICK y \in d.tenants : SamePlace(y, x) /\ (y = t <=> x = u) /\ (x # u => x = y) BY <1>4
  <2>3. w = y BY <1>5, <2>1, <2>2 DEF BackendUnique, SamePlace
  <2> QED BY <2>1, <2>2, <2>3
<1>6. ASSUME PlacesUnique(d), NEW v \in e.tenants, NEW x \in e.tenants,
             v.scope = x.scope \/ Root(v) = Root(x)
      PROVE  v = x
  <2>1. PICK w \in d.tenants : SamePlace(w, v) /\ (w = t <=> v = u) /\ (v # u => v = w) BY <1>4
  <2>2. PICK y \in d.tenants : SamePlace(y, x) /\ (y = t <=> x = u) /\ (x # u => x = y) BY <1>4
  <2>3. Root(w) = Root(v) /\ Root(y) = Root(x) BY <2>1, <2>2, PlaceRoot
  <2>4. w.scope = v.scope /\ y.scope = x.scope BY <2>1, <2>2 DEF SamePlace
  <2>5. w = y BY <1>6, <2>3, <2>4 DEF PlacesUnique
  <2> QED BY <2>1, <2>2, <2>5
<1>7. BackendUnique(d) => BackendUnique(e) BY <1>5 DEF BackendUnique
<1>8. PlacesUnique(d) => PlacesUnique(e) BY <1>6 DEF PlacesUnique
<1>9. UuidScoped(d) => UuidScoped(e) BY <1>1 DEF UuidScoped, Follows, SamePlace
<1> QED BY <1>2, <1>3, <1>7, <1>8, <1>9 DEF e

\* If its id is its own, ids stay distinct, and the user in the same environment.
LEMMA ReplaceIds ==
  ASSUME NEW d, DocType(d), NEW t \in d.tenants, NEW u \in TenantSet, Follows(t, u),
         IdsUnique(d), HasActive(d), \A v \in d.tenants : v.id = u.id => v = t
  PROVE  /\ IdsUnique(Replace(d, t, u)) /\ HasActive(Replace(d, t, u))
         /\ ActiveData(Replace(d, t, u)) = ActiveData(d)
<1> DEFINE e == Replace(d, t, u)
<1>1. /\ e.tenants = (d.tenants \ {t}) \cup {u}
      /\ e.active = IF d.active = t.id THEN u.id ELSE d.active
  BY DEF Replace, Document
<1> HIDE DEF e
<1>2. IdsUnique(e) BY <1>1 DEF IdsUnique
<1>3. <<Root(t), t.host>> = <<Root(u), u.host>> BY PlaceRoot DEF Follows
<1>4. ActiveData(e) = ActiveData(d)
  <2>1. CASE d.active = t.id
    <3>1. \A v \in d.tenants : v.id = d.active <=> v = t BY <2>1 DEF IdsUnique
    <3>2. \A v \in e.tenants : v.id = e.active <=> v = u BY <2>1, <1>1, <1>2 DEF IdsUnique
    <3>3. {v \in d.tenants : v.id = d.active} = {t} BY <3>1
    <3>4. {v \in e.tenants : v.id = e.active} = {u} BY <3>2, <1>1
    <3> QED BY <3>3, <3>4, <1>3 DEF ActiveData
  <2>2. CASE d.active # t.id
    <3>1. CASE d.active = u.id
      <4>1. \A v \in d.tenants : v.id # d.active BY <3>1, <2>2
      <4> QED BY <4>1 DEF HasActive
    <3>2. CASE d.active # u.id
      <4>1. {v \in d.tenants : v.id = d.active} = {v \in e.tenants : v.id = e.active}
        BY <1>1, <2>2, <3>2
      <4> QED BY <4>1 DEF ActiveData
    <3> QED BY <3>1, <3>2
  <2> QED BY <2>1, <2>2
<1>5. HasActive(e) BY <1>1 DEF HasActive
<1> QED BY <1>2, <1>4, <1>5 DEF e

\* A new tenant with a storage scope and a backend of its own.
LEMMA AddKeeps ==
  ASSUME NEW d, DocType(d), NEW o \in TenantSet,
         o.scope = FreshScope(d.tenants), o.layout = "scope-v1",
         \A t \in d.tenants : ~(t.host = o.host /\ t.own = o.own),
         o.id[1] = "uuid" => o.id[2] = o.scope
  PROVE  LET e == Document(d.active, d.tenants \cup {o}) IN
         /\ DocType(e) /\ Carries(d, e)
         /\ BackendUnique(d) => BackendUnique(e)
         /\ PlacesUnique(d) => PlacesUnique(e)
         /\ UuidScoped(d) => UuidScoped(e)
         /\ IdsUnique(d) /\ HasActive(d) /\ (\A t \in d.tenants : t.id # o.id) =>
              IdsUnique(e) /\ HasActive(e) /\ ActiveData(e) = ActiveData(d)
<1> DEFINE e == Document(d.active, d.tenants \cup {o})
<1>1. e = [active |-> d.active, tenants |-> d.tenants \cup {o}] BY DEF Document
<1> HIDE DEF e
<1>2. e.active = d.active /\ e.tenants = d.tenants \cup {o} BY <1>1
<1>3. DocType(e)
  <2>1. IsFiniteSet(e.tenants) BY <1>2, FS_AddElement DEF DocType
  <2> QED BY <2>1, <1>1 DEF DocType
<1>4. Carries(d, e)
  <2>1. \A v \in d.tenants : Follows(v, v) BY DEF Follows, SamePlace
  <2> QED BY <1>2, <2>1 DEF Carries
<1>5. BackendUnique(d) => BackendUnique(e) BY <1>2 DEF BackendUnique
<1>6. PlacesUnique(d) => PlacesUnique(e)
  <2>1. \A t \in d.tenants : t.scope \in Nat /\ t.scope < o.scope
    BY FreshIsAbove DEF DocType, TenantSet
  <2>2. \A t \in d.tenants : t.scope # o.scope BY <2>1
  <2>3. \A t \in d.tenants : Root(t) # Root(o) BY <2>2 DEF Root
  <2> QED BY <1>2, <2>2, <2>3 DEF PlacesUnique
<1>7. ASSUME IdsUnique(d), HasActive(d), \A t \in d.tenants : t.id # o.id
      PROVE  IdsUnique(e) /\ HasActive(e) /\ ActiveData(e) = ActiveData(d)
  <2>1. IdsUnique(e) /\ HasActive(e) BY <1>2, <1>7 DEF IdsUnique, HasActive
  <2>2. o.id # d.active BY <1>7 DEF HasActive
  <2>3. {t \in e.tenants : t.id = e.active} = {t \in d.tenants : t.id = d.active} BY <1>2, <2>2
  <2> QED BY <2>1, <2>3 DEF ActiveData
<1>8. UuidScoped(d) => UuidScoped(e) BY <1>2 DEF UuidScoped
<1> QED BY <1>3, <1>4, <1>5, <1>6, <1>7, <1>8 DEF e

\* The lifecycle is no part of a tenant's id, place or backend.
LEMMA ActivateKeeps ==
  ASSUME NEW d, DocType(d), NEW id \in Ids
  PROVE  LET e == Activate(d, id) IN
         /\ DocType(e) /\ Carries(d, e) /\ e.active = id
         /\ BackendUnique(d) => BackendUnique(e)
         /\ PlacesUnique(d) => PlacesUnique(e)
         /\ IdsUnique(d) => IdsUnique(e)
         /\ UuidScoped(d) => UuidScoped(e)
         /\ \A c, s : HasOfficial(d, c, s) => HasOfficial(e, c, s)
         /\ (\E t \in d.tenants : t.id = id) => OneActive(e)
         /\ id = d.active => ActiveData(e) = ActiveData(d)
<1> DEFINE g == [t \in d.tenants |-> [t EXCEPT !.lifecycle =
                   IF t.id = id THEN "active" ELSE IF @ = "active" THEN "inactive" ELSE @]]
           e == Activate(d, id)
<1>1. e = [active |-> id, tenants |-> {g[t] : t \in d.tenants}] BY DEF Activate, Document
<1>2. ASSUME NEW t \in d.tenants
      PROVE  /\ g[t] \in TenantSet /\ g[t].id = t.id /\ g[t].prior = t.prior /\ g[t].kind = t.kind /\ SamePlace(t, g[t])
             /\ g[t].lifecycle = "active" <=> t.id = id
  <2>1. t \in TenantSet BY DEF DocType
  <2> QED BY <2>1 DEF TenantSet, SamePlace
<1> HIDE DEF e, g
<1>3. e.active = id /\ e.tenants = {g[t] : t \in d.tenants} BY <1>1
<1>4. DocType(e)
  <2>1. IsFiniteSet(e.tenants)
    <3>1. g \in Surjection(d.tenants, e.tenants)
      <4>1. g \in [d.tenants -> e.tenants] BY <1>3 DEF g
      <4> QED BY <4>1, <1>3 DEF Surjection
    <3> QED BY <3>1, FS_Surjection DEF DocType
  <2>2. e.tenants \subseteq TenantSet BY <1>2, <1>3
  <2> QED BY <2>1, <2>2, <1>1 DEF DocType
<1>5. Carries(d, e) BY <1>2, <1>3 DEF Carries, Follows
<1>6. BackendUnique(d) => BackendUnique(e) BY <1>2, <1>3 DEF BackendUnique, SamePlace
<1>7. PlacesUnique(d) => PlacesUnique(e)
  <2>1. \A t \in d.tenants : g[t].scope = t.scope /\ Root(g[t]) = Root(t)
    BY <1>2, PlaceRoot DEF SamePlace
  <2> QED BY <2>1, <1>3 DEF PlacesUnique
<1>8. IdsUnique(d) => IdsUnique(e) BY <1>2, <1>3 DEF IdsUnique
<1>9. (\E t \in d.tenants : t.id = id) => OneActive(e) BY <1>2, <1>3 DEF OneActive
<1>10. ASSUME id = d.active PROVE ActiveData(e) = ActiveData(d)
  <2>1. \A t \in d.tenants : g[t].id = e.active <=> t.id = d.active BY <1>2, <1>3, <1>10
  <2>2. \A t \in d.tenants : <<Root(g[t]), g[t].host>> = <<Root(t), t.host>>
    BY <1>2, PlaceRoot
  <2> QED BY <2>1, <2>2, <1>3 DEF ActiveData
<1>11. UuidScoped(d) => UuidScoped(e) BY <1>2, <1>3 DEF UuidScoped, SamePlace
<1>12. ASSUME NEW c, NEW s, HasOfficial(d, c, s) PROVE HasOfficial(e, c, s)
  BY <1>2, <1>3, <1>12 DEF HasOfficial, SameOfficialEndpoint, SamePlace
<1> QED BY <1>3, <1>4, <1>5, <1>6, <1>7, <1>8, <1>9, <1>10, <1>11, <1>12 DEF e

-----------------------------------------------------------------------------
(* Reconciling the official slots of a build. *)

Named(d) == IdsUnique(d) /\ HasActive(d)

\* From d to e nothing is lost and, if the ids were in order, they are, and name the same
\* active environment.
Keeps(d, e) ==
  /\ DocType(e) /\ Carries(d, e) /\ BackendUnique(e)
  /\ PlacesUnique(d) => PlacesUnique(e)
  /\ UuidScoped(d) => UuidScoped(e)
  /\ Named(d) => Named(e) /\ ActiveData(e) = ActiveData(d)

\* The ids of the official slots are not random ones.
LEMMA NotRandom == \A n : BuiltIn(n)[1] # "uuid" /\ Former(n)[1] # "uuid"
BY DEF BuiltIn, Former

LEMMA KeepsItself == ASSUME NEW d, DocType(d), BackendUnique(d) PROVE Keeps(d, d)
BY CarriesItself DEF Keeps

LEMMA KeepsOn == ASSUME NEW d, NEW e, NEW f, Keeps(d, e), Keeps(e, f) PROVE Keeps(d, f)
BY CarriesOn DEF Keeps

LEMMA ReplaceIsSafe ==
  ASSUME NEW d, DocType(d), BackendUnique(d), NEW t \in d.tenants, NEW u \in TenantSet, Follows(t, u),
         \A v \in d.tenants : IdsUnique(d) /\ v.id = u.id => v = t
  PROVE  Keeps(d, Replace(d, t, u))
BY ReplaceKeeps, ReplaceIds DEF Keeps, Named

\* The official tenant of a slot is not replaced on behalf of another.
LEMMA ReplaceElsewhere ==
  ASSUME NEW d, NEW c, NEW s, HasOfficial(d, c, s), NEW t, NEW u,
         t.id # BuiltIn(s) \/ ~SameOfficialEndpoint(t, c, s) \/ t.kind # "built_in"
  PROVE  HasOfficial(Replace(d, t, u), c, s)
BY DEF HasOfficial, Replace, Document

\* A slot keeps its environment under another id, promotes the tenant that has its endpoint,
\* or is added: no id is used twice.
LEMMA SlotKeeps ==
  ASSUME NEW d, DocType(d), BackendUnique(d), NEW c \in Catalogs, NEW slot \in Slots
  PROVE  LET e == ReconcileSlot(d, c, slot) IN
         /\ Keeps(d, e) /\ HasOfficial(e, c, slot)
         /\ \A s \in Slots \ {slot} : HasOfficial(d, c, s) => HasOfficial(e, c, s)
<1> DEFINE exact(e)  == {t \in e.tenants : t.id = BuiltIn(slot)}
           former(e) == {t \in e.tenants : t.id = Former(slot)}
           same(ts)  == {t \in ts : SameOfficialEndpoint(t, c, slot)}
           kept      == IF exact(d) = same(exact(d)) THEN d
                        ELSE Preserve(d, CHOOSE t \in exact(d) : TRUE)
           demoted   == IF same(exact(kept)) # {} \/ former(kept) = same(former(kept)) THEN kept
                        ELSE LET t == CHOOSE t \in former(kept) : TRUE
                             IN Replace(kept, t, [t EXCEPT !.kind = "custom"])
           final     == IF same(demoted.tenants) # {}
                        THEN Promote(demoted, CHOOSE t \in same(demoted.tenants) : TRUE, slot)
                        ELSE Document(demoted.active,
                                      demoted.tenants \cup {Official(c, slot, demoted.tenants)})
           Placed(e) == IdsUnique(d) /\ HasActive(d) => IdsUnique(e) /\ \A t \in exact(e) : SameOfficialEndpoint(t, c, slot)
           Elsewhere(e) == \A s \in Slots \ {slot} : HasOfficial(d, c, s) => HasOfficial(e, c, s)
<1>0. /\ \A s \in Slots \ {slot} : BuiltIn(s) # BuiltIn(slot) /\ BuiltIn(s) # Former(slot) /\ c[s] # c[slot]
      /\ c[slot] \in Hosts
  BY CatalogsAssumption DEF Slots, BuiltIn, Former
<1>1. ReconcileSlot(d, c, slot) = final BY DEF ReconcileSlot
<1>2. Keeps(d, kept) /\ Placed(kept) /\ Elsewhere(kept)
  <2>1. CASE exact(d) = same(exact(d)) BY <2>1, KeepsItself
  <2>2. CASE exact(d) # same(exact(d))
    <3>1. PICK t \in exact(d) : kept = Preserve(d, t) BY <2>2
    <3> DEFINE u == [t EXCEPT !.id = PreservedId(d.tenants, t), !.kind = "custom", !.prior = {t.id} \cup @]
    <3>2. kept = Replace(d, t, u) BY <3>1 DEF Preserve
    <3>3. t \in d.tenants /\ t \in TenantSet /\ t.id = BuiltIn(slot) BY DEF DocType
    <3>4. PreservedId(d.tenants, t) \in Ids /\ PreservedId(d.tenants, t)[1] # "uuid" /\ \A v \in d.tenants : v.id # PreservedId(d.tenants, t)
      BY <3>3, PreservedIsNew DEF DocType
    <3>5. u \in TenantSet /\ Follows(t, u) /\ u.id = PreservedId(d.tenants, t)
      BY <3>3, <3>4, NotRandom DEF TenantSet, Follows, SamePlace
    <3> HIDE DEF u, kept
    <3>6. \A v \in d.tenants : v.id # u.id BY <3>4, <3>5
    <3>7. Keeps(d, kept) BY <3>2, <3>3, <3>5, <3>6, ReplaceIsSafe
    <3>8. Placed(kept)
      <4> SUFFICES ASSUME IdsUnique(d), HasActive(d) PROVE IdsUnique(kept) /\ exact(kept) = {} OBVIOUS
      <4>1. kept.tenants = (d.tenants \ {t}) \cup {u} BY <3>2 DEF Replace, Document
      <4>2. u.id # BuiltIn(slot) BY <3>3, <3>6
      <4>3. \A v \in d.tenants : v.id = BuiltIn(slot) => v = t BY <3>3 DEF IdsUnique
      <4>4. IdsUnique(kept) BY <3>7 DEF Keeps, Named
      <4> QED BY <4>1, <4>2, <4>3, <4>4
    <3>9. Elsewhere(kept) BY <3>2, <3>3, <1>0, ReplaceElsewhere
    <3> QED BY <3>7, <3>8, <3>9
  <2> QED BY <2>1, <2>2
<1> HIDE DEF kept
<1>3. Keeps(d, demoted) /\ Placed(demoted) /\ Elsewhere(demoted)
  <2>1. CASE same(exact(kept)) # {} \/ former(kept) = same(former(kept)) BY <2>1, <1>2
  <2>2. CASE ~(same(exact(kept)) # {} \/ former(kept) = same(former(kept)))
    <3>1. PICK t \in former(kept) : demoted = Replace(kept, t, [t EXCEPT !.kind = "custom"])
      BY <2>2
    <3> DEFINE u == [t EXCEPT !.kind = "custom"]
    <3>2. t \in kept.tenants /\ t \in TenantSet /\ DocType(kept) /\ BackendUnique(kept)
      BY <1>2 DEF DocType, Keeps
    <3>3. u \in TenantSet /\ Follows(t, u) /\ u.id = t.id
      BY <3>2 DEF TenantSet, Follows, SamePlace
    <3>4. demoted = Replace(kept, t, u) BY <3>1
    <3> HIDE DEF u, demoted
    <3>5. \A v \in kept.tenants : IdsUnique(kept) /\ v.id = u.id => v = t BY <3>2, <3>3 DEF IdsUnique
    <3>6. Keeps(kept, demoted) BY <3>2, <3>3, <3>4, <3>5, ReplaceIsSafe
    <3>7. Keeps(d, demoted) BY <1>2, <3>6, KeepsOn
    <3>8. demoted.tenants = (kept.tenants \ {t}) \cup {u} BY <3>4 DEF Replace, Document
    <3>9. SameOfficialEndpoint(t, c, slot) => SameOfficialEndpoint(u, c, slot)
      BY <3>3 DEF Follows, SamePlace, SameOfficialEndpoint
    <3>10. IdsUnique(d) /\ HasActive(d) => IdsUnique(demoted) BY <3>7 DEF Keeps, Named
    <3>11. Placed(demoted) BY <1>2, <3>2, <3>3, <3>8, <3>9, <3>10
    <3>12. t.id = Former(slot) OBVIOUS
    <3>13. ASSUME NEW s \in Slots \ {slot}, HasOfficial(kept, c, s) PROVE HasOfficial(demoted, c, s)
      BY <3>4, <3>12, <3>13, <1>0, ReplaceElsewhere
    <3> QED BY <3>7, <3>11, <3>13, <1>2
  <2> QED BY <2>1, <2>2
<1> HIDE DEF demoted
<1>4. DocType(demoted) /\ BackendUnique(demoted) BY <1>3 DEF Keeps
<1>5. BuiltIn(slot) \in Ids BY DEF BuiltIn, Ids, Slots
<1>6. CASE same(demoted.tenants) # {}
  <2>1. PICK t \in same(demoted.tenants) : final = Promote(demoted, t, slot) BY <1>6
  <2> DEFINE u == [t EXCEPT !.id = BuiltIn(slot), !.kind = "built_in",
                            !.prior = IF t.id = BuiltIn(slot) THEN @ ELSE {t.id} \cup @]
  <2>2. final = Replace(demoted, t, u) BY <2>1 DEF Promote
  <2>3. t \in demoted.tenants /\ t \in TenantSet /\ SameOfficialEndpoint(t, c, slot)
    BY <1>4 DEF DocType
  <2>4. u \in TenantSet /\ Follows(t, u) /\ u.id = BuiltIn(slot)
    BY <2>3, <1>5, NotRandom DEF TenantSet, Follows, SamePlace
  <2>5. u.kind = "built_in" /\ SameOfficialEndpoint(u, c, slot)
    BY <2>3 DEF TenantSet, SameOfficialEndpoint
  <2> HIDE DEF u, final
  <2>6. HasOfficial(final, c, slot)
    <3>1. u \in final.tenants BY <2>2 DEF Replace, Document
    <3> QED BY <3>1, <2>4, <2>5 DEF HasOfficial
  <2>7. ASSUME NEW s \in Slots \ {slot}, HasOfficial(demoted, c, s) PROVE HasOfficial(final, c, s)
    <3>1. ~SameOfficialEndpoint(t, c, s) BY <2>3, <1>0 DEF SameOfficialEndpoint
    <3> QED BY <3>1, <2>2, <2>7, ReplaceElsewhere
  <2>8. Elsewhere(final) BY <2>7, <1>3
  <2>9. Keeps(d, final)
    <3>1. ASSUME Named(d) PROVE \A v \in demoted.tenants : v.id = u.id => v = t
      <4>1. ASSUME NEW v \in demoted.tenants, v.id = u.id PROVE v = t
        <5>1. v \in exact(demoted) BY <4>1, <2>4
        <5>2. SameOfficialEndpoint(v, c, slot) BY <3>1, <5>1, <1>3 DEF Named
        <5> QED BY <5>2, <2>3, <1>4 DEF SameOfficialEndpoint, BackendUnique
      <4> QED BY <4>1
    <3>2. CASE Named(d)
      <4>1. Keeps(demoted, final) BY <3>1, <3>2, <2>2, <2>3, <2>4, <1>4, ReplaceIsSafe
      <4> QED BY <4>1, <1>3, KeepsOn
    <3>3. CASE ~Named(d)
      <4>1. /\ DocType(final) /\ Carries(demoted, final) /\ BackendUnique(final)
            /\ PlacesUnique(demoted) => PlacesUnique(final)
            /\ UuidScoped(demoted) => UuidScoped(final)
        BY <2>2, <2>3, <2>4, <1>4, ReplaceKeeps
      <4> QED BY <4>1, <3>3, <1>3, CarriesOn DEF Keeps
    <3> QED BY <3>2, <3>3
  <2> QED BY <2>6, <2>8, <2>9, <1>1
<1>7. CASE same(demoted.tenants) = {}
  <2> DEFINE o == Official(c, slot, demoted.tenants)
  <2>1. final = Document(demoted.active, demoted.tenants \cup {o}) BY <1>7
  <2>2. /\ o \in TenantSet /\ o.scope = FreshScope(demoted.tenants) /\ o.layout = "scope-v1"
        /\ o.id = BuiltIn(slot) /\ o.host = c[slot] /\ o.own /\ o.kind = "built_in"
    <3>1. FreshScope(demoted.tenants) \in Nat BY <1>4, FreshIsAbove DEF DocType
    <3>2. c[slot] \in Hosts BY CatalogsAssumption DEF Slots
    <3> QED BY <3>1, <3>2, <1>5 DEF Official, Tenant, TenantSet
  <2>3. \A t \in demoted.tenants : ~(t.host = o.host /\ t.own = o.own)
    <3>1. \A t \in demoted.tenants : t.own \in BOOLEAN BY <1>4 DEF DocType, TenantSet
    <3>2. o.own = TRUE BY DEF Official, Tenant
    <3> HIDE DEF o
    <3> QED BY <1>7, <2>2, <3>1, <3>2 DEF SameOfficialEndpoint
  <2> HIDE DEF o, final
  <2>4. /\ DocType(final) /\ Carries(demoted, final)
        /\ BackendUnique(demoted) => BackendUnique(final)
        /\ PlacesUnique(demoted) => PlacesUnique(final)
        /\ UuidScoped(demoted) => UuidScoped(final)
        /\ IdsUnique(demoted) /\ HasActive(demoted) /\ (\A t \in demoted.tenants : t.id # o.id) =>
             IdsUnique(final) /\ HasActive(final) /\ ActiveData(final) = ActiveData(demoted)
    BY <2>1, <2>2, <2>3, <1>4, NotRandom, AddKeeps
  <2>5. ASSUME Named(d) PROVE \A t \in demoted.tenants : t.id # o.id
    <3>1. \A t \in exact(demoted) : SameOfficialEndpoint(t, c, slot) BY <2>5, <1>3 DEF Named
    <3> QED BY <3>1, <1>7, <2>2
  <2>6. Keeps(d, final) BY <2>4, <2>5, <1>3, <1>4, CarriesOn DEF Keeps, Named
  <2>7. final.tenants = demoted.tenants \cup {o} BY <2>1 DEF Document
  <2>8. HasOfficial(final, c, slot) BY <2>2, <2>7 DEF HasOfficial, SameOfficialEndpoint
  <2>9. Elsewhere(final) BY <2>7, <1>3 DEF HasOfficial
  <2> QED BY <2>6, <2>8, <2>9, <1>1
<1> QED BY <1>6, <1>7

\* Reconciling leaves a document that validateDocument() accepts, if it was one.
LEMMA ReconcileKeeps ==
  ASSUME NEW d, DocType(d), BackendUnique(d), NEW c \in Catalogs
  PROVE  /\ Keeps(d, ReconcileOfficials(d, c))
         /\ Valid(d) => Valid(ReconcileOfficials(d, c))
         /\ \A s \in Slots : HasOfficial(ReconcileOfficials(d, c), c, s)
<1> DEFINE a == ReconcileSlot(d, c, 1)
           b == ReconcileSlot(a, c, 2)
           e == Activate(b, b.active)
<1>1. ReconcileOfficials(d, c) = e BY DEF ReconcileOfficials
<1>2. Slots = {1, 2} BY DEF Slots
<1>3. Keeps(d, a) /\ HasOfficial(a, c, 1) BY <1>2, SlotKeeps
<1> HIDE DEF a
<1>4. Keeps(a, b) /\ HasOfficial(b, c, 1) /\ HasOfficial(b, c, 2)
  BY <1>2, <1>3, SlotKeeps DEF Keeps
<1> HIDE DEF b
<1>5. Keeps(d, b) BY <1>3, <1>4, KeepsOn
<1>6. DocType(b) /\ BackendUnique(b) /\ b.active \in Ids BY <1>5 DEF Keeps, DocType
<1>7. /\ DocType(e) /\ Carries(b, e) /\ e.active = b.active
      /\ BackendUnique(b) => BackendUnique(e)
      /\ PlacesUnique(b) => PlacesUnique(e)
      /\ IdsUnique(b) => IdsUnique(e)
      /\ UuidScoped(b) => UuidScoped(e)
      /\ HasActive(b) => OneActive(e)
      /\ ActiveData(e) = ActiveData(b)
      /\ \A s \in Slots : HasOfficial(e, c, s)
  BY <1>2, <1>4, <1>6, ActivateKeeps DEF HasActive
<1> HIDE DEF e
<1>8. OneActive(e) => HasActive(e) BY DEF OneActive, HasActive
<1>9. Keeps(b, e) BY <1>6, <1>7, <1>8 DEF Keeps, Named
<1>10. Keeps(d, e) BY <1>5, <1>9, KeepsOn
<1>11. ASSUME Valid(d) PROVE Valid(e)
  <2>1. IdsUnique(d) /\ PlacesUnique(d) /\ OneActive(d) BY <1>11, ValidMeans
  <2>2. Named(d) BY <2>1 DEF Named, OneActive, HasActive
  <2>3. Named(b) /\ PlacesUnique(b) BY <2>1, <2>2, <1>5 DEF Keeps
  <2>4. IdsUnique(e) /\ PlacesUnique(e) /\ OneActive(e) BY <2>3, <1>7 DEF Named
  <2> QED BY <2>4, ValidMeans
<1> QED BY <1>1, <1>7, <1>10, <1>11

\* Where both official tenants are in place there is nothing to do.
LEMMA ReconcileRests ==
  ASSUME NEW d, DocType(d), BackendUnique(d), Valid(d), NEW c \in Catalogs,
         \A s \in Slots : HasOfficial(d, c, s)
  PROVE  ReconcileOfficials(d, c) = d
<1>1. IdsUnique(d) /\ OneActive(d) BY ValidMeans
<1>2. d = [active |-> d.active, tenants |-> d.tenants] /\ d.tenants \subseteq TenantSet BY DEF DocType
<1>3. ASSUME NEW slot \in Slots PROVE ReconcileSlot(d, c, slot) = d
  <2> DEFINE exact(e)  == {t \in e.tenants : t.id = BuiltIn(slot)}
             former(e) == {t \in e.tenants : t.id = Former(slot)}
             same(ts)  == {t \in ts : SameOfficialEndpoint(t, c, slot)}
             kept      == IF exact(d) = same(exact(d)) THEN d
                          ELSE Preserve(d, CHOOSE t \in exact(d) : TRUE)
             demoted   == IF same(exact(kept)) # {} \/ former(kept) = same(former(kept)) THEN kept
                          ELSE LET t == CHOOSE t \in former(kept) : TRUE
                               IN Replace(kept, t, [t EXCEPT !.kind = "custom"])
             final     == IF same(demoted.tenants) # {}
                          THEN Promote(demoted, CHOOSE t \in same(demoted.tenants) : TRUE, slot)
                          ELSE Document(demoted.active,
                                        demoted.tenants \cup {Official(c, slot, demoted.tenants)})
  <2>1. ReconcileSlot(d, c, slot) = final BY DEF ReconcileSlot
  <2>2. PICK t \in d.tenants : /\ t.id = BuiltIn(slot) /\ t.kind = "built_in"
                               /\ SameOfficialEndpoint(t, c, slot)
    BY DEF HasOfficial
  <2>3. exact(d) = {t} BY <2>2, <1>1 DEF IdsUnique
  <2>4. kept = d
    <3>1. same(exact(d)) = {t} BY <2>2, <2>3
    <3> QED BY <2>3, <3>1
  <2> HIDE DEF kept
  <2>5. demoted = d
    <3>1. t \in same(exact(kept)) BY <2>2, <2>3, <2>4
    <3> QED BY <3>1, <2>4
  <2> HIDE DEF demoted
  <2>6. same(demoted.tenants) = {t}
    <3>1. \A u \in d.tenants : u.own \in BOOLEAN BY <1>2 DEF TenantSet
    <3>2. \A u \in d.tenants : SameOfficialEndpoint(u, c, slot) => u = t
      BY <2>2, <3>1 DEF BackendUnique, SameOfficialEndpoint
    <3> QED BY <2>2, <2>5, <3>2
  <2>7. final = Promote(d, t, slot) BY <2>5, <2>6
  <2> HIDE DEF final
  <2>8. [t EXCEPT !.id = BuiltIn(slot), !.kind = "built_in",
                  !.prior = IF t.id = BuiltIn(slot) THEN @ ELSE {t.id} \cup @] = t
    BY <2>2, <1>2 DEF TenantSet
  <2>9. final = Replace(d, t, t) BY <2>7, <2>8 DEF Promote
  <2>10. (d.tenants \ {t}) \cup {t} = d.tenants BY <2>2
  <2>11. Replace(d, t, t) = [active |-> d.active, tenants |-> d.tenants]
    BY <2>10 DEF Replace, Document
  <2> QED BY <2>1, <2>9, <2>11, <1>2
<1>4. Activate(d, d.active) = d
  <2>1. ASSUME NEW t \in d.tenants
        PROVE  [t EXCEPT !.lifecycle = IF t.id = d.active THEN "active"
                                       ELSE IF @ = "active" THEN "inactive" ELSE @] = t
    <3>1. t.lifecycle = "active" <=> t.id = d.active BY <1>1 DEF OneActive, IdsUnique
    <3> QED BY <3>1, <1>2 DEF TenantSet
  <2>2. {[t EXCEPT !.lifecycle = IF t.id = d.active THEN "active"
                                 ELSE IF @ = "active" THEN "inactive" ELSE @] : t \in d.tenants} = d.tenants
    BY <2>1
  <2> QED BY <2>2, <1>2 DEF Activate, Document
<1>5. 1 \in Slots /\ 2 \in Slots BY DEF Slots
<1> QED BY <1>3, <1>4, <1>5 DEF ReconcileOfficials

-----------------------------------------------------------------------------
(* Documents that the program starts from, or repairs. *)

LEMMA FewFinite ==
  ASSUME NEW x, NEW y, NEW z
  PROVE  IsFiniteSet({}) /\ IsFiniteSet({x}) /\ IsFiniteSet({x, y}) /\ IsFiniteSet({x, y, z})
<1>1. IsFiniteSet({}) BY FS_EmptySet
<1>2. IsFiniteSet({x}) BY FS_Singleton
<1>3. IsFiniteSet({x} \cup {y}) BY <1>2, FS_AddElement
<1>4. {x} \cup {y} = {x, y} /\ {x, y} \cup {z} = {x, y, z} OBVIOUS
<1>5. IsFiniteSet({x, y} \cup {z}) BY <1>3, <1>4, FS_AddElement
<1> QED BY <1>1, <1>2, <1>3, <1>4, <1>5

LEMMA IdTypes ==
  /\ \A n \in Nat : BuiltIn(n) \in Ids /\ Former(n) \in Ids /\ Uuid(n) \in Ids
  /\ \A n, m \in Nat : Custom(n, m) \in Ids
  /\ Slots \subseteq Nat /\ Slots = {1, 2} /\ <<"none", 0, 0>> \in Ids
BY DEF BuiltIn, Former, Uuid, Custom, Ids, Slots

LEMMA CatalogHosts ==
  ASSUME NEW c \in Catalogs
  PROVE  c[1] \in Hosts /\ c[2] \in Hosts /\ c[1] # c[2]
BY CatalogsAssumption

LEMMA NoFileType == Sound(NoFile) /\ NoFile.tenants = {}
<1>1. NoFile = [active |-> <<"none", 0, 0>>, tenants |-> {}] BY DEF NoFile, Document
<1>2. DocType(NoFile) BY <1>1, IdTypes, FS_EmptySet DEF DocType
<1> QED BY <1>1, <1>2 DEF Sound, BackendUnique, UuidScoped

LEMMA FormerType ==
  ASSUME NEW hosts \in Catalogs, NEW s \in Slots, NEW layout \in {"scope-v1", "domain-v1"}
  PROVE  Sound(FormerDocument(hosts, s, layout))
<1> DEFINE d == FormerDocument(hosts, s, layout)
           t(n) == Tenant(Former(n), n, "built_in", hosts[n], TRUE,
                          IF n = s THEN "active" ELSE "inactive", layout)
<1>1. d = [active |-> Former(s), tenants |-> {t(1), t(2)}]
  BY IdTypes DEF FormerDocument, Document
<1>2. \A n \in Slots : t(n) \in TenantSet
  BY IdTypes, CatalogHosts DEF Tenant, TenantSet
<1>3. 1 \in Slots /\ 2 \in Slots BY IdTypes
<1>4. /\ t(1).host = hosts[1] /\ t(2).host = hosts[2]
      /\ t(1).id[1] # "uuid" /\ t(2).id[1] # "uuid"
  BY NotRandom DEF Tenant
<1> HIDE DEF d, t
<1>5. DocType(d) BY <1>1, <1>2, <1>3, IdTypes, FewFinite DEF DocType
<1>6. BackendUnique(d) BY <1>1, <1>4, CatalogHosts DEF BackendUnique
<1>7. UuidScoped(d) BY <1>1, <1>4 DEF UuidScoped
<1> QED BY <1>5, <1>6, <1>7 DEF d, Sound

LEMMA CollidedType ==
  ASSUME NEW hosts \in Catalogs, NEW chosen \in {BuiltIn(1), Custom(1, 0)},
         NEW old \in Hosts \ {hosts[1], hosts[2]}
  PROVE  /\ Sound(Collided(hosts, old, chosen))
         /\ DocType(BeforeCollision(hosts, old))
<1> DEFINE x == Tenant(BuiltIn(1), 1, "built_in", hosts[1], TRUE,
                       IF chosen = BuiltIn(1) THEN "active" ELSE "inactive", "scope-v1")
           y == Tenant(BuiltIn(2), 2, "built_in", hosts[2], TRUE, "inactive", "scope-v1")
           z == Tenant(Custom(1, 0), 1, "custom", old, TRUE,
                       IF chosen = BuiltIn(1) THEN "inactive" ELSE "active", "scope-v1")
           w == Tenant(BuiltIn(1), 1, "built_in", old, TRUE, "active", "scope-v1")
           d == Collided(hosts, old, chosen)
           e == BeforeCollision(hosts, old)
<1>1. {x, y, z, w} \subseteq TenantSet BY IdTypes, CatalogHosts DEF Tenant, TenantSet
<1>2. d = [active |-> chosen, tenants |-> {x, y, z}] BY DEF Collided, Document
<1>3. e = [active |-> BuiltIn(1), tenants |-> {w, y}] BY DEF BeforeCollision, Document
<1>4. /\ x.host = hosts[1] /\ y.host = hosts[2] /\ z.host = old
      /\ x.id[1] # "uuid" /\ y.id[1] # "uuid" /\ z.id[1] # "uuid"
  BY NotRandom DEF Tenant, Custom
<1> HIDE DEF d, e, x, y, z, w
<1>5. chosen \in Ids /\ BuiltIn(1) \in Ids BY IdTypes
<1>6. DocType(d) /\ DocType(e) BY <1>1, <1>2, <1>3, <1>5, FewFinite DEF DocType
<1>7. BackendUnique(d) BY <1>2, <1>4, CatalogHosts DEF BackendUnique
<1>8. UuidScoped(d) BY <1>2, <1>4 DEF UuidScoped
<1> QED BY <1>6, <1>7, <1>8 DEF d, e, Sound

LEMMA OfficialType ==
  ASSUME NEW c \in Catalogs, NEW slot \in Slots, NEW ts, ts \subseteq TenantSet, IsFiniteSet(ts)
  PROVE  LET o == Official(c, slot, ts) IN
         /\ o \in TenantSet /\ o.host = c[slot] /\ o.own /\ o.kind = "built_in" /\ o.id = BuiltIn(slot)
<1>1. FreshScope(ts) \in Nat BY FreshIsAbove
<1> QED BY <1>1, IdTypes, CatalogHosts DEF Official, Tenant, TenantSet

LEMMA FreshType ==
  ASSUME NEW c \in Catalogs
  PROVE  Sound(FreshDocument(c)) /\ \A s \in Slots : HasOfficial(FreshDocument(c), c, s)
<1> DEFINE first == Official(c, 1, {})
           second == Official(c, 2, {first})
           d == Document(BuiltIn(1), {first, second})
<1>1. FreshDocument(c) = Activate(d, BuiltIn(1)) BY DEF FreshDocument
<1>2. /\ first \in TenantSet /\ first.host = c[1] /\ first.own /\ first.kind = "built_in"
      /\ first.id = BuiltIn(1)
  <2>1. IsFiniteSet({}) /\ {} \subseteq TenantSet /\ 1 \in Slots BY FewFinite, IdTypes
  <2> QED BY <2>1, OfficialType
<1> HIDE DEF first
<1>3. /\ second \in TenantSet /\ second.host = c[2] /\ second.own /\ second.kind = "built_in"
      /\ second.id = BuiltIn(2)
  <2>1. IsFiniteSet({first}) /\ {first} \subseteq TenantSet /\ 2 \in Slots
    BY <1>2, FewFinite, IdTypes
  <2> QED BY <2>1, OfficialType
<1> HIDE DEF second
<1>4. d = [active |-> BuiltIn(1), tenants |-> {first, second}] BY DEF Document
<1> HIDE DEF d
<1>5. BuiltIn(1) \in Ids BY IdTypes
<1>6. DocType(d) BY <1>2, <1>3, <1>4, <1>5, FewFinite DEF DocType
<1>7. BackendUnique(d) BY <1>2, <1>3, <1>4, CatalogHosts DEF BackendUnique
<1>8. UuidScoped(d) BY <1>2, <1>3, <1>4, NotRandom DEF UuidScoped
<1>9. HasOfficial(d, c, 1) /\ HasOfficial(d, c, 2)
  BY <1>2, <1>3, <1>4 DEF HasOfficial, SameOfficialEndpoint
<1> QED BY <1>1, <1>5, <1>6, <1>7, <1>8, <1>9, IdTypes, ActivateKeeps DEF Sound

LEMMA LegacyType ==
  ASSUME NEW c \in Catalogs, NEW host \in Hosts, NEW own \in BOOLEAN
  PROVE  LET e == LegacyDocument(c, host, own) IN Sound(e) /\ \A s \in Slots : HasOfficial(e, c, s)
<1> DEFINE slots == {s \in Slots : c[s] = host}
           scope == FreshScope({})
           id    == IF slots = {} THEN Uuid(scope) ELSE BuiltIn(CHOOSE s \in slots : TRUE)
           kind  == IF slots = {} THEN "custom" ELSE "built_in"
           t     == Tenant(id, scope, kind, host, own, "active", "legacy-base")
           d     == Document(id, {t})
<1>1. LegacyDocument(c, host, own) = ReconcileOfficials(d, c) BY DEF LegacyDocument
<1>2. scope \in Nat BY FreshIsAbove, FewFinite
<1> HIDE DEF scope
<1>3. id \in Ids /\ (id[1] = "uuid" => id[2] = scope)
  <2>1. CASE slots = {} BY <2>1, <1>2, IdTypes DEF Uuid
  <2>2. CASE slots # {}
    <3>1. PICK s \in Slots : id = BuiltIn(s) BY <2>2
    <3> QED BY <3>1, IdTypes, NotRandom
  <2> QED BY <2>1, <2>2
<1>4. kind \in {"built_in", "custom"} OBVIOUS
<1> HIDE DEF id, kind
<1>5. t \in TenantSet /\ t.id = id /\ t.scope = scope BY <1>2, <1>3, <1>4 DEF Tenant, TenantSet
<1>6. d = [active |-> id, tenants |-> {t}] BY DEF Document
<1> HIDE DEF t, d
<1>7. DocType(d) /\ BackendUnique(d) /\ UuidScoped(d)
  BY <1>3, <1>5, <1>6, FewFinite DEF DocType, BackendUnique, UuidScoped
<1> QED BY <1>1, <1>7, ReconcileKeeps DEF Keeps, Sound

\* A tenant is given a storage scope of its own.
LEMMA ScopeSplit ==
  ASSUME NEW d, Sound(d), NEW t \in d.tenants, t.id[1] # "uuid"
  PROVE  LET e == Replace(d, t, [t EXCEPT !.scope = FreshScope(d.tenants)]) IN
         /\ Sound(e)
         /\ \A v \in d.tenants : v # t => v \in e.tenants
<1> DEFINE u == [t EXCEPT !.scope = FreshScope(d.tenants)]
           e == Replace(d, t, u)
<1>0. DocType(d) /\ BackendUnique(d) /\ UuidScoped(d) BY DEF Sound
<1>1. t \in TenantSet /\ FreshScope(d.tenants) \in Nat BY <1>0, FreshIsAbove DEF DocType
<1>2. u \in TenantSet /\ u.host = t.host /\ u.own = t.own /\ u.id = t.id BY <1>1 DEF TenantSet
<1> HIDE DEF u
<1>3. e = [active |-> IF d.active = t.id THEN u.id ELSE d.active, tenants |-> (d.tenants \ {t}) \cup {u}]
  BY DEF Replace, Document
<1>4. IsFiniteSet((d.tenants \ {t}) \cup {u})
  <2>1. IsFiniteSet(d.tenants \ {t}) BY <1>0, FS_RemoveElement DEF DocType
  <2> QED BY <2>1, FS_AddElement
<1>5. u.id \in Ids BY <1>2 DEF TenantSet
<1> HIDE DEF e
<1>6. DocType(e) BY <1>0, <1>2, <1>3, <1>4, <1>5 DEF DocType
<1>7. BackendUnique(e) BY <1>0, <1>2, <1>3 DEF BackendUnique
<1>8. UuidScoped(e) BY <1>0, <1>2, <1>3 DEF UuidScoped
<1>9. \A v \in d.tenants : v # t => v \in e.tenants BY <1>3
<1> QED BY <1>6, <1>7, <1>8, <1>9 DEF e, u, Sound

LEMMA RepairedType == ASSUME Sound(file) PROVE Sound(Repaired)
<1> DEFINE sharing(s) == {t \in file.tenants : t.scope = s}
           current(s) == {t \in sharing(s) : t.id = BuiltIn(s) /\ SameOfficialEndpoint(t, catalog, s)}
           preserved(s) == {t \in sharing(s) : t.kind = "custom" /\ t.id = Custom(s, 0)}
           owners(s) == {t \in backup.tenants : t.scope = s}
           fits(s) ==
             /\ Cardinality(sharing(s)) = 2 /\ current(s) # {} /\ preserved(s) # {}
             /\ \A t \in sharing(s) : t.layout = "scope-v1"
             /\ Cardinality(owners(s)) = 1
             /\ \A o \in owners(s), t \in preserved(s) :
                  <<o.layout, o.host, o.own>> = <<t.layout, t.host, t.own>>
           Split(d, s) ==
             IF fits(s)
             THEN LET t == CHOOSE t \in current(s) : TRUE
                  IN Replace(d, t, [t EXCEPT !.scope = FreshScope(d.tenants)])
             ELSE d
           d1 == Split(file, 1)
           d2 == Split(d1, 2)
<1>1. Repaired = IF backup = NoFile THEN file ELSE d2 BY DEF Repaired
<1>2. /\ Sound(d1)
      /\ \A v \in file.tenants : v.scope # 1 => v \in d1.tenants
  <2>1. CASE ~fits(1) BY <2>1
  <2>2. CASE fits(1)
    <3>1. PICK t \in current(1) : d1 = Replace(file, t, [t EXCEPT !.scope = FreshScope(file.tenants)])
      BY <2>2
    <3>2. t \in file.tenants /\ t.scope = 1 /\ t.id[1] # "uuid" BY NotRandom
    <3> HIDE DEF d1
    <3> QED BY <3>1, <3>2, ScopeSplit
  <2> QED BY <2>1, <2>2
<1> HIDE DEF d1
<1>3. Sound(d2)
  <2>1. CASE ~fits(2) BY <2>1, <1>2
  <2>2. CASE fits(2)
    <3>1. PICK t \in current(2) : d2 = Replace(d1, t, [t EXCEPT !.scope = FreshScope(d1.tenants)])
      BY <2>2
    <3>2. t \in d1.tenants /\ t.id[1] # "uuid" BY <1>2, NotRandom
    <3> HIDE DEF d2
    <3> QED BY <3>1, <3>2, <1>2, ScopeSplit
  <2> QED BY <2>1, <2>2
<1> QED BY <1>1, <1>3

\* What open() reads; a valid document is read as it is.
LEMMA ReadableType ==
  ASSUME Sound(file), NEW read \in Readable
  PROVE  Sound(read) /\ (Valid(file) => read = file)
BY RepairedType DEF Readable, Valid

-----------------------------------------------------------------------------
(* The steps. *)

LEMMA InitInv == Init => IInv
<1> SUFFICES ASSUME Init PROVE IInv OBVIOUS
<1>0. DocType(NoFile) BY NoFileType DEF Sound
<1>1. Sound(file) /\ DocType(backup)
  <2>1. CASE file = NoFile /\ backup = NoFile BY <2>1, <1>0, NoFileType
  <2>2. CASE /\ \E hosts \in Catalogs, s \in Slots, layout \in {"scope-v1", "domain-v1"} :
                    file = FormerDocument(hosts, s, layout)
             /\ backup = NoFile
    BY <2>2, <1>0, FormerType
  <2>3. CASE \E hosts \in Catalogs, chosen \in {BuiltIn(1), Custom(1, 0)} :
               \E old \in Hosts \ {hosts[1], hosts[2]} :
                 /\ file = Collided(hosts, old, chosen)
                 /\ backup = BeforeCollision(hosts, old)
    BY <2>3, CollidedType
  <2> QED BY <2>1, <2>2, <2>3 DEF Init
<1> QED BY <1>1, NoFileType DEF Init, IInv, Closed

\* An open document of this build.
Opened(d) == Sound(d) /\ Valid(d) /\ \A s \in Slots : HasOfficial(d, catalog, s)

\* The document in memory changes, and perhaps the one on disk.
LEMMA ChangeStep ==
  ASSUME IInv, registry # Closed, NEW d, Opened(d), Carries(registry, d), Change(d)
  PROVE  IInv' /\ Carries(file, file')
<1>1. DocType(backup') BY DEF Change, Saves, SaveFails, Backed, IInv, Sound
<1>2. registry' = d /\ catalog' = catalog BY DEF Change
<1>3. Carries(file, d) BY CarriesOn DEF IInv
<1>4. CASE Saves(d)
  <2>1. file' = d BY <1>4 DEF Saves
  <2> QED BY <2>1, <1>1, <1>2, <1>3, CarriesItself DEF IInv, Opened
<1>5. CASE SaveFails(d)
  <2>1. file' = file BY <1>5 DEF SaveFails
  <2>2. Valid(file') /\ Carries(file', registry') BY <2>1, <1>2, <1>3 DEF IInv
  <2>3. Carries(file, file') BY <2>1, CarriesItself
  <2> QED BY <2>1, <2>2, <2>3, <1>1, <1>2 DEF IInv, Opened
<1> QED BY <1>4, <1>5 DEF Change

LEMMA OpenStep ==
  ASSUME IInv, Open
  PROVE  /\ IInv'
         /\ Valid(file) => Carries(file, file') /\ ActiveData(file') = ActiveData(file)
<1>1. PICK read \in Readable :
        LET d == ReconcileOfficials(read, catalog)
        IN /\ Valid(d) /\ registry' = d
           /\ IF d = file THEN UNCHANGED <<file, backup>> ELSE Saves(d)
  BY DEF Open
<1> DEFINE d == ReconcileOfficials(read, catalog)
<1>2. Sound(read) /\ (Valid(file) => read = file) /\ catalog \in Catalogs
  BY ReadableType DEF IInv
<1>3. Keeps(read, d) /\ \A s \in Slots : HasOfficial(d, catalog, s)
  BY <1>2, ReconcileKeeps DEF Sound
<1> HIDE DEF d
<1>4. Valid(d) /\ registry' = d /\ file' = d /\ catalog' = catalog BY <1>1 DEF Saves, d, Open
<1>5. DocType(backup') BY <1>1 DEF Saves, Backed, IInv, Sound, d
<1>6. Sound(d) BY <1>2, <1>3 DEF Keeps, Sound
<1>7. IInv' BY <1>2, <1>3, <1>4, <1>5, <1>6, CarriesItself DEF IInv
<1>8. ASSUME Valid(file) PROVE Carries(file, file') /\ ActiveData(file') = ActiveData(file)
  <2>1. Named(file) BY <1>8, ValidMeans DEF Named, OneActive, HasActive
  <2> QED BY <2>1, <1>2, <1>3, <1>4, <1>8 DEF Keeps
<1> QED BY <1>7, <1>8

\* An official tenant is not archived, and a lifecycle is neither place nor id.
LEMMA ArchiveKeeps ==
  ASSUME NEW d, Opened(d), NEW t \in d.tenants, t.kind = "custom", t.lifecycle # "active",
         NEW e, e = Replace(d, t, [t EXCEPT !.lifecycle = "archived"])
  PROVE  Opened(e) /\ Carries(d, e)
<1> DEFINE u == [t EXCEPT !.lifecycle = "archived"]
<1>1. DocType(d) /\ BackendUnique(d) /\ UuidScoped(d) BY DEF Opened, Sound
<1>2. IdsUnique(d) /\ PlacesUnique(d) /\ OneActive(d) BY ValidMeans DEF Opened
<1>3. t \in TenantSet BY <1>1 DEF DocType
<1>4. u \in TenantSet /\ u.id = t.id /\ u.lifecycle # "active" BY <1>3 DEF TenantSet
<1>5. Follows(t, u) BY <1>3 DEF TenantSet, Follows, SamePlace
<1> HIDE DEF u
<1>6. e = Replace(d, t, u) BY DEF u
<1>7. Sound(e) /\ Carries(d, e) /\ PlacesUnique(e)
  BY <1>1, <1>2, <1>4, <1>5, <1>6, ReplaceKeeps DEF Sound
<1>8. IdsUnique(e) BY <1>2, <1>4, <1>6 DEF IdsUnique, Replace, Document
<1>9. OneActive(e)
  <2>1. d.active # t.id BY <1>2 DEF OneActive, IdsUnique
  <2>2. e.active = d.active /\ e.tenants = (d.tenants \ {t}) \cup {u}
    BY <2>1, <1>6 DEF Replace, Document
  <2> QED BY <2>2, <1>2, <1>4 DEF OneActive
<1>10. \A s \in Slots : HasOfficial(e, catalog, s) BY <1>6, ReplaceElsewhere DEF Opened
<1> QED BY <1>7, <1>8, <1>9, <1>10, ValidMeans DEF Opened

LEMMA CreateKeeps ==
  ASSUME NEW d, Opened(d), NEW host \in Hosts, \A t \in d.tenants : t.host # host
  PROVE  LET scope == FreshScope(d.tenants)
             e == Document(d.active, d.tenants \cup
                    {Tenant(Uuid(scope), scope, "custom", host, TRUE, "inactive", "scope-v1")})
         IN Opened(e) /\ Carries(d, e)
<1> DEFINE scope == FreshScope(d.tenants)
           o == Tenant(Uuid(scope), scope, "custom", host, TRUE, "inactive", "scope-v1")
           e == Document(d.active, d.tenants \cup {o})
<1>0. DocType(d) /\ BackendUnique(d) /\ UuidScoped(d) BY DEF Opened, Sound
<1>1. scope \in Nat /\ \A t \in d.tenants : t.scope \in Nat /\ t.scope < scope
  BY <1>0, FreshIsAbove DEF DocType, TenantSet
<1>2. IdsUnique(d) /\ PlacesUnique(d) /\ OneActive(d) BY ValidMeans DEF Opened
<1>3. \A t \in d.tenants : t.id # Uuid(scope)
  <2>1. \A t \in d.tenants : t.scope # scope BY <1>1
  <2> HIDE DEF scope
  <2> QED BY <2>1, <1>0 DEF UuidScoped, Uuid
<1> HIDE DEF scope
<1>4. /\ o \in TenantSet /\ o.scope = scope /\ o.layout = "scope-v1" /\ o.host = host
      /\ o.id = Uuid(scope) /\ o.lifecycle = "inactive"
  BY <1>1, IdTypes DEF Tenant, TenantSet
<1> HIDE DEF o
<1>5. o.id[1] = "uuid" => o.id[2] = o.scope BY <1>4 DEF Uuid
<1>6. e.active = d.active /\ e.tenants = d.tenants \cup {o} BY DEF Document
<1>7. HasActive(d) BY <1>2 DEF OneActive, HasActive
<1>8. Sound(e) /\ Carries(d, e) /\ PlacesUnique(e) /\ IdsUnique(e)
  BY <1>0, <1>2, <1>3, <1>4, <1>5, <1>7, AddKeeps DEF Sound, scope
<1> HIDE DEF e
<1>9. OneActive(e) BY <1>2, <1>4, <1>6 DEF OneActive
<1>10. \A s \in Slots : HasOfficial(e, catalog, s) BY <1>6 DEF Opened, HasOfficial
<1>11. Opened(e) /\ Carries(d, e) BY <1>8, <1>9, <1>10, ValidMeans DEF Opened
<1> QED BY <1>11 DEF e, o, scope

LEMMA CommitKeeps ==
  ASSUME NEW d, Opened(d), NEW t \in d.tenants
  PROVE  Opened(Activate(d, t.id)) /\ Carries(d, Activate(d, t.id))
<1> DEFINE e == Activate(d, t.id)
<1>1. DocType(d) /\ BackendUnique(d) /\ UuidScoped(d) BY DEF Opened, Sound
<1>2. IdsUnique(d) /\ PlacesUnique(d) BY ValidMeans DEF Opened
<1>3. t.id \in Ids BY <1>1 DEF DocType, TenantSet
<1>4. /\ Sound(e) /\ Carries(d, e) /\ PlacesUnique(e) /\ IdsUnique(e) /\ OneActive(e)
      /\ \A s \in Slots : HasOfficial(e, catalog, s)
  BY <1>1, <1>2, <1>3, ActivateKeeps DEF Sound, Opened
<1> HIDE DEF e
<1>5. Opened(e) /\ Carries(d, e) BY <1>4, ValidMeans DEF Opened
<1> QED BY <1>5 DEF e

\* What a step does to the documents.
StepKeeps ==
  /\ IInv'
  /\ file # NoFile /\ Valid(file) => Carries(file, file')
  /\ registry = Closed /\ file # NoFile /\ Valid(file) => ActiveData(file') = ActiveData(file)

LEMMA StepInv == IInv /\ [Next]_vars => StepKeeps
<1> SUFFICES ASSUME IInv, [Next]_vars PROVE StepKeeps OBVIOUS
<1>t. Sound(file) /\ DocType(file) /\ DocType(backup) /\ (registry # Closed => Opened(registry))
  BY DEF IInv, Opened, Sound
<1>k. ASSUME UNCHANGED file, IInv' PROVE StepKeeps BY <1>k, CarriesItself DEF StepKeeps
<1>c. ASSUME registry # Closed, NEW d, Opened(d), Carries(registry, d), Change(d) PROVE StepKeeps
  BY <1>c, ChangeStep DEF StepKeeps
<1>1. CASE Open BY <1>1, OpenStep DEF StepKeeps
<1>2. CASE OpenFails
  <2>1. UNCHANGED <<file, catalog, registry>> /\ DocType(backup')
    BY <1>2, <1>t DEF OpenFails, SaveFails, Backed
  <2>2. IInv' BY <2>1 DEF IInv
  <2> QED BY <2>1, <2>2, <1>k
<1>3. CASE OpenFirst
  <2>1. PICK d \in {FreshDocument(catalog)}
                    \cup {LegacyDocument(catalog, h, own) : h \in Hosts, own \in BOOLEAN} :
               Valid(d) /\ file' = d /\ registry' = d
    BY <1>3 DEF OpenFirst
  <2>2. catalog \in Catalogs /\ UNCHANGED <<catalog, backup>> BY <1>3 DEF IInv, OpenFirst
  <2>3. Sound(d) /\ \A s \in Slots : HasOfficial(d, catalog, s) BY <2>1, <2>2, FreshType, LegacyType
  <2>4. IInv' BY <2>1, <2>2, <2>3, <1>t, CarriesItself DEF IInv
  <2> QED BY <2>4, <1>3 DEF StepKeeps, OpenFirst
<1>4. CASE \E host \in Hosts : CreateCustom(host)
  <2>1. PICK host \in Hosts : CreateCustom(host) BY <1>4
  <2> QED BY <2>1, <1>t, <1>c, CreateKeeps DEF CreateCustom
<1>5. CASE RenameCustom
  <2>1. registry # Closed /\ Change(registry) BY <1>5 DEF RenameCustom
  <2> QED BY <2>1, <1>t, <1>c, CarriesItself
<1>6. CASE ArchiveCustom
  <2>1. registry # Closed BY <1>6 DEF ArchiveCustom
  <2>2. PICK t \in registry.tenants :
          /\ t.kind = "custom" /\ t.lifecycle # "active"
          /\ Change(Replace(registry, t, [t EXCEPT !.lifecycle = "archived"]))
    BY <1>6 DEF ArchiveCustom
  <2> QED BY <2>1, <2>2, <1>t, <1>c, ArchiveKeeps
<1>7. CASE CommitActive
  <2>1. PICK t \in registry.tenants :
          \/ Saves(Activate(registry, t.id)) /\ registry' = Activate(registry, t.id)
          \/ SaveFails(Activate(registry, t.id)) /\ UNCHANGED registry
    BY <1>7 DEF CommitActive
  <2>2. registry # Closed /\ catalog' = catalog BY <1>7 DEF CommitActive
  <2> DEFINE d == Activate(registry, t.id)
  <2>3. Opened(d) /\ Carries(registry, d) BY <2>2, <1>t, CommitKeeps
  <2> HIDE DEF d
  <2>4. CASE Saves(d) /\ registry' = d
    <3>1. Change(d) BY <2>4, <2>2 DEF Change
    <3> QED BY <3>1, <2>2, <2>3, <1>c
  <2>5. CASE SaveFails(d) /\ UNCHANGED registry
    <3>1. UNCHANGED file /\ DocType(backup') BY <2>5, <1>t DEF SaveFails, Backed
    <3>2. IInv' BY <3>1, <2>2, <2>5 DEF IInv
    <3> QED BY <3>1, <3>2, <1>k
  <2> QED BY <2>1, <2>4, <2>5 DEF d
<1>8. CASE Restart
  <2>1. UNCHANGED <<file, backup>> /\ registry' = Closed /\ catalog' \in Catalogs BY <1>8 DEF Restart
  <2>2. IInv' BY <2>1, <1>t, NoFileType DEF IInv, Closed
  <2> QED BY <2>1, <2>2, <1>k
<1>9. CASE UNCHANGED vars
  <2>1. UNCHANGED file /\ IInv' BY <1>9 DEF vars, IInv
  <2> QED BY <2>1, <1>k
<1> QED BY <1>1, <1>2, <1>3, <1>4, <1>5, <1>6, <1>7, <1>8, <1>9 DEF Next

-----------------------------------------------------------------------------
LEMMA Invariance == Spec => []IInv
<1>1. IInv /\ [Next]_vars => IInv' BY StepInv DEF StepKeeps
<1> QED BY <1>1, InitInv, PTL DEF Spec

\* Whatever is written, read back, kept in memory or kept as the backup has the form that
\* decodeTenant() accepts (tenant-registry.ts:129-187).
THEOREM TypeCorrect == Spec => []TypeOK
<1>1. IInv => TypeOK BY DEF IInv, Sound, DocType, TenantSet, TypeOK
<1> QED BY <1>1, Invariance, PTL

\* Whatever build opens what the registry has written finds a document it accepts, after it has
\* moved its official slots (tenant-registry.ts:249-309, 398).
THEOREM WrittenIsOpened == Spec => []EveryBuildOpens
<1>1. IInv => EveryBuildOpens BY ReconcileKeeps DEF IInv, Sound, EveryBuildOpens
<1> QED BY <1>1, Invariance, PTL

\* No change is ever refused by validateDocument(): ids, storage scopes, directories and backends
\* of an open registry are distinct, and one tenant is active (tenant-registry.ts:321).
THEOREM NeverRefused == Spec => []RegistryIsValid
<1>1. IInv => RegistryIsValid
  BY DEF IInv, Sound, RegistryIsValid, BackendUnique, BackendsAreUnique, Tenants
<1> QED BY <1>1, Invariance, PTL

\* The migration is complete: both official tenants are there, and the same build that opens the
\* document again has nothing to write (tenant-registry.ts:303, 399).
THEOREM MigratedOnce == Spec => []ReconciledOnce
<1>1. IInv => ReconciledOnce
  BY ReconcileRests DEF IInv, Sound, HasOfficial, ReconciledOnce
<1> QED BY <1>1, Invariance, PTL

\* No write loses the directory of an environment, or gives it to another backend, whatever
\* build opens the document and whatever could not be written before.
THEOREM NoDataIsLost == Spec => DataIsKept
<1> DEFINE A == file # NoFile /\ Valid(file) => Data(file) \subseteq Data(file')
<1>1. IInv /\ [Next]_vars => A BY StepInv, CarriesData DEF StepKeeps
<1>2. A => [A]_vars OBVIOUS
<1> HIDE DEF A
<1>3. Spec => [][A]_vars BY <1>1, <1>2, Invariance, PTL DEF Spec
<1> QED BY <1>3 DEF A, DataIsKept

\* Opening leaves the user in the same environment, also where its slot has moved
\* (tenant-registry.ts:256, 309).
THEOREM ActiveStays == Spec => ActiveIsKept
<1> DEFINE A == registry = Closed /\ file # NoFile /\ Valid(file) => ActiveData(file) = ActiveData(file')
<1>1. IInv /\ [Next]_vars => A BY StepInv DEF StepKeeps
<1>2. A => [A]_vars OBVIOUS
<1> HIDE DEF A
<1>3. Spec => [][A]_vars BY <1>1, <1>2, Invariance, PTL DEF Spec
<1> QED BY <1>3 DEF A, ActiveIsKept

\* The tenant that has a storage scope is known by every id it ever had, so that preferences
\* stored under any of them are found (tenant-registry.ts:266-299).
THEOREM PreferencesAreFound == Spec => PreferencesFollow
<1> DEFINE A == file # NoFile /\ Valid(file) =>
                  \A t \in file.tenants : \E u \in file'.tenants :
                    u.scope = t.scope /\ {t.id} \cup t.prior \subseteq {u.id} \cup u.prior
<1>1. Carries(file, file') => A BY DEF Carries, Follows, SamePlace
<1>2. IInv /\ [Next]_vars => A BY <1>1, StepInv DEF StepKeeps
<1>3. A => [A]_vars OBVIOUS
<1> HIDE DEF A
<1>4. Spec => [][A]_vars BY <1>2, <1>3, Invariance, PTL DEF Spec
<1> QED BY <1>4 DEF A, PreferencesFollow

-----------------------------------------------------------------------------
(* LocalData: the updates of the preferences, and what a clear leaves. *)

Clears(c) == calls[c].kind = "clear"
Loaded(c) == Updates(c) /\ calls[c].at # "load"

\* A call is a record of its kind, and knows its owner when it needs it.
Formed(call) ==
  \/ call = Idle
  \/ /\ call.kind = "download" /\ call.image \in Images /\ call.owner \in Dids \cup {"none"}
     /\ call.at \notin {"identity", "told"} => call.owner # "none"
     /\ call = [kind |-> "download", image |-> call.image, owner |-> call.owner,
                listed |-> call.listed, sent |-> call.sent, at |-> call.at]
  \/ /\ call.kind = "update" /\ call.owner \in Dids \cup {"none"}
     /\ call = [kind |-> "update", mutation |-> call.mutation, owner |-> call.owner,
                read |-> call.read, at |-> call.at]
  \/ /\ call.kind = "clear"
     /\ call = [kind |-> "clear", owner |-> call.owner, after |-> call.after, at |-> call.at]

DataType ==
  /\ identity \in [Dids -> {"new", "live", "gone", "cleared"}]
  /\ active \in Dids \cup {"none"}
  /\ files \in Seq(Key)
  /\ calls = [c \in Calls |-> calls[c]] /\ \A c \in Calls : Formed(calls[c])

\* The updates wait in the queue, each once, and the first of them alone has loaded its file.
InLine ==
  /\ queue \in Seq(Calls) /\ IsInjective(queue)
  /\ ToSet(queue) = {c \in Calls : Updates(c)}
  /\ \A c \in Calls : Loaded(c) => Head(queue) = c

\* At most one clear, which waits for updates only, and before it empties their files.
OneClear ==
  /\ \A c, k \in Calls : Clears(c) /\ Clears(k) => c = k
  /\ \A k \in Calls : Clears(k) =>
       /\ calls[k].after \subseteq {c \in Calls : Updates(c)}
       /\ calls[k].after # {} => calls[k].at = "mutation"

\* What a clear has passed, it has emptied.
Emptied ==
  \A d \in Dids \ late : identity[d] = "gone" =>
    \A k \in Calls : Clears(k) =>
      /\ calls[k].at \in {"cacheDir", "mutation", "bookDir", "marker"} =>
           \A f \in ToSet(files) : f.owner # d
      /\ calls[k].at \in {"bookDir", "marker"} => d \notin DOMAIN book

DataInv ==
  DataType /\ InLine /\ OneClear /\ NoUpdateLost /\ Emptied /\ ClearedIsGone

\* A stretch of a sequence, place by place.
LEMMA Part ==
  ASSUME NEW S, NEW s \in Seq(S), NEW m \in Nat, NEW k \in Nat, 1 <= m, k <= Len(s), m <= k + 1
  PROVE  /\ SubSeq(s, m, k) \in Seq(S) /\ Len(SubSeq(s, m, k)) = k - m + 1
         /\ \A i \in 1..(k - m + 1) : SubSeq(s, m, k)[i] = s[m + i - 1]
<1>1. \A i \in m..k : s[i] \in S OBVIOUS
<1>2. m \in Int /\ k \in Int OBVIOUS
<1>3. /\ SubSeq(s, m, k) \in Seq(S)
      /\ Len(SubSeq(s, m, k)) = IF m <= k THEN k - m + 1 ELSE 0
      /\ \A i \in 1..(k - m + 1) : SubSeq(s, m, k)[i] = s[m + i - 1]
  BY <1>1, <1>2, SubSeqProperties
<1>4. ~(m <= k) => k - m + 1 = 0 OBVIOUS
<1> QED BY <1>3, <1>4

\* What remains of a sequence when its first element like e is taken out.
LEMMA OneOut ==
  ASSUME NEW S, NEW s \in Seq(S), NEW e \in ToSet(s)
  PROVE  LET r == RemoveFirst(s, e) IN
         \E n \in 1..Len(s) :
           /\ s[n] = e /\ r \in Seq(S) /\ Len(r) = Len(s) - 1
           /\ \A i \in 1..(Len(s) - 1) : r[i] = IF i < n THEN s[i] ELSE s[i + 1]
<1> DEFINE r == RemoveFirst(s, e)
           I == {i \in 1..Len(s) : s[i] = e}
           n == Min(I)
<1>0. Len(s) \in Nat /\ DOMAIN s = 1..Len(s) OBVIOUS
<1>p. I # {} BY DEF ToSet
<1>1. r = RemoveAt(s, n) BY <1>p DEF RemoveFirst, SelectInSeq
<1>2. n \in I
  <2>1. I \in SUBSET Nat BY <1>0
  <2>2. \E x \in I : \A y \in I : x <= y
    <3> HIDE DEF I
    <3> QED BY <1>p, <2>1, LeastNat
  <2> HIDE DEF I
  <2> QED BY <2>2 DEF Min
<1>3. n \in 1..Len(s) /\ s[n] = e BY <1>2
<1> HIDE DEF I, n
<1>4. /\ SubSeq(s, 1, n - 1) \in Seq(S) /\ Len(SubSeq(s, 1, n - 1)) = n - 1
      /\ \A i \in 1..(n - 1) : SubSeq(s, 1, n - 1)[i] = s[i]
  BY <1>3, <1>0, Part
<1>5. /\ SubSeq(s, n + 1, Len(s)) \in Seq(S) /\ Len(SubSeq(s, n + 1, Len(s))) = Len(s) - n
      /\ \A i \in 1..(Len(s) - n) : SubSeq(s, n + 1, Len(s))[i] = s[n + i]
  <2> DEFINE m == n + 1
  <2>1. m \in Nat /\ Len(s) \in Nat /\ 1 <= m /\ m <= Len(s) + 1 BY <1>3, <1>0
  <2>2. Len(s) - m + 1 = Len(s) - n /\ \A i \in Int : m + i - 1 = n + i BY <1>3, <1>0
  <2> HIDE DEF m
  <2>3. /\ SubSeq(s, m, Len(s)) \in Seq(S) /\ Len(SubSeq(s, m, Len(s))) = Len(s) - n
        /\ \A i \in 1..(Len(s) - n) : SubSeq(s, m, Len(s))[i] = s[n + i]
    <3>1. Len(s) <= Len(s) BY <2>1
    <3>2. /\ SubSeq(s, m, Len(s)) \in Seq(S) /\ Len(SubSeq(s, m, Len(s))) = Len(s) - m + 1
          /\ \A i \in 1..(Len(s) - m + 1) : SubSeq(s, m, Len(s))[i] = s[m + i - 1]
      BY <2>1, <3>1, Part
    <3>3. ASSUME NEW i \in 1..(Len(s) - n) PROVE SubSeq(s, m, Len(s))[i] = s[n + i]
      <4>1. i \in Int /\ i \in 1..(Len(s) - m + 1) BY <2>2, <1>3, <1>0
      <4>2. SubSeq(s, m, Len(s))[i] = s[m + i - 1] BY <4>1, <3>2
      <4> QED BY <4>1, <4>2, <2>2
    <3> QED BY <2>2, <3>2, <3>3
  <2> QED BY <2>3 DEF m
<1>6. /\ r \in Seq(S) /\ Len(r) = Len(s) - 1
      /\ \A i \in 1..(Len(s) - 1) : r[i] = IF i < n THEN s[i] ELSE s[i + 1]
  <2> DEFINE a == SubSeq(s, 1, n - 1)
             b == SubSeq(s, n + 1, Len(s))
  <2>1. r = a \o b BY <1>1 DEF RemoveAt
  <2>2. a \in Seq(S) /\ b \in Seq(S) /\ Len(a) = n - 1 /\ Len(b) = Len(s) - n
    BY <1>4, <1>5
  <2>3. /\ \A i \in 1..(n - 1) : a[i] = s[i]
        /\ \A i \in 1..(Len(s) - n) : b[i] = s[n + i]
    BY <1>4, <1>5
  <2> HIDE DEF a, b, r
  <2>4. /\ r \in Seq(S) /\ Len(r) = Len(a) + Len(b)
        /\ \A i \in 1..(Len(a) + Len(b)) : r[i] = IF i <= Len(a) THEN a[i] ELSE b[i - Len(a)]
    BY <2>1, <2>2, ConcatProperties
  <2>5. Len(a) + Len(b) = Len(s) - 1 BY <2>2, <1>3, <1>0
  <2>6. ASSUME NEW i \in 1..(Len(s) - 1) PROVE r[i] = IF i < n THEN s[i] ELSE s[i + 1]
    <3>1. r[i] = IF i <= n - 1 THEN a[i] ELSE b[i - (n - 1)] BY <2>2, <2>4, <2>5
    <3>2. CASE i < n BY <3>1, <3>2, <2>3, <1>3
    <3>3. CASE ~(i < n)
      <4>1. i - (n - 1) \in 1..(Len(s) - n) /\ n + (i - (n - 1)) = i + 1 BY <3>3, <1>3, <1>0
      <4>2. ~(i <= n - 1) BY <3>3, <1>3
      <4> QED BY <4>1, <4>2, <3>1, <3>3, <2>3
    <3> QED BY <3>2, <3>3
  <2> QED BY <2>4, <2>5, <2>6
<1> QED BY <1>3, <1>6

\* What remains of a sequence when one element is taken out.
LEMMA TakenOut ==
  ASSUME NEW S, NEW s \in Seq(S), NEW e
  PROVE  LET r == RemoveFirst(s, e) IN
         /\ r \in Seq(S) /\ ToSet(r) \subseteq ToSet(s)
         /\ IsInjective(s) =>
              /\ IsInjective(r) /\ ToSet(r) = ToSet(s) \ {e}
              /\ s # <<>> /\ Head(s) # e => Head(r) = Head(s)
<1> DEFINE r == RemoveFirst(s, e)
<1>0. Len(s) \in Nat /\ DOMAIN s = 1..Len(s) OBVIOUS
<1>1. CASE e \notin ToSet(s)
  <2>1. r = s BY <1>1 DEF RemoveFirst, ToSet
  <2> QED BY <2>1, <1>1
<1>2. CASE e \in ToSet(s)
  <2>1. PICK n \in 1..Len(s) :
          /\ s[n] = e /\ r \in Seq(S) /\ Len(r) = Len(s) - 1
          /\ \A i \in 1..(Len(s) - 1) : r[i] = IF i < n THEN s[i] ELSE s[i + 1]
    BY <1>2, OneOut
  <2>3. n \in 1..Len(s) /\ s[n] = e BY <2>1
  <2> HIDE DEF r
  <2>6. /\ r \in Seq(S) /\ Len(r) = Len(s) - 1
        /\ \A i \in 1..(Len(s) - 1) : r[i] = IF i < n THEN s[i] ELSE s[i + 1]
    BY <2>1
  <2>7. DOMAIN r = 1..(Len(s) - 1) BY <2>6
  <2>8. ToSet(r) \subseteq ToSet(s)
    <3>1. ASSUME NEW i \in 1..(Len(s) - 1) PROVE r[i] \in {s[j] : j \in DOMAIN s}
      <4>1. i \in 1..Len(s) /\ i + 1 \in 1..Len(s) BY <1>0
      <4> QED BY <4>1, <2>6, <1>0
    <3> QED BY <3>1, <2>7 DEF ToSet
  <2>9. ASSUME IsInjective(s)
        PROVE  /\ IsInjective(r) /\ ToSet(r) = ToSet(s) \ {e}
               /\ s # <<>> /\ Head(s) # e => Head(r) = Head(s)
    <3>1. \A i, j \in 1..Len(s) : s[i] = s[j] => i = j BY <2>9, <1>0 DEF IsInjective
    <3>2. IsInjective(r) BY <3>1, <2>6, <2>7, <2>3, <1>0 DEF IsInjective
    <3>3. e \notin ToSet(r) BY <3>1, <2>6, <2>7, <2>3, <1>0 DEF ToSet
    <3>4. ASSUME NEW x \in ToSet(s), x # e PROVE x \in ToSet(r)
      <4>1. PICK i \in 1..Len(s) : s[i] = x BY <1>0 DEF ToSet
      <4>2. i # n BY <4>1, <3>4, <2>3
      <4>3. CASE i < n
        <5>1. i \in 1..(Len(s) - 1) /\ r[i] = x BY <4>1, <4>3, <2>6, <2>3, <1>0
        <5> QED BY <5>1, <2>7 DEF ToSet
      <4>4. CASE n < i
        <5>1. i - 1 \in 1..(Len(s) - 1) /\ r[i - 1] = x BY <4>1, <4>4, <2>6, <2>3, <1>0
        <5> QED BY <5>1, <2>7 DEF ToSet
      <4> QED BY <4>2, <4>3, <4>4, <4>1, <2>3
    <3>5. s # <<>> /\ Head(s) # e => Head(r) = Head(s)
      <4>1. SUFFICES ASSUME s # <<>>, Head(s) # e PROVE Head(r) = Head(s) OBVIOUS
      <4>2. Head(s) = s[1] BY <4>1
      <4>3. n # 1 BY <4>1, <4>2, <2>3
      <4>4. 1 \in 1..(Len(s) - 1) /\ r[1] = s[1] BY <4>3, <2>3, <2>6, <1>0
      <4>5. r # <<>> BY <4>4, <2>6
      <4> QED BY <4>2, <4>4, <4>5, <2>6
    <3> QED BY <3>2, <3>3, <3>4, <3>5, <2>8
  <2> QED BY <2>6, <2>8, <2>9 DEF r
<1> QED BY <1>1, <1>2
\* A file that is put last is the only one that may be new.
LEMMA PutLast ==
  ASSUME NEW S, NEW s \in Seq(S), NEW w \in S
  PROVE  /\ Append(RemoveFirst(s, w), w) \in Seq(S)
         /\ ToSet(Append(RemoveFirst(s, w), w)) \subseteq ToSet(s) \cup {w}
<1> DEFINE r == RemoveFirst(s, w)
<1>1. r \in Seq(S) /\ ToSet(r) \subseteq ToSet(s) BY TakenOut
<1> HIDE DEF r
<1>2. /\ Append(r, w) \in Seq(S) /\ Len(Append(r, w)) = Len(r) + 1
      /\ \A i \in 1..Len(r) : Append(r, w)[i] = r[i]
      /\ Append(r, w)[Len(r) + 1] = w
  BY <1>1, AppendProperties
<1>3. ASSUME NEW x \in ToSet(Append(r, w)) PROVE x \in ToSet(s) \cup {w}
  <2>1. PICK i \in 1..(Len(r) + 1) : x = Append(r, w)[i] BY <1>2, <1>3 DEF ToSet
  <2>2. CASE i = Len(r) + 1 BY <1>2, <2>1, <2>2
  <2>3. CASE i \in 1..Len(r)
    <3>1. x = r[i] BY <1>2, <2>1, <2>3
    <3>2. x \in ToSet(r) BY <3>1, <2>3, <1>1 DEF ToSet
    <3> QED BY <3>2, <1>1
  <2> QED BY <2>1, <2>2, <2>3, <1>1
<1> QED BY <1>2, <1>3 DEF r

\* Whoever joins a queue stands behind those in it.
LEMMA Joins ==
  ASSUME NEW S, NEW s \in Seq(S), NEW c \in S, IsInjective(s), c \notin ToSet(s)
  PROVE  /\ Append(s, c) \in Seq(S) /\ IsInjective(Append(s, c))
         /\ ToSet(Append(s, c)) = ToSet(s) \cup {c}
         /\ s # <<>> => Head(Append(s, c)) = Head(s)
<1> DEFINE t == Append(s, c)
<1>1. /\ t \in Seq(S) /\ t # <<>> /\ Len(t) = Len(s) + 1 /\ DOMAIN t = 1..(Len(s) + 1)
      /\ \A i \in 1..Len(s) : t[i] = s[i]
      /\ t[Len(s) + 1] = c
  BY AppendProperties
<1> HIDE DEF t
<1>2. \A i \in 1..Len(s) : s[i] # c BY DEF ToSet
<1>3. ASSUME NEW i \in 1..(Len(s) + 1), NEW j \in 1..(Len(s) + 1), t[i] = t[j] PROVE i = j
  <2>1. \A x \in 1..(Len(s) + 1) : x = Len(s) + 1 \/ x \in 1..Len(s) OBVIOUS
  <2>2. \A x, y \in 1..Len(s) : s[x] = s[y] => x = y BY DEF IsInjective
  <2> QED BY <2>1, <2>2, <1>1, <1>2, <1>3
<1>4. IsInjective(t) BY <1>1, <1>3 DEF IsInjective
<1>5. ASSUME NEW x \in ToSet(t) PROVE x \in ToSet(s) \cup {c}
  <2>1. PICK i \in 1..(Len(s) + 1) : x = t[i] BY <1>1, <1>5 DEF ToSet
  <2>2. CASE i = Len(s) + 1 BY <1>1, <2>1, <2>2
  <2>3. CASE i \in 1..Len(s) BY <1>1, <2>1, <2>3 DEF ToSet
  <2> QED BY <2>1, <2>2, <2>3
<1>6. ASSUME NEW x \in ToSet(s) \cup {c} PROVE x \in ToSet(t)
  <2>1. CASE x = c BY <1>1, <2>1 DEF ToSet
  <2>2. CASE x \in ToSet(s)
    <3>1. PICK i \in 1..Len(s) : x = s[i] BY <2>2 DEF ToSet
    <3>2. i \in 1..(Len(s) + 1) /\ x = t[i] BY <3>1, <1>1
    <3> QED BY <3>2, <1>1 DEF ToSet
  <2> QED BY <1>6, <2>1, <2>2
<1>7. s # <<>> => Head(t) = Head(s)
  <2>1. SUFFICES ASSUME s # <<>> PROVE Head(t) = Head(s) OBVIOUS
  <2>2. 1 \in 1..Len(s) /\ Head(s) = s[1] BY <2>1
  <2> QED BY <2>2, <1>1
<1> QED BY <1>1, <1>4, <1>5, <1>6, <1>7 DEF t

\* The identity Core answers with is the one that lives.
LEMMA CoreLives == Core \in Dids \cup {"none"} BY DEF Core, None

-----------------------------------------------------------------------------
(* Steps that keep the queue and the clear. *)

\* What the files hold of an identity without the ghost: of before, or of one that a clear has
\* still to clear away.
Written ==
  \A d \in Dids \ late' : d \notin late /\
    \A f \in ToSet(files') : f.owner = d =>
      \/ \E g \in ToSet(files) : g.owner = d
      \/ identity[d] = "live"
      \/ identity[d] = "gone" /\ \E k \in Calls : Clears(k) /\ calls[k].at = "cache"

\* A call that neither updates nor clears takes a step.
LEMMA Aside ==
  ASSUME DataInv, NEW c \in Calls, NEW x, calls' = [calls EXCEPT ![c] = x], Formed(x),
         ~Clears(c), ~Updates(c), x.kind # "clear",
         ~(x.kind = "update" /\ x.at \in {"load", "ensure", "rename"}),
         active' \in Dids \cup {"none"}, files' \in Seq(Key),
         UNCHANGED <<identity, book, queue>>, Written
  PROVE  DataInv'
<1>1. /\ calls' = [k \in Calls |-> calls'[k]] /\ calls'[c] = x
      /\ \A k \in Calls \ {c} : calls'[k] = calls[k]
  BY DEF DataInv, DataType
<1>2. DataType' BY <1>1 DEF DataInv, DataType, Formed, Key, Idle
<1>3. \A k \in Calls : /\ Updates(k)' = Updates(k)
                       /\ Loaded(k)' = Loaded(k) /\ Clears(k)' = Clears(k)
                       /\ Updates(k) \/ Clears(k) => calls'[k] = calls[k]
  BY <1>1 DEF Updates, Loaded, Clears
<1>4. InLine' BY <1>3 DEF DataInv, InLine, ToSet, IsInjective
<1>5. OneClear' BY <1>3 DEF DataInv, OneClear
<1>6. NoUpdateLost'
  BY <1>3 DEF DataInv, NoUpdateLost, Updates, Loaded
<1>7. Emptied'
  BY <1>3 DEF DataInv, Emptied, Written, OneClear
<1>8. ClearedIsGone' BY DEF DataInv, ClearedIsGone, NothingLeft, Written
<1> QED BY <1>2, <1>4, <1>5, <1>6, <1>7, <1>8 DEF DataInv
\* A call ends: whoever waited behind it moves up, and nothing waits for it any more.
LEMMA Ending ==
  ASSUME DataInv, NEW c \in Calls, Ends(c)
  PROVE  /\ calls' = [k \in Calls |-> calls'[k]] /\ \A k \in Calls : Formed(calls'[k])
         /\ InLine' /\ OneClear'
         /\ \A k \in Calls :
              /\ Loaded(k)' => /\ Loaded(k) /\ k # c
                               /\ calls'[k].owner = calls[k].owner
                               /\ calls'[k].read = calls[k].read
              /\ Clears(k)' => Clears(k) /\ k # c /\ calls'[k].at = calls[k].at
<1>1. /\ calls' = [k \in Calls |-> calls'[k]] /\ calls'[c] = Idle
      /\ \A k \in Calls : k # c /\ ~Clears(k) => calls'[k] = calls[k]
      /\ \A k \in Calls : k # c /\ Clears(k) =>
           calls'[k] = [calls[k] EXCEPT !.after = @ \ {c}]
  BY DEF Ends, Clears
<1>2. ASSUME NEW k \in Calls, k # c, Clears(k)
      PROVE  calls'[k] = [kind |-> "clear", owner |-> calls[k].owner,
                          after |-> calls[k].after \ {c}, at |-> calls[k].at]
  <2>1. calls[k] = [kind |-> "clear", owner |-> calls[k].owner, after |-> calls[k].after,
                    at |-> calls[k].at]
    BY <1>2 DEF DataInv, DataType, Formed, Clears, Idle
  <2> QED BY <1>1, <1>2, <2>1
<1>3. ASSUME NEW k \in Calls PROVE Formed(calls'[k])
  <2>1. Formed(calls[k]) BY DEF DataInv, DataType
  <2>2. CASE k = c BY <1>1, <2>2 DEF Formed
  <2>3. CASE k # c /\ ~Clears(k) BY <1>1, <2>1, <2>3
  <2>4. CASE k # c /\ Clears(k)
    <3>1. calls'[k] = [kind |-> "clear", owner |-> calls[k].owner,
                       after |-> calls[k].after \ {c}, at |-> calls[k].at]
      BY <1>2, <2>4
    <3> QED BY <3>1 DEF Formed
  <2> QED BY <2>2, <2>3, <2>4
<1>4. ASSUME NEW k \in Calls
      PROVE  /\ Updates(k)' <=> Updates(k) /\ k # c
             /\ Loaded(k)' <=> Loaded(k) /\ k # c
             /\ Loaded(k)' => calls'[k] = calls[k]
             /\ Clears(k)' <=> Clears(k) /\ k # c
             /\ Clears(k)' => /\ calls'[k].at = calls[k].at
                              /\ calls'[k].after = calls[k].after \ {c}
  <2>1. CASE k = c BY <1>1, <2>1 DEF Updates, Loaded, Clears, Idle
  <2>2. CASE k # c /\ ~Clears(k) BY <1>1, <2>2 DEF Updates, Loaded, Clears
  <2>3. CASE k # c /\ Clears(k)
    <3>1. calls'[k] = [kind |-> "clear", owner |-> calls[k].owner,
                       after |-> calls[k].after \ {c}, at |-> calls[k].at]
      BY <1>2, <2>3
    <3> QED BY <3>1, <2>3 DEF Updates, Loaded, Clears
  <2> QED BY <2>1, <2>2, <2>3
<1>5. InLine'
  <2>1. /\ queue' \in Seq(Calls) /\ IsInjective(queue')
        /\ ToSet(queue') = ToSet(queue) \ {c}
        /\ queue # <<>> /\ Head(queue) # c => Head(queue') = Head(queue)
    BY TakenOut DEF DataInv, InLine, Ends
  <2>2. ToSet(queue') = {k \in Calls : Updates(k)'}
    BY <2>1, <1>4 DEF DataInv, InLine
  <2>3. ASSUME NEW k \in Calls, Loaded(k)' PROVE Head(queue') = k
    <3>1. Loaded(k) /\ k # c BY <1>4, <2>3
    <3>2. Head(queue) = k BY <3>1 DEF DataInv, InLine
    <3>3. queue # <<>>
      <4>1. k \in ToSet(queue) BY <3>1 DEF DataInv, InLine, Loaded
      <4> QED BY <4>1 DEF ToSet
    <3> QED BY <2>1, <3>1, <3>2, <3>3
  <2>4. IsInjective(queue)' /\ ToSet(queue)' = ToSet(queue')
    BY <2>1 DEF IsInjective, ToSet
  <2> QED BY <2>1, <2>2, <2>3, <2>4 DEF InLine
<1>6. OneClear'
  <2>1. \A k, l \in Calls : Clears(k)' /\ Clears(l)' => k = l BY <1>4 DEF DataInv, OneClear
  <2>2. \A k \in Calls : Clears(k)' =>
          /\ calls'[k].after \subseteq {l \in Calls : Updates(l)'}
          /\ calls'[k].after # {} => calls'[k].at = "mutation"
    BY <1>4 DEF DataInv, OneClear
  <2> QED BY <2>1, <2>2 DEF OneClear
<1> QED BY <1>1, <1>3, <1>4, <1>5, <1>6

\* It ends without having done anything else.
LEMMA Ended ==
  ASSUME DataInv, NEW c \in Calls, Ends(c), UNCHANGED <<identity, active, book>>,
         files' \in Seq(Key), ToSet(files') \subseteq ToSet(files),
         late' = late
  PROVE  DataInv'
<1>1. /\ calls' = [k \in Calls |-> calls'[k]] /\ \A k \in Calls : Formed(calls'[k])
      /\ InLine' /\ OneClear'
      /\ \A k \in Calls :
           /\ Loaded(k)' => /\ Loaded(k) /\ calls'[k].owner = calls[k].owner
                            /\ calls'[k].read = calls[k].read
           /\ Clears(k)' => Clears(k) /\ calls'[k].at = calls[k].at
  BY Ending
<1>2. DataType'
  <2>1. (\A k \in Calls : Formed(calls'[k])) = (\A k \in Calls : Formed(calls[k]))'
    BY DEF Formed, Idle
  <2> QED BY <1>1, <2>1 DEF DataInv, DataType, Key
<1>3. NoUpdateLost' BY <1>1 DEF DataInv, NoUpdateLost, Loaded
<1>4. Emptied' BY <1>1 DEF DataInv, Emptied
<1>5. ClearedIsGone' BY DEF DataInv, ClearedIsGone, NothingLeft
<1> QED BY <1>1, <1>2, <1>3, <1>4, <1>5 DEF DataInv
-----------------------------------------------------------------------------
(* Steps of the updates. *)

\* A call whose owner is known joins the updates that wait for each other.
LEMMA Joining ==
  ASSUME DataInv, NEW c \in Calls, NEW x, calls' = [calls EXCEPT ![c] = x], Formed(x),
         ~Clears(c), ~Updates(c), x.kind = "update", x.at = "load",
         queue' = Append(queue, c), active' \in Dids \cup {"none"},
         UNCHANGED <<identity, files, book, late>>
  PROVE  DataInv'
<1>1. /\ calls' = [k \in Calls |-> calls'[k]] /\ calls'[c] = x
      /\ \A k \in Calls \ {c} : calls'[k] = calls[k]
  BY DEF DataInv, DataType
<1>2. DataType' BY <1>1 DEF DataInv, DataType, Formed, Key, Idle
<1>3. \A k \in Calls : /\ Updates(k)' <=> Updates(k) \/ k = c
                       /\ Loaded(k)' = Loaded(k) /\ Clears(k)' = Clears(k)
                       /\ Loaded(k) \/ Clears(k) => calls'[k] = calls[k]
  BY <1>1 DEF Updates, Loaded, Clears
<1>4. InLine'
  <2>1. queue \in Seq(Calls) /\ IsInjective(queue) /\ c \notin ToSet(queue)
    BY DEF DataInv, InLine
  <2>2. /\ queue' \in Seq(Calls) /\ IsInjective(queue')
        /\ ToSet(queue') = ToSet(queue) \cup {c}
        /\ queue # <<>> => Head(queue') = Head(queue)
    BY <2>1, Joins
  <2>3. ToSet(queue') = {k \in Calls : Updates(k)'}
    BY <2>2, <1>3 DEF DataInv, InLine
  <2>4. ASSUME NEW k \in Calls, Loaded(k)' PROVE Head(queue') = k
    <3>1. Loaded(k) /\ Head(queue) = k BY <1>3, <2>4 DEF DataInv, InLine
    <3>2. queue # <<>>
      <4>1. k \in ToSet(queue) BY <3>1 DEF DataInv, InLine, Loaded
      <4> QED BY <4>1 DEF ToSet
    <3> QED BY <2>2, <3>1, <3>2
  <2>5. IsInjective(queue)' /\ ToSet(queue)' = ToSet(queue')
    BY <2>2 DEF IsInjective, ToSet
  <2> QED BY <2>2, <2>3, <2>4, <2>5 DEF InLine
<1>5. OneClear' BY <1>3 DEF DataInv, OneClear
<1>6. NoUpdateLost' BY <1>3 DEF DataInv, NoUpdateLost, Loaded
<1>7. Emptied' BY <1>3 DEF DataInv, Emptied
<1>8. ClearedIsGone' BY DEF DataInv, ClearedIsGone, NothingLeft
<1> QED BY <1>2, <1>4, <1>5, <1>6, <1>7, <1>8 DEF DataInv

\* The first in the queue reads its file, or goes on with what it has read.
LEMMA Reading ==
  ASSUME DataInv, NEW c \in Calls, NEW x, calls' = [calls EXCEPT ![c] = x], Formed(x),
         Updates(c), Head(queue) = c, x.kind = "update", x.at \in {"ensure", "rename"},
         x.owner = calls[c].owner,
         x.read = Stored(x.owner) \/ (Loaded(c) /\ x.read = calls[c].read),
         UNCHANGED <<identity, active, files, book, queue, late>>
  PROVE  DataInv'
<1>1. /\ calls' = [k \in Calls |-> calls'[k]] /\ calls'[c] = x
      /\ \A k \in Calls \ {c} : calls'[k] = calls[k]
  BY DEF DataInv, DataType
<1>2. DataType' BY <1>1 DEF DataInv, DataType, Formed, Key, Idle
<1>3. \A k \in Calls : /\ Updates(k)' = Updates(k) /\ Clears(k)' = Clears(k)
                       /\ Loaded(k)' <=> Loaded(k) \/ k = c
                       /\ Clears(k) => calls'[k] = calls[k]
  BY <1>1 DEF Updates, Loaded, Clears
<1>4. InLine' BY <1>3 DEF DataInv, InLine, ToSet, IsInjective
<1>5. OneClear' BY <1>3 DEF DataInv, OneClear
<1>6. ASSUME NEW k \in Calls, Loaded(k)', calls'[k].owner \in DOMAIN book
      PROVE  book[calls'[k].owner] = calls'[k].read
  <2>1. CASE k # c BY <1>1, <1>3, <1>6, <2>1 DEF DataInv, NoUpdateLost, Loaded
  <2>2. CASE k = c /\ x.read = Stored(x.owner) BY <1>1, <1>6, <2>2 DEF Stored
  <2>3. CASE k = c /\ Loaded(c) /\ x.read = calls[c].read
    BY <1>1, <1>6, <2>3 DEF DataInv, NoUpdateLost, Loaded
  <2> QED BY <2>1, <2>2, <2>3
<1>7. NoUpdateLost' BY <1>6 DEF NoUpdateLost, Loaded
<1>8. Emptied' BY <1>3 DEF DataInv, Emptied
<1>9. ClearedIsGone' BY DEF DataInv, ClearedIsGone, NothingLeft
<1> QED BY <1>2, <1>4, <1>5, <1>7, <1>8, <1>9 DEF DataInv

\* The file is replaced, by the only update that has read it; unless a clear is still to empty
\* the files of the identity, or waits for this update, the ghost has it.
LEMMA Renaming == ASSUME DataInv, NEW c \in Calls, Rename(c) PROVE DataInv'
<1> DEFINE o == calls[c].owner
<1>1. /\ calls' = [k \in Calls |-> calls'[k]] /\ \A k \in Calls : Formed(calls'[k])
      /\ InLine' /\ OneClear'
      /\ \A k \in Calls :
           /\ Loaded(k)' => Loaded(k) /\ k # c
           /\ Clears(k)' => Clears(k) /\ calls'[k].at = calls[k].at
  BY Ending DEF Rename
<1>2. /\ Loaded(c) /\ Head(queue) = c
      /\ UNCHANGED <<identity, active, files>>
      /\ DOMAIN book' = DOMAIN book \cup {o}
      /\ late' = Late(c, {"cache", "cacheDir"})
  BY DEF Rename, At, Updates, Loaded, Host, Cache
<1>3. DataType'
  <2>1. (\A k \in Calls : Formed(calls'[k])) = (\A k \in Calls : Formed(calls[k]))'
    BY DEF Formed, Idle
  <2> QED BY <1>1, <1>2, <2>1 DEF DataInv, DataType, Key
<1>4. \A k \in Calls : ~Loaded(k)' BY <1>1, <1>2 DEF DataInv, InLine
<1>5. NoUpdateLost' BY <1>4 DEF NoUpdateLost, Loaded
<1>6. late \subseteq late' BY <1>2 DEF Late
<1>7. ASSUME NEW d \in Dids \ late', d = o
      PROVE  \/ identity[d] = "live"
             \/ /\ identity[d] = "gone"
                /\ \E k \in Calls : /\ Clears(k)
                                    /\ \/ calls[k].at \in {"cache", "cacheDir"}
                                       \/ calls[k].at = "mutation"
  <2>1. \/ identity[o] = "live"
        \/ identity[o] = "gone" /\ \E k \in Calls : calls[k].kind = "clear" /\
             (calls[k].at \in {"cache", "cacheDir"} \/ c \in calls[k].after)
    BY <1>2, <1>7 DEF Late
  <2> QED BY <2>1, <1>7 DEF DataInv, OneClear, Clears
<1>8. Emptied'
  <2>1. ASSUME NEW d \in Dids \ late', identity[d] = "gone", NEW k \in Calls, Clears(k)'
        PROVE  /\ calls'[k].at \in {"cacheDir", "mutation", "bookDir", "marker"} =>
                    \A f \in ToSet(files) : f.owner # d
               /\ calls'[k].at \in {"bookDir", "marker"} => d \notin DOMAIN book'
    <3>1. Clears(k) /\ calls'[k].at = calls[k].at /\ d \notin late BY <1>1, <1>6, <2>1
    <3>2. CASE d # o BY <3>1, <3>2, <1>2, <2>1 DEF DataInv, Emptied
    <3>3. CASE d = o
      <4>1. PICK j \in Calls : Clears(j) /\ calls[j].at \in {"cache", "cacheDir", "mutation"}
        BY <1>7, <2>1, <3>3
      <4>2. j = k BY <3>1, <4>1 DEF DataInv, OneClear
      <4> QED BY <3>1, <4>1, <4>2, <2>1 DEF DataInv, Emptied
    <3> QED BY <3>2, <3>3
  <2> QED BY <2>1, <1>2 DEF Emptied, ToSet
<1>9. ClearedIsGone'
  <2>1. ASSUME NEW d \in Dids \ late', identity[d] = "cleared"
        PROVE  d \notin DOMAIN book' /\ \A f \in ToSet(files) : f.owner # d
    BY <1>2, <1>6, <1>7, <2>1 DEF DataInv, ClearedIsGone, NothingLeft
  <2> QED BY <2>1, <1>2 DEF ClearedIsGone, NothingLeft, ToSet
<1> QED BY <1>1, <1>3, <1>5, <1>8, <1>9 DEF DataInv
-----------------------------------------------------------------------------
(* Steps of a clear. *)

\* The only clear takes a step, and has emptied what it has passed.
LEMMA Clearing ==
  ASSUME DataInv, NEW c \in Calls, NEW x, calls' = [calls EXCEPT ![c] = x], Formed(x),
         x.kind = "clear", ~Updates(c), \A k \in Calls \ {c} : ~Clears(k),
         x.after \subseteq {k \in Calls : Updates(k)}, x.after # {} => x.at = "mutation",
         UNCHANGED <<active, queue, late>>,
         identity' \in [Dids -> {"new", "live", "gone", "cleared"}],
         \A d \in Dids : identity'[d] = "cleared" => identity[d] = "cleared",
         files' \in Seq(Key), ToSet(files') \subseteq ToSet(files),
         book' = book \/ DOMAIN book' = {},
         \A d \in Dids \ late : identity'[d] = "gone" =>
           /\ x.at \in {"cacheDir", "mutation", "bookDir", "marker"} =>
                \A f \in ToSet(files') : f.owner # d
           /\ x.at \in {"bookDir", "marker"} => d \notin DOMAIN book'
  PROVE  DataInv'
<1>1. /\ calls' = [k \in Calls |-> calls'[k]] /\ calls'[c] = x
      /\ \A k \in Calls \ {c} : calls'[k] = calls[k]
  BY DEF DataInv, DataType
<1>2. DataType' BY <1>1 DEF DataInv, DataType, Formed, Key, Idle
<1>3. \A k \in Calls : /\ Updates(k)' = Updates(k)
                       /\ Loaded(k)' = Loaded(k) /\ (Clears(k)' <=> k = c)
                       /\ Loaded(k) => calls'[k] = calls[k]
  BY <1>1 DEF Updates, Loaded, Clears
<1>4. InLine' BY <1>3 DEF DataInv, InLine, ToSet, IsInjective
<1>5. OneClear' BY <1>1, <1>3 DEF OneClear
<1>6. NoUpdateLost' BY <1>3 DEF DataInv, NoUpdateLost, Loaded
<1>7. ToSet(files)' = ToSet(files') BY DEF ToSet
<1>8. Emptied' BY <1>1, <1>3, <1>7 DEF Emptied
<1>9. ClearedIsGone' BY <1>7 DEF DataInv, ClearedIsGone, NothingLeft
<1> QED BY <1>2, <1>4, <1>5, <1>6, <1>8, <1>9 DEF DataInv

LEMMA ClearSteps ==
  ASSUME DataInv, NEW c \in Calls,
         \/ Clear(c) \/ ClearCore(c) \/ EmptyCache(c) \/ RemoveCache(c)
         \/ EmptyBook(c) \/ RemoveBook(c)
  PROVE  DataInv'
<1> USE DEF Host, Cache, Book, At, Goes
<1>1. /\ calls = [k \in Calls |-> calls[k]] /\ Formed(calls[c])
      /\ files \in Seq(Key)
      /\ identity \in [Dids -> {"new", "live", "gone", "cleared"}]
  BY DEF DataInv, DataType
<1>2. ASSUME Clears(c)
      PROVE  /\ ~Updates(c) /\ \A k \in Calls \ {c} : ~Clears(k)
             /\ calls[c].after \subseteq {k \in Calls : Updates(k)}
             /\ calls[c].after # {} => calls[c].at = "mutation"
             /\ calls[c] = [kind |-> "clear", owner |-> calls[c].owner,
                            after |-> calls[c].after, at |-> calls[c].at]
  BY <1>1, <1>2 DEF DataInv, OneClear, Clears, Updates, Formed, Idle
<1>3. ASSUME Clears(c)
      PROVE  \A d \in Dids \ late : identity[d] = "gone" =>
               /\ calls[c].at \in {"cacheDir", "mutation", "bookDir", "marker"} =>
                    \A f \in ToSet(files) : f.owner # d
               /\ calls[c].at \in {"bookDir", "marker"} => d \notin DOMAIN book
  BY <1>3 DEF DataInv, Emptied
<1> DEFINE On(at, after) == [kind |-> "clear", owner |-> calls[c].owner, after |-> after, at |-> at]
<1>4. \A at, after : /\ Formed(On(at, after)) /\ On(at, after).kind = "clear"
                     /\ On(at, after).at = at /\ On(at, after).after = after
  BY DEF Formed
<1>5. ASSUME NEW at, Clears(c), calls' = [calls EXCEPT ![c].at = at]
      PROVE  calls' = [calls EXCEPT ![c] = On(at, calls[c].after)]
  <2>1. calls[c] = On(calls[c].at, calls[c].after) BY <1>2, <1>5
  <2>2. [calls[c] EXCEPT !.at = at] = On(at, calls[c].after) BY <2>1
  <2> QED BY <1>5, <2>2
<1>6. CASE Clear(c)
  <2> DEFINE x == [kind |-> "clear", owner |-> Core, after |-> {}, at |-> "core"]
  <2>1. /\ calls' = [calls EXCEPT ![c] = x] /\ calls[c] = Idle
        /\ \A k \in Calls : ~Clears(k)
        /\ UNCHANGED <<identity, active, files, book, queue, late>>
    BY <1>6 DEF Clear, NewCall, Busy, Clears
  <2>2. Formed(x) /\ x.kind = "clear" /\ x.after = {} /\ x.at = "core" BY DEF Formed
  <2>3. ~Updates(c) BY <2>1 DEF Updates, Idle
  <2> HIDE DEF x
  <2> QED BY <1>1, <2>1, <2>2, <2>3, Clearing
<1>7. CASE ClearCore(c)
  <2>1. /\ Clears(c) /\ calls[c].at = "core" /\ calls' = [calls EXCEPT ![c].at = "cache"]
        /\ identity' = [d \in Dids |-> IF identity[d] = "live" THEN "gone" ELSE identity[d]]
        /\ UNCHANGED <<active, files, book, queue, late>>
    BY <1>7 DEF ClearCore, Clears
  <2> DEFINE x == On("cache", calls[c].after)
  <2>2. /\ calls' = [calls EXCEPT ![c] = x] /\ Formed(x) /\ x.kind = "clear"
        /\ x.at = "cache" /\ x.after = calls[c].after
    BY <2>1, <1>4, <1>5
  <2>3. /\ identity' \in [Dids -> {"new", "live", "gone", "cleared"}]
        /\ \A d \in Dids : identity'[d] = "cleared" => identity[d] = "cleared"
    BY <2>1, <1>1
  <2> HIDE DEF x
  <2> QED BY <1>1, <1>2, <2>1, <2>2, <2>3, Clearing
<1>8. CASE EmptyCache(c)
  <2>1. /\ Clears(c) /\ calls[c].at = "cache" /\ calls' = [calls EXCEPT ![c].at = "cacheDir"]
        /\ files' = <<>> /\ UNCHANGED <<identity, active, book, queue, late>>
    BY <1>8 DEF EmptyCache, Clears
  <2> DEFINE x == On("cacheDir", calls[c].after)
  <2>2. /\ calls' = [calls EXCEPT ![c] = x] /\ Formed(x) /\ x.kind = "clear"
        /\ x.at = "cacheDir" /\ x.after = calls[c].after
    BY <2>1, <1>4, <1>5
  <2>3. files' \in Seq(Key) /\ ToSet(files') = {} BY <2>1 DEF ToSet
  <2> HIDE DEF x
  <2> QED BY <1>1, <1>2, <2>1, <2>2, <2>3, Clearing
<1>9. CASE RemoveCache(c)
  <2> DEFINE x == On("mutation", ToSet(queue))
  <2>1. /\ Clears(c) /\ calls[c].at = "cacheDir"
        /\ calls' = [calls EXCEPT ![c].after = ToSet(queue), ![c].at = "mutation"]
        /\ files = <<>> /\ UNCHANGED <<identity, active, files, book, queue, late>>
    BY <1>9 DEF RemoveCache, Clears
  <2>2. calls' = [calls EXCEPT ![c] = x]
    <3>1. calls[c] = On(calls[c].at, calls[c].after) BY <1>2, <2>1
    <3>2. \A q : [calls[c] EXCEPT !.after = q] = On(calls[c].at, q) BY <3>1
    <3>3. \A q, at : [On(at, q) EXCEPT !.at = "mutation"] = On("mutation", q) OBVIOUS
    <3>4. calls'[c] = x
      <4>1. calls'[c] = [[calls[c] EXCEPT !.after = ToSet(queue)] EXCEPT !.at = "mutation"]
        BY <2>1, <1>1
      <4> QED BY <4>1, <3>2, <3>3
    <3>5. DOMAIN calls' = Calls /\ \A k \in Calls \ {c} : calls'[k] = calls[k] BY <2>1, <1>1
    <3>6. calls' = [k \in Calls |-> calls'[k]] BY <2>1, <1>1
    <3> HIDE DEF x
    <3> QED BY <1>1, <3>4, <3>5, <3>6
  <2>3. Formed(x) /\ x.kind = "clear" /\ x.at = "mutation" /\ x.after = ToSet(queue)
    BY <1>4
  <2>4. ToSet(queue) = {k \in Calls : Updates(k)} BY DEF DataInv, InLine
  <2>5. files' \in Seq(Key) /\ ToSet(files') = {}
    <3>1. ToSet(<<>>) = {} BY DEF ToSet
    <3> QED BY <1>1, <2>1, <3>1
  <2>6. x.after \subseteq {k \in Calls : Updates(k)} BY <2>3, <2>4
  <2> HIDE DEF x
  <2> QED BY <1>1, <1>2, <2>1, <2>2, <2>3, <2>5, <2>6, Clearing
<1>10. CASE EmptyBook(c)
  <2>1. /\ Clears(c) /\ calls[c].at = "mutation" /\ calls[c].after = {}
        /\ calls' = [calls EXCEPT ![c].at = "bookDir"]
        /\ DOMAIN book' = {} /\ UNCHANGED <<identity, active, files, queue, late>>
    BY <1>10 DEF EmptyBook, NoBook, Clears
  <2> DEFINE x == On("bookDir", calls[c].after)
  <2>2. /\ calls' = [calls EXCEPT ![c] = x] /\ Formed(x) /\ x.kind = "clear"
        /\ x.at = "bookDir" /\ x.after = {}
    BY <2>1, <1>4, <1>5
  <2> HIDE DEF x
  <2> QED BY <1>1, <1>2, <1>3, <2>1, <2>2, Clearing
<1>11. CASE RemoveBook(c)
  <2>1. /\ Clears(c) /\ calls[c].at = "bookDir" /\ calls' = [calls EXCEPT ![c].at = "marker"]
        /\ DOMAIN book = {} /\ UNCHANGED <<identity, active, files, book, queue, late>>
    BY <1>11 DEF RemoveBook, Clears
  <2> DEFINE x == On("marker", calls[c].after)
  <2>2. /\ calls' = [calls EXCEPT ![c] = x] /\ Formed(x) /\ x.kind = "clear"
        /\ x.at = "marker" /\ x.after = {}
    BY <2>1, <1>2, <1>4, <1>5
  <2> HIDE DEF x
  <2> QED BY <1>1, <1>2, <1>3, <2>1, <2>2, Clearing
<1> QED BY <1>6, <1>7, <1>8, <1>9, <1>10, <1>11

\* The answer: what is gone is cleared, and there is nothing left of it.
LEMMA ClearAnswered == ASSUME DataInv, NEW c \in Calls, Cleared(c) PROVE DataInv'
<1>1. /\ calls' = [k \in Calls |-> calls'[k]] /\ \A k \in Calls : Formed(calls'[k])
      /\ InLine' /\ OneClear'
      /\ \A k \in Calls :
           /\ Loaded(k)' => /\ Loaded(k) /\ calls'[k].owner = calls[k].owner
                            /\ calls'[k].read = calls[k].read
           /\ Clears(k)' => Clears(k) /\ k # c
  BY Ending DEF Cleared
<1>2. /\ Clears(c) /\ calls[c].at = "marker" /\ active' = "none"
      /\ identity' = [d \in Dids |-> IF identity[d] = "gone" THEN "cleared" ELSE identity[d]]
      /\ UNCHANGED <<files, book, late>>
  BY DEF Cleared, At, None, Cache, Book, Clears
<1>3. DataType'
  <2>1. (\A k \in Calls : Formed(calls'[k])) = (\A k \in Calls : Formed(calls[k]))'
    BY DEF Formed, Idle
  <2> QED BY <1>1, <1>2, <2>1 DEF DataInv, DataType, Key
<1>4. NoUpdateLost' BY <1>1, <1>2 DEF DataInv, NoUpdateLost, Loaded
<1>5. \A k \in Calls : ~Clears(k)' BY <1>1, <1>2 DEF DataInv, OneClear
<1>6. Emptied' BY <1>5 DEF Emptied
<1>7. ToSet(files)' = ToSet(files) BY <1>2 DEF ToSet
<1>8. ClearedIsGone'
  <2>1. ASSUME NEW d \in Dids \ late, identity'[d] = "cleared"
        PROVE  d \notin DOMAIN book /\ \A f \in ToSet(files) : f.owner # d
    <3>1. identity[d] \in {"gone", "cleared"} BY <1>2, <2>1
    <3> QED BY <3>1, <1>2, <2>1 DEF DataInv, Emptied, ClearedIsGone, NothingLeft
  <2> QED BY <2>1, <1>2, <1>7 DEF ClearedIsGone, NothingLeft
<1> QED BY <1>1, <1>3, <1>4, <1>6, <1>8 DEF DataInv
-----------------------------------------------------------------------------
(* Steps of the downloads, and of calls that do not know their owner yet. *)

LEMMA DownloadSteps ==
  ASSUME DataInv, NEW c \in Calls,
         \/ Miss(c) \/ DownloadOwner(c) \/ SecondMiss(c) \/ Fetched(c)
         \/ EnsureCache(c) \/ Store(c) \/ Chmod(c) \/ List(c) \/ Stat(c)
         \/ Evict(c)
         \/ IdentityAnswers(c) /\ calls[c].kind = "download"
  PROVE  DataInv'
<1> DEFINE Down(owner, listed, at) ==
             [kind |-> "download", image |-> calls[c].image, owner |-> owner,
              listed |-> listed, sent |-> calls[c].sent, at |-> at]
           o == calls[c].owner
           ls == calls[c].listed
           a == calls[c].at
<1> USE DEF Host, Cache, Book, At, Goes
<1>1. /\ calls = [k \in Calls |-> calls[k]] /\ Formed(calls[c])
      /\ files \in Seq(Key) /\ active \in Dids \cup {"none"}
  BY DEF DataInv, DataType
<1>2. calls[c].kind = "download"
  BY DEF Miss, DownloadOwner, SecondMiss, Fetched, EnsureCache,
     Store, Chmod, List, Stat, Evict
<1>3. /\ ~Clears(c) /\ ~Updates(c)
      /\ calls[c].image \in Images /\ o \in Dids \cup {"none"}
      /\ a \notin {"identity", "told"} => o # "none"
      /\ calls[c] = Down(o, ls, a)
  BY <1>1, <1>2 DEF Formed, Idle, Clears, Updates
<1>d. /\ \A x : [calls[c] EXCEPT !.owner = x] = Down(x, ls, a)
      /\ \A x : [calls[c] EXCEPT !.listed = x] = Down(o, x, a)
      /\ \A x : [calls[c] EXCEPT !.at = x] = Down(o, ls, x)
      /\ \A x, y, z : [Down(x, y, a) EXCEPT !.at = z] = Down(x, y, z)
  BY <1>3
<1>4. ASSUME NEW x \in Dids \cup {"none"}, NEW y, NEW z,
             x = "none" => z \in {"identity", "told"}
      PROVE  /\ Formed(Down(x, y, z)) /\ Down(x, y, z).kind = "download"
  BY <1>3, <1>4 DEF Formed
<1>5. ASSUME NEW x \in Dids \cup {"none"}, NEW y, NEW z,
             x = "none" => z \in {"identity", "told"},
             calls'[c] = Down(x, y, z), DOMAIN calls' = Calls, calls' = [k \in Calls |-> calls'[k]],
             \A k \in Calls \ {c} : calls'[k] = calls[k],
             active' \in Dids \cup {"none"}, files' \in Seq(Key),
             UNCHANGED <<identity, book, queue>>, Written
      PROVE  DataInv'
  <2> DEFINE new == Down(x, y, z)
  <2>1. Formed(new) /\ new.kind = "download" BY <1>4, <1>5
  <2> HIDE DEF new
  <2>2. calls' = [calls EXCEPT ![c] = new] BY <1>1, <1>5 DEF new
  <2> QED BY <1>3, <1>5, <2>1, <2>2, Aside
<1>6. ASSUME files' = files, late' = late PROVE Written
  BY <1>6 DEF Written, ToSet
<1> HIDE DEF Down
<1>7. CASE Miss(c)
  <2>1. /\ DOMAIN calls' = Calls /\ calls' = [k \in Calls |-> calls'[k]]
        /\ \A k \in Calls \ {c} : calls'[k] = calls[k]
        /\ calls'[c] = [[calls[c] EXCEPT !.owner = active]
                          EXCEPT !.at = IF active = "none" THEN "identity" ELSE "lookup"]
        /\ UNCHANGED <<identity, active, files, book, queue, late>>
    BY <1>1, <1>7 DEF Miss, None
  <2> DEFINE z == IF active = "none" THEN "identity" ELSE "lookup"
  <2>2. calls'[c] = Down(active, ls, z) BY <2>1, <1>d DEF Down
  <2>3. active = "none" => z \in {"identity", "told"} OBVIOUS
  <2>4. active' \in Dids \cup {"none"} /\ files' \in Seq(Key) /\ Written BY <1>1, <1>6, <2>1
  <2>5. active \in Dids \cup {"none"} /\ UNCHANGED <<identity, book, queue>> BY <1>1, <2>1
  <2>6. /\ DOMAIN calls' = Calls /\ calls' = [k \in Calls |-> calls'[k]]
        /\ \A k \in Calls \ {c} : calls'[k] = calls[k]
    BY <2>1
  <2> HIDE DEF z, o, ls, a
  <2> QED BY <1>5, <2>2, <2>3, <2>4, <2>5, <2>6
<1>8. CASE DownloadOwner(c)
  <2> DEFINE w == Owner(c)
             z == IF calls[c].sent THEN "ensure" ELSE "lookup"
  <2>1. /\ DOMAIN calls' = Calls /\ calls' = [k \in Calls |-> calls'[k]]
        /\ \A k \in Calls \ {c} : calls'[k] = calls[k]
        /\ calls'[c] = [[calls[c] EXCEPT !.owner = w] EXCEPT !.at = z]
        /\ active' = w /\ w # "none"
        /\ UNCHANGED <<identity, files, book, queue, late>>
    BY <1>1, <1>8 DEF DownloadOwner, None
  <2>2. w \in Dids \cup {"none"} BY <1>1, <1>3 DEF Owner
  <2> HIDE DEF w, z
  <2>3. calls'[c] = Down(w, ls, z) BY <2>1, <1>d DEF Down
  <2> QED BY <1>1, <1>5, <1>6, <2>1, <2>2, <2>3
<1>9. ASSUME NEW z, calls' = [calls EXCEPT ![c].at = z], o # "none",
              UNCHANGED <<identity, active, files, book, queue, late>>
       PROVE  DataInv'
  <2>1. /\ DOMAIN calls' = Calls /\ calls' = [k \in Calls |-> calls'[k]]
        /\ \A k \in Calls \ {c} : calls'[k] = calls[k]
        /\ calls'[c] = [calls[c] EXCEPT !.at = z]
    BY <1>1, <1>9
  <2>2. calls'[c] = Down(o, ls, z) BY <2>1, <1>d DEF Down
  <2> QED BY <1>1, <1>3, <1>5, <1>6, <1>9, <2>1, <2>2
<1>10. CASE SecondMiss(c) \/ Fetched(c) \/ EnsureCache(c) \/ Chmod(c)
  <2>1. /\ o # "none" /\ UNCHANGED <<identity, active, files, book, queue, late>>
        /\ \E z \in {"fetch", "ensure", "store", "list"} : calls' = [calls EXCEPT ![c].at = z]
    BY <1>3, <1>10 DEF SecondMiss, Fetched, EnsureCache, Chmod
  <2> QED BY <1>9, <2>1
<1>11. CASE Store(c)
  <2> DEFINE w == Wanted(c)
  <2>1. /\ calls' = [calls EXCEPT ![c].at = "chmod"] /\ o # "none" /\ o \in Dids
        /\ files' = Append(RemoveFirst(files, w), w)
        /\ late' = Late(c, {"cache"})
        /\ UNCHANGED <<identity, active, book, queue>>
    BY <1>3, <1>11 DEF Store
  <2>2. w \in Key /\ w.owner = o BY <1>3, <2>1 DEF Wanted, Key
  <2> HIDE DEF w
  <2>3. files' \in Seq(Key) /\ ToSet(files') \subseteq ToSet(files) \cup {w}
    BY <1>1, <2>1, <2>2, PutLast
  <2>4. Written
    <3>1. late \subseteq late' BY <2>1 DEF Late
    <3>2. ASSUME NEW d \in Dids \ late', d = o
          PROVE  \/ identity[d] = "live"
                 \/ identity[d] = "gone" /\ \E k \in Calls : Clears(k) /\ calls[k].at = "cache"
      <4>1. \A k \in Calls : Clears(k) => c \notin calls[k].after
        BY <1>3 DEF DataInv, OneClear
      <4> QED BY <2>1, <3>2, <4>1 DEF Late, Clears
    <3> QED BY <2>2, <2>3, <3>1, <3>2 DEF Written
  <2>5. /\ DOMAIN calls' = Calls /\ calls' = [k \in Calls |-> calls'[k]]
        /\ \A k \in Calls \ {c} : calls'[k] = calls[k]
        /\ calls'[c] = [calls[c] EXCEPT !.at = "chmod"]
    BY <1>1, <2>1
  <2>6. calls'[c] = Down(o, ls, "chmod") BY <2>5, <1>d DEF Down
  <2>7. active' \in Dids \cup {"none"} /\ o # "none" /\ o \in Dids \cup {"none"}
    BY <1>1, <1>3, <2>1
  <2> QED BY <1>5, <2>1, <2>3, <2>4, <2>5, <2>6, <2>7
<1>12. CASE List(c) \/ Stat(c)
  <2>1. PICK l, z : calls' = [calls EXCEPT ![c].listed = l, ![c].at = z]
    BY <1>12 DEF List, Stat
  <2>2. o # "none" /\ UNCHANGED <<identity, active, files, book, queue, late>>
    BY <1>3, <1>12 DEF List, Stat
  <2>3. /\ DOMAIN calls' = Calls /\ calls' = [k \in Calls |-> calls'[k]]
        /\ \A k \in Calls \ {c} : calls'[k] = calls[k]
        /\ calls'[c] = [[calls[c] EXCEPT !.listed = l] EXCEPT !.at = z]
    BY <1>1, <2>1
  <2>4. calls'[c] = Down(o, l, z) BY <2>3, <1>d DEF Down
  <2> QED BY <1>1, <1>3, <1>5, <1>6, <2>2, <2>3, <2>4
<1>13. CASE Evict(c)
  <2>1. /\ a = "evict" /\ calls' = [calls EXCEPT ![c].listed = Tail(ls)]
        /\ files' = RemoveFirst(files, Head(ls)) \/ files' = files
        /\ UNCHANGED <<identity, active, book, queue, late>>
    BY <1>1, <1>13 DEF Evict
  <2>2. files' \in Seq(Key) /\ ToSet(files') \subseteq ToSet(files)
    BY <1>1, <2>1, TakenOut
  <2>3. Written BY <2>1, <2>2 DEF Written
  <2>4. /\ DOMAIN calls' = Calls /\ calls' = [k \in Calls |-> calls'[k]]
        /\ \A k \in Calls \ {c} : calls'[k] = calls[k]
        /\ calls'[c] = [calls[c] EXCEPT !.listed = Tail(ls)]
    BY <1>1, <2>1
  <2>5. calls'[c] = Down(o, Tail(ls), a) BY <2>4, <1>d DEF Down
  <2>6. active' \in Dids \cup {"none"} /\ o # "none" /\ o \in Dids \cup {"none"}
    BY <1>1, <1>3, <2>1
  <2>7. UNCHANGED <<identity, book, queue>> BY <2>1
  <2> HIDE DEF o, ls, a
  <2> QED BY <1>5, <2>2, <2>3, <2>4, <2>5, <2>6, <2>7
<1>14. CASE IdentityAnswers(c) /\ calls[c].kind = "download"
  <2> DEFINE w == Core
  <2>1. /\ DOMAIN calls' = Calls /\ calls' = [k \in Calls |-> calls'[k]]
        /\ \A k \in Calls \ {c} : calls'[k] = calls[k]
        /\ calls'[c] = [[calls[c] EXCEPT !.owner = w] EXCEPT !.at = "told"]
        /\ UNCHANGED <<identity, active, files, book, queue, late>>
    BY <1>1, <1>14 DEF IdentityAnswers
  <2>2. w \in Dids \cup {"none"} BY CoreLives
  <2> HIDE DEF w
  <2>3. calls'[c] = Down(w, ls, "told") BY <2>1, <1>d DEF Down
  <2> QED BY <1>1, <1>5, <1>6, <2>1, <2>2, <2>3
<1> QED BY <1>7, <1>8, <1>10, <1>11, <1>12, <1>13, <1>14
LEMMA NewCalls ==
  ASSUME DataInv, NEW c \in Calls,
         \/ \E i \in Images : Download(c, i) \/ Send(c, i)
         \/ \E m \in Mutations : Update(c, m)
  PROVE  DataInv'
<1> USE DEF Host, Cache, Book, NewCall
<1>1. /\ calls[c] = Idle /\ files \in Seq(Key) /\ active \in Dids \cup {"none"}
  BY DEF DataInv, DataType, Download, Send, Update
<1>2. ~Clears(c) /\ ~Updates(c) BY <1>1 DEF Clears, Updates, Idle
<1>3. ASSUME NEW i \in Images, Download(c, i) \/ Send(c, i) PROVE DataInv'
  <2> DEFINE x(sent, at) == [kind |-> "download", image |-> i, owner |-> active, listed |-> <<>>,
                             sent |-> sent, at |-> at]
  <2>1. PICK sent, at : /\ calls' = [calls EXCEPT ![c] = x(sent, at)]
                        /\ active = "none" => at = "identity"
    BY <1>3 DEF Download, Send, None
  <2> DEFINE new == x(sent, at)
  <2>2. Formed(new) /\ new.kind = "download" BY <1>1, <2>1 DEF Formed
  <2>3. UNCHANGED <<identity, active, files, book, queue, late>>
    BY <1>3 DEF Download, Send
  <2>4. Written BY <2>3 DEF Written, ToSet
  <2>5. calls' = [calls EXCEPT ![c] = new] BY <2>1
  <2> HIDE DEF new
  <2> QED BY <1>1, <1>2, <2>2, <2>3, <2>4, <2>5, Aside
<1>4. ASSUME NEW m \in Mutations, Update(c, m) PROVE DataInv'
  <2> DEFINE x(at) == [kind |-> "update", mutation |-> m, owner |-> active,
                       read |-> NoPreferences, at |-> at]
             new == x(IF active = "none" THEN "identity" ELSE "load")
  <2>1. /\ calls' = [calls EXCEPT ![c] = new]
        /\ UNCHANGED <<identity, files, book, late>> /\ active' = active
        /\ IF active = "none" THEN queue' = queue ELSE queue' = Append(queue, c)
    BY <1>4 DEF Update, None, Queued
  <2>2. /\ Formed(new) /\ new.kind = "update"
        /\ new.at = IF active = "none" THEN "identity" ELSE "load"
    BY <1>1 DEF Formed
  <2>3. Written BY <2>1 DEF Written, ToSet
  <2> HIDE DEF new
  <2>4. CASE active = "none" BY <1>1, <1>2, <2>1, <2>2, <2>3, <2>4, Aside
  <2>5. CASE active # "none" BY <1>1, <1>2, <2>1, <2>2, <2>5, Joining
  <2> QED BY <2>4, <2>5
<1> QED BY <1>3, <1>4

LEMMA UpdateSteps ==
  ASSUME DataInv, NEW c \in Calls,
         \/ IdentityAnswers(c) /\ calls[c].kind = "update"
         \/ UpdateOwner(c) \/ Load(c) \/ EnsureBook(c)
  PROVE  DataInv'
<1> USE DEF Host, Cache, Book, At, Goes
<1> DEFINE Up(owner, read, at) ==
             [kind |-> "update", mutation |-> calls[c].mutation, owner |-> owner,
              read |-> read, at |-> at]
           o == calls[c].owner
           r == calls[c].read
           a == calls[c].at
<1>1. /\ calls = [k \in Calls |-> calls[k]] /\ Formed(calls[c])
      /\ files \in Seq(Key) /\ active \in Dids \cup {"none"}
  BY DEF DataInv, DataType
<1>2. calls[c].kind = "update" BY DEF UpdateOwner, Load, EnsureBook
<1>3. /\ ~Clears(c) /\ o \in Dids \cup {"none"} /\ calls[c] = Up(o, r, a)
  BY <1>1, <1>2 DEF Formed, Idle, Clears
<1>4. /\ \A x : [calls[c] EXCEPT !.owner = x] = Up(x, r, a)
      /\ \A x : [calls[c] EXCEPT !.read = x] = Up(o, x, a)
      /\ \A x : [calls[c] EXCEPT !.at = x] = Up(o, r, x)
      /\ \A x, y, z : [Up(x, y, a) EXCEPT !.at = z] = Up(x, y, z)
  BY <1>3
<1>u. ASSUME NEW x, NEW y, NEW z
      PROVE  /\ [[calls[c] EXCEPT !.owner = x] EXCEPT !.at = z] = Up(x, r, z)
             /\ [[calls[c] EXCEPT !.read = y] EXCEPT !.at = z] = Up(o, y, z)
  <2> DEFINE u == [calls[c] EXCEPT !.owner = x]
             v == [calls[c] EXCEPT !.read = y]
  <2>1. u = Up(x, r, a) /\ v = Up(o, y, a) BY <1>4
  <2> HIDE DEF u, v
  <2>2. [u EXCEPT !.at = z] = Up(x, r, z) /\ [v EXCEPT !.at = z] = Up(o, y, z) BY <2>1
  <2> QED BY <2>2 DEF u, v
<1>5. ASSUME NEW x \in Dids \cup {"none"}, NEW y, NEW z
      PROVE  /\ Formed(Up(x, y, z)) /\ Up(x, y, z).kind = "update" /\ Up(x, y, z).owner = x
             /\ Up(x, y, z).read = y /\ Up(x, y, z).at = z
  BY DEF Formed
<1>6. CASE IdentityAnswers(c) /\ calls[c].kind = "update"
  <2> DEFINE w == Core
             new == Up(w, r, "told")
  <2>1. /\ a = "identity"
        /\ calls' = [calls EXCEPT ![c].owner = w, ![c].at = "told"]
        /\ UNCHANGED <<identity, active, files, book, queue, late>>
    BY <1>6 DEF IdentityAnswers
  <2>2. calls' = [calls EXCEPT ![c] = [[calls[c] EXCEPT !.owner = w] EXCEPT !.at = "told"]]
    BY <1>1, <2>1
  <2>3. [[calls[c] EXCEPT !.owner = w] EXCEPT !.at = "told"] = new BY <1>u
  <2>4. w \in Dids \cup {"none"} BY CoreLives
  <2>5. Formed(new) /\ new.kind = "update" /\ new.at = "told" BY <1>5, <2>4
  <2>6. Written BY <2>1 DEF Written, ToSet
  <2>7. ~Updates(c) BY <2>1 DEF Updates
  <2> HIDE DEF new
  <2>8. calls' = [calls EXCEPT ![c] = new] BY <2>2, <2>3
  <2> QED BY <1>1, <1>3, <2>1, <2>5, <2>6, <2>7, <2>8, Aside
<1>7. CASE UpdateOwner(c)
  <2> DEFINE w == Owner(c)
             new == Up(w, r, "load")
  <2>1. /\ a = "told"
        /\ calls' = [calls EXCEPT ![c].owner = w, ![c].at = "load"]
        /\ queue' = Append(queue, c) /\ active' = w
        /\ UNCHANGED <<identity, files, book, late>>
    BY <1>7 DEF UpdateOwner, Queued
  <2>2. w \in Dids \cup {"none"} BY <1>1, <1>3 DEF Owner
  <2>3. calls' = [calls EXCEPT ![c] = [[calls[c] EXCEPT !.owner = w] EXCEPT !.at = "load"]]
    BY <1>1, <2>1
  <2>4. [[calls[c] EXCEPT !.owner = w] EXCEPT !.at = "load"] = new BY <1>u
  <2>5. Formed(new) /\ new.kind = "update" /\ new.at = "load" BY <1>5, <2>2
  <2>6. ~Updates(c) BY <2>1 DEF Updates
  <2> HIDE DEF new, w
  <2>7. calls' = [calls EXCEPT ![c] = new] BY <2>3, <2>4
  <2> QED BY <1>3, <2>1, <2>2, <2>5, <2>6, <2>7, Joining
<1>8. CASE Load(c)
  <2> DEFINE new == Up(o, Stored(o), "ensure")
  <2>1. /\ a = "load" /\ Head(queue) = c
        /\ calls' = [calls EXCEPT ![c].read = Stored(o), ![c].at = "ensure"]
        /\ UNCHANGED <<identity, active, files, book, queue, late>>
    BY <1>8 DEF Load
  <2>2. calls' = [calls EXCEPT ![c] = [[calls[c] EXCEPT !.read = Stored(o)] EXCEPT !.at = "ensure"]]
    BY <1>1, <2>1
  <2>3. [[calls[c] EXCEPT !.read = Stored(o)] EXCEPT !.at = "ensure"] = new BY <1>u
  <2>4. /\ Formed(new) /\ new.kind = "update" /\ new.at = "ensure" /\ new.owner = o
        /\ new.read = Stored(o)
    BY <1>3, <1>5
  <2>5. Updates(c) BY <1>2, <2>1 DEF Updates
  <2> HIDE DEF new
  <2>6. calls' = [calls EXCEPT ![c] = new] BY <2>2, <2>3
  <2>7. new.at \in {"ensure", "rename"} BY <2>4
  <2>8. new.owner = calls[c].owner /\ new.read = Stored(new.owner) BY <2>4
  <2> QED BY <2>1, <2>4, <2>5, <2>6, <2>7, <2>8, Reading
<1>9. CASE EnsureBook(c)
  <2> DEFINE new == Up(o, r, "rename")
  <2>1. /\ a = "ensure" /\ Head(queue) = c
        /\ calls' = [calls EXCEPT ![c].at = "rename"]
        /\ UNCHANGED <<identity, active, files, book, queue, late>>
    BY <1>9 DEF EnsureBook
  <2>2. calls' = [calls EXCEPT ![c] = [calls[c] EXCEPT !.at = "rename"]] BY <1>1, <2>1
  <2>3. [calls[c] EXCEPT !.at = "rename"] = new BY <1>4
  <2>4. /\ Formed(new) /\ new.kind = "update" /\ new.at = "rename" /\ new.owner = o
        /\ new.read = r
    BY <1>3, <1>5
  <2>5. Updates(c) /\ Loaded(c) BY <1>2, <2>1 DEF Updates, Loaded
  <2> HIDE DEF new
  <2>6. calls' = [calls EXCEPT ![c] = new] BY <2>2, <2>3
  <2> QED BY <2>1, <2>4, <2>5, <2>6, Reading
<1> QED BY <1>6, <1>7, <1>8, <1>9
LEMMA EndSteps ==
  ASSUME DataInv, NEW c \in Calls,
         \/ Hit(c) \/ Downloaded(c) \/ WriteFails(c) \/ NotRegistered(c)
         \/ UpdateRefused(c) \/ NotEmpty(c) \/ Fails(c)
  PROVE  DataInv'
<1> USE DEF Host, Cache, Book, At
<1>1. files \in Seq(Key) /\ Formed(calls[c]) BY DEF DataInv, DataType
<1>2. CASE Hit(c)
  <2> DEFINE w == Wanted(c)
  <2>1. /\ Ends(c) /\ Contains(files, w) /\ calls[c].kind = "download"
        /\ files' = Append(RemoveFirst(files, w), w)
        /\ UNCHANGED <<identity, active, book, late>>
    BY <1>2 DEF Hit
  <2>2. w \in ToSet(files) /\ w \in Key
    BY <1>1, <2>1 DEF Contains, ToSet
  <2> HIDE DEF w
  <2>3. files' \in Seq(Key) /\ ToSet(files') \subseteq ToSet(files)
    BY <1>1, <2>1, <2>2, PutLast
  <2> QED BY <2>1, <2>3, Ended
<1>3. CASE ~Hit(c)
  <2>1. Ends(c) /\ UNCHANGED <<identity, active, files, book, late>>
    BY <1>3 DEF Downloaded, WriteFails, NotRegistered, UpdateRefused,
       NotEmpty, Fails
  <2>2. files' \in Seq(Key) /\ ToSet(files') \subseteq ToSet(files)
    BY <1>1, <2>1
  <2> QED BY <2>1, <2>2, Ended
<1> QED BY <1>2, <1>3

-----------------------------------------------------------------------------
(* Registration, reads of the session, crashes, and the theorems. *)

\* Nothing is lost with the calls of a Host that ends, or a step that no call takes.
LEMMA NoCall ==
  ASSUME DataInv, calls' = calls \/ calls' = [c \in Calls |-> Idle],
         calls' = calls => queue' = queue, calls' # calls => queue' = <<>>,
         active' \in Dids \cup {"none"}, UNCHANGED <<files, book, late>>,
         identity' \in [Dids -> {"new", "live", "gone", "cleared"}],
         \A d \in Dids : identity'[d] \in {"gone", "cleared"} => identity'[d] = identity[d]
  PROVE  DataInv'
<1>1. ClearedIsGone' BY DEF DataInv, ClearedIsGone, NothingLeft, ToSet
<1>2. CASE calls' = calls
  <2>1. DataType' BY <1>2 DEF DataInv, DataType, Formed, Key, Idle
  <2>2. InLine' /\ OneClear' /\ NoUpdateLost'
    BY <1>2 DEF DataInv, InLine, OneClear, NoUpdateLost, Loaded, Clears, Updates,
       ToSet, IsInjective
  <2>3. Emptied' BY <1>2 DEF DataInv, Emptied, Clears, ToSet
  <2> QED BY <1>1, <2>1, <2>2, <2>3 DEF DataInv
<1>3. CASE calls' # calls
  <2>1. /\ calls' = [c \in Calls |-> Idle] /\ queue' = <<>> BY <1>3
  <2>2. \A c \in Calls : /\ ~Updates(c)' /\ ~Clears(c)' /\ ~Loaded(c)'
                         /\ calls'[c] = Idle
    BY <2>1 DEF Updates, Clears, Loaded, Idle
  <2>3. DataType' BY <2>1 DEF DataInv, DataType, Formed, Key, Idle
  <2>4. InLine' BY <2>1, <2>2 DEF InLine, ToSet, IsInjective
  <2>5. OneClear' /\ NoUpdateLost' /\ Emptied'
    BY <2>2 DEF OneClear, NoUpdateLost, Loaded, Emptied
  <2> QED BY <1>1, <2>3, <2>4, <2>5 DEF DataInv
<1> QED BY <1>2, <1>3

LEMMA DataStarts == ASSUME "none" \notin Dids, LocalInit PROVE DataInv
<1> USE DEF LocalInit
<1>1. DataType BY DEF DataType, Formed, None
<1>2. \A c \in Calls : ~Updates(c) /\ ~Clears(c) /\ ~Loaded(c)
  BY DEF Updates, Clears, Loaded, Idle
<1>3. InLine BY <1>2 DEF InLine, ToSet, IsInjective
<1>4. OneClear /\ NoUpdateLost /\ Emptied
  BY <1>2 DEF OneClear, NoUpdateLost, Loaded, Emptied
<1>5. ClearedIsGone BY DEF ClearedIsGone
<1> QED BY <1>1, <1>3, <1>4, <1>5 DEF DataInv

LEMMA DataStep == ASSUME DataInv, [LocalNext]_localVars PROVE DataInv'
<1> USE DEF Host, Cache, Book
<1>1. /\ identity \in [Dids -> {"new", "live", "gone", "cleared"}]
      /\ active \in Dids \cup {"none"}
  BY DEF DataInv, DataType
<1>2. CASE UNCHANGED localVars BY <1>1, <1>2, NoCall DEF localVars
<1>3. ASSUME NEW c \in Calls,
             \/ \E i \in Images : Download(c, i) \/ Send(c, i)
             \/ \E m \in Mutations : Update(c, m)
      PROVE  DataInv'
  BY <1>3, NewCalls
<1>4. ASSUME NEW c \in Calls, IdentityAnswers(c) PROVE DataInv'
  <2>1. calls[c].kind \in {"download", "update"} BY <1>4 DEF IdentityAnswers, At
  <2> QED BY <1>4, <2>1, DownloadSteps, UpdateSteps
<1>5. ASSUME NEW c \in Calls,
             Clear(c) \/ Fails(c) \/ NotRegistered(c) \/ CacheStep(c)
             \/ BookStep(c) \/ ClearStep(c)
      PROVE  DataInv'
  BY <1>5, ClearSteps, ClearAnswered, EndSteps, DownloadSteps, UpdateSteps, Renaming
     DEF CacheStep, BookStep, ClearStep
<1>6. ASSUME NEW d \in Dids, Register(d) PROVE DataInv'
  <2>1. /\ identity' = [identity EXCEPT ![d] = "live"] /\ active' = d
        /\ UNCHANGED <<files, book, queue, calls, late>>
    BY <1>6 DEF Register
  <2>2. /\ identity' \in [Dids -> {"new", "live", "gone", "cleared"}]
        /\ \A e \in Dids : identity'[e] \in {"gone", "cleared"} => identity'[e] = identity[e]
    BY <1>1, <2>1
  <2> QED BY <2>1, <2>2, NoCall
<1>7. CASE Reads
  <2>1. active' = Core /\ UNCHANGED <<identity, files, book, queue, calls, late>>
    BY <1>7 DEF Reads
  <2> QED BY <1>1, <2>1, CoreLives, NoCall
<1>8. CASE Crash
  <2>1. /\ calls' = [c \in Calls |-> Idle] /\ queue' = <<>> /\ active' = "none"
        /\ calls' # calls /\ UNCHANGED <<identity, files, book, late>>
    BY <1>8 DEF Crash, None
  <2> QED BY <1>1, <2>1, NoCall
<1> QED BY <1>2, <1>3, <1>4, <1>5, <1>6, <1>7, <1>8 DEF LocalNext

\* The invariant, of which the theorems below are parts.
LEMMA DataHolds == ASSUME "none" \notin Dids PROVE LocalSpec => []DataInv
<1>1. LocalInit => DataInv BY DataStarts
<1>2. DataInv /\ [LocalNext]_localVars => DataInv' BY DataStep
<1> QED BY <1>1, <1>2, PTL DEF LocalSpec

\* What an update of the preferences has read is what it replaces, for any number of overlapping
\* updates, failures and crashes (conversation-preferences.ts:188): because the updates wait for
\* each other in one queue, the first of them alone has read its file.
THEOREM NoUpdateIsLost == ASSUME LocalDataAssumption PROVE LocalSpec => []NoUpdateLost
<1>1. "none" \notin Dids BY DEF LocalDataAssumption
<1>2. DataInv => NoUpdateLost BY DEF DataInv
<1> QED BY <1>1, <1>2, DataHolds, PTL

\* A clear that has answered leaves neither an image nor a preference of the identity, but what
\* was written behind it (index.ts:2850), for any number of calls in flight, and also if
\* downloads overlap: a clear has emptied what it has passed, and waits for the updates before it.
THEOREM ClearLeavesNothing ==
  ASSUME LocalDataAssumption PROVE LocalSpec => []ClearedIsGone
<1>1. "none" \notin Dids BY DEF LocalDataAssumption
<1>2. DataInv => ClearedIsGone BY DEF DataInv
<1> QED BY <1>1, <1>2, DataHolds, PTL

\* A file that is put last is there once.
LEMMA OnceEach ==
  ASSUME NEW S, NEW s \in Seq(S), IsInjective(s), NEW w \in S
  PROVE  IsInjective(Append(RemoveFirst(s, w), w))
<1> DEFINE r == RemoveFirst(s, w)
<1>1. r \in Seq(S) /\ IsInjective(r) /\ w \notin ToSet(r) BY TakenOut
<1> HIDE DEF r
<1>2. IsInjective(Append(r, w)) BY <1>1, Joins
<1> QED BY <1>2 DEF r

\* The cache has each image once.
LEMMA FilesOnce ==
  ASSUME DataInv, IsInjective(files), [LocalNext]_localVars
  PROVE  IsInjective(files')
<1> USE DEF Host, Cache, Book, At
<1>1. files \in Seq(Key) /\ IsInjective(files) BY DEF DataInv, DataType
<1>2. ASSUME NEW c \in Calls, Hit(c) \/ Store(c) PROVE IsInjective(files')
  <2> DEFINE w == Wanted(c)
  <2>1. files' = Append(RemoveFirst(files, w), w) BY <1>2 DEF Hit, Store
  <2>2. w \in Key
    <3>1. CASE Hit(c) BY <1>1, <3>1 DEF Hit, Contains
    <3>2. CASE Store(c)
      <4>1. calls[c].image \in Images /\ calls[c].owner \in Dids
        BY <3>2 DEF Store, DataInv, DataType, Formed, Idle
      <4> QED BY <4>1 DEF Wanted, Key
    <3> QED BY <1>2, <3>1, <3>2
  <2> HIDE DEF w
  <2> QED BY <1>1, <2>1, <2>2, OnceEach
<1>3. ASSUME NEW c \in Calls, Evict(c) PROVE IsInjective(files')
  <2> DEFINE w == Head(calls[c].listed)
  <2>1. files' = RemoveFirst(files, w) \/ files' = files BY <1>3 DEF Evict
  <2> HIDE DEF w
  <2> QED BY <1>1, <2>1, TakenOut DEF IsInjective
<1>4. CASE files' = files \/ files' = <<>> BY <1>1, <1>4 DEF IsInjective
<1>5. ASSUME NEW c \in Calls, CacheStep(c) PROVE IsInjective(files')
  <2>1. CASE Hit(c) \/ Store(c) \/ Evict(c) BY <1>2, <1>3, <2>1
  <2>2. CASE ~(Hit(c) \/ Store(c) \/ Evict(c))
    <3>1. files' = files
      BY <1>5, <2>2 DEF CacheStep, Miss, DownloadOwner, SecondMiss, Fetched, EnsureCache,
         Chmod, List, Stat, Downloaded, WriteFails
    <3> QED BY <1>4, <3>1
  <2> QED BY <2>1, <2>2
<1>6. ASSUME NEW c \in Calls, BookStep(c) \/ ClearStep(c) PROVE IsInjective(files')
  <2>1. files' = files \/ files' = <<>>
    BY <1>6 DEF BookStep, ClearStep, UpdateOwner, Queued, Load, EnsureBook, Rename,
       UpdateRefused, ClearCore, EmptyCache, RemoveCache, EmptyBook, RemoveBook, Cleared,
       NotEmpty
  <2> QED BY <1>4, <2>1
<1>7. ASSUME NEW c \in Calls,
             \/ \E i \in Images : Download(c, i) \/ Send(c, i)
             \/ \E m \in Mutations : Update(c, m)
             \/ Clear(c) \/ Fails(c) \/ IdentityAnswers(c) \/ NotRegistered(c)
      PROVE  IsInjective(files')
  <2>1. files' = files
    BY <1>7 DEF Download, Send, Update, Clear, Fails, IdentityAnswers, NotRegistered
  <2> QED BY <1>4, <2>1
<1>8. ASSUME (\E d \in Dids : Register(d)) \/ Reads \/ Crash \/ UNCHANGED localVars
      PROVE  IsInjective(files')
  <2>1. files' = files BY <1>8 DEF Register, Reads, Crash, localVars
  <2> QED BY <1>4, <2>1
<1> QED BY <1>5, <1>6, <1>7, <1>8 DEF LocalNext

-----------------------------------------------------------------------------
(* LocalData: the cache of images keeps its budget. *)

LEMMA UpToN == ASSUME NEW n \in Nat PROVE IsFiniteSet(1..n) /\ Cardinality(1..n) = n
<1>1. 1 \in Int /\ n \in Int OBVIOUS
<1>2. IsFiniteSet(1..n) /\ Cardinality(1..n) = IF 1 > n THEN 0 ELSE n - 1 + 1
  BY <1>1, FS_Interval
<1>3. (IF 1 > n THEN 0 ELSE n - 1 + 1) = n OBVIOUS
<1> QED BY <1>2, <1>3

\* The places of a sequence up to one are as many as its number.
LEMMA RankOfAll ==
  ASSUME NEW n \in Nat, NEW i \in 1..n
  PROVE  Cardinality({j \in 1..n : j <= i}) = i
<1>1. {j \in 1..n : j <= i} = 1..i OBVIOUS
<1>2. i \in Int /\ 1 <= i OBVIOUS
<1>3. Cardinality(1..i) = i BY <1>2, UpToN
<1> QED BY <1>1, <1>3

\* A sequence is made of all its elements.
LEMMA AmongAll ==
  ASSUME NEW X, NEW s \in Seq(X), NEW S, ToSet(s) \subseteq S
  PROVE  Among(s, S) = s
<1> DEFINE at == {i \in DOMAIN s : s[i] \in S}
           n == Len(s)
           Rank(i) == Cardinality({j \in at : j <= i})
           t == [k \in 1..Cardinality(at) |-> s[CHOOSE i \in at : Rank(i) = k]]
<1>0. n \in Nat /\ DOMAIN s = 1..n /\ s = [i \in 1..n |-> s[i]] OBVIOUS
<1>1. at = 1..n BY <1>0 DEF ToSet
<1>2. Cardinality(at) = n
  <2>1. Cardinality(1..n) = n BY <1>0, UpToN
  <2> QED BY <1>1, <2>1
<1>3. \A i \in 1..n : Rank(i) = i BY <1>0, <1>1, RankOfAll
<1>4. Among(s, S) = t BY DEF Among
<1> HIDE DEF at, Rank
<1>5. \A k \in 1..n : (CHOOSE i \in at : Rank(i) = k) = k BY <1>1, <1>3
<1> DEFINE place(k) == CHOOSE i \in at : Rank(i) = k
<1>6. t = [k \in 1..Cardinality(at) |-> s[place(k)]] OBVIOUS
<1>7. \A k \in 1..n : place(k) = k BY <1>5
<1> HIDE DEF place, t
<1>8. t = [k \in 1..n |-> s[k]] BY <1>2, <1>6, <1>7
<1> QED BY <1>0, <1>4, <1>8

\* The first of a sequence is taken out.
LEMMA FirstOut ==
  ASSUME NEW X, NEW s \in Seq(X), s # <<>>
  PROVE  RemoveFirst(s, Head(s)) = Tail(s)
<1> DEFINE e == Head(s)
           I == {i \in 1..Len(s) : s[i] = e}
           r == RemoveFirst(s, e)
<1>0. Len(s) \in Nat /\ 1 \in 1..Len(s) /\ e = s[1] OBVIOUS
<1>1. 1 \in I /\ \A i \in I : 1 <= i /\ i \in Nat BY <1>0
<1> HIDE DEF I, e
<1>2. Min(I) = 1
  <2>1. \A x \in I : (\A y \in I : x <= y) => x = 1 BY <1>1
  <2> QED BY <1>1, <2>1 DEF Min
<1>3. \E i \in 1..Len(s) : s[i] = e BY <1>0
<1>4. r = RemoveAt(s, 1) BY <1>1, <1>2, <1>3 DEF RemoveFirst, SelectInSeq, I
<1>5. r = SubSeq(s, 1, 0) \o SubSeq(s, 2, Len(s)) BY <1>4 DEF RemoveAt
<1>6. SubSeq(s, 1, 0) = <<>> OBVIOUS
<1>7. SubSeq(s, 2, Len(s)) = Tail(s) OBVIOUS
<1>8. Tail(s) \in Seq(X) BY <1>0
<1>9. r = Tail(s) BY <1>5, <1>6, <1>7, <1>8
<1> QED BY <1>9 DEF r, e

\* What is put last is last.
LEMMA LastPut ==
  ASSUME NEW X, NEW s \in Seq(X), NEW w \in X
  PROVE  LET t == Append(RemoveFirst(s, w), w) IN t # <<>> /\ Last(t) = w
<1> DEFINE r == RemoveFirst(s, w)
<1>1. r \in Seq(X) BY TakenOut
<1> HIDE DEF r
<1>2. /\ Append(r, w) \in Seq(X) /\ Len(r) \in Nat
      /\ Len(Append(r, w)) = Len(r) + 1 /\ Append(r, w)[Len(r) + 1] = w
  BY <1>1, AppendProperties
<1>3. Append(r, w) # <<>> /\ Last(Append(r, w)) = w BY <1>2 DEF Last
<1> QED BY <1>3 DEF r

\* The sizes of the files fs, added up from the first of some numbers to the last.
Adds(sum, fs, n) ==
  sum = [S \in SUBSET (1..n) |->
           IF S = {} THEN 0 ELSE sum[S \ {Max(S)}] + Size[fs[Max(S)].image]]

\* Some of the numbers up to n have a greatest one.
LEMMA Greatest ==
  ASSUME NEW n \in Nat, NEW S \in SUBSET (1..n), S # {}
  PROVE  Max(S) \in S /\ \A y \in S : Max(S) >= y
<1>1. IsFiniteSet(1..n) BY FS_Interval
<1>2. IsFiniteSet(S) BY <1>1, FS_Subset
<1>3. S \in SUBSET Nat OBVIOUS
<1>4. HasMax(S) BY <1>2, <1>3, GreatestNat
<1> QED BY <1>4 DEF Max, HasMax

\* There is such a sum, by induction on how many there are to add up.
LEMMA SumExists ==
  ASSUME NEW fs, NEW n \in Nat
  PROVE  \E sum : Adds(sum, fs, n)
<1> DEFINE Bad == {m \in Nat : ~(\E sum : Adds(sum, fs, m))}
<1>1. ASSUME Bad # {} PROVE FALSE
  <2>1. PICK m \in Bad : \A k \in Bad : m <= k
    <3>1. Bad \in SUBSET Nat OBVIOUS
    <3> HIDE DEF Bad
    <3> QED BY <3>1, <1>1, LeastNat
  <2>2. m \in Nat /\ ~(\E sum : Adds(sum, fs, m)) BY <2>1
  <2>3. m # 0
    <3> DEFINE s == [S \in SUBSET (1..0) |-> 0]
    <3>1. 1..0 = {} OBVIOUS
    <3>2. \A S \in SUBSET (1..0) : S = {} BY <3>1
    <3>3. Adds(s, fs, 0) BY <3>2 DEF Adds
    <3> HIDE DEF s
    <3> QED BY <3>3, <2>2
  <2>4. m - 1 \in Nat /\ ~(m <= m - 1) BY <2>2, <2>3
  <2>5. PICK s : Adds(s, fs, m - 1) BY <2>1, <2>4
  <2> DEFINE k == m - 1
             w == Size[fs[m].image]
             t == [S \in SUBSET (1..m) |-> IF m \in S THEN s[S \ {m}] + w ELSE s[S]]
  <2>6. k \in Nat /\ 1..m = (1..k) \cup {m} /\ m \notin 1..k BY <2>2, <2>3
  <2>7. ASSUME NEW S \in SUBSET (1..k), S # {}
        PROVE  /\ s[S] = s[S \ {Max(S)}] + Size[fs[Max(S)].image]
               /\ Max(S) \in S
    <3>1. s[S] = IF S = {} THEN 0 ELSE s[S \ {Max(S)}] + Size[fs[Max(S)].image]
      BY <2>5 DEF Adds
    <3> HIDE DEF k
    <3> QED BY <3>1, <2>6, <2>7, Greatest
  <2>8. {} \in SUBSET (1..k) /\ s[{}] = 0 BY <2>5 DEF Adds
  <2>9. ASSUME NEW S \in SUBSET (1..m)
        PROVE  t[S] = IF S = {} THEN 0 ELSE t[S \ {Max(S)}] + Size[fs[Max(S)].image]
    <3>1. t[S] = IF m \in S THEN s[S \ {m}] + w ELSE s[S] OBVIOUS
    <3>2. CASE S = {} BY <3>1, <3>2, <2>8
    <3>3. CASE m \in S
      <4>1. \A y \in S : m >= y BY <2>2
      <4>2. Max(S) = m
        <5>1. Max(S) \in S /\ \A y \in S : Max(S) >= y BY <3>3, <2>2, Greatest
        <5>2. Max(S) >= m /\ m >= Max(S) /\ Max(S) \in 1..m BY <5>1, <4>1, <3>3
        <5> QED BY <5>2, <2>2
      <4>3. S \ {m} \in SUBSET (1..m) /\ m \notin S \ {m} OBVIOUS
      <4>4. t[S \ {m}] = s[S \ {m}] BY <4>3
      <4> HIDE DEF t
      <4> QED BY <3>1, <3>3, <4>2, <4>4
    <3>4. CASE S # {} /\ m \notin S
      <4>1. S \in SUBSET (1..k) BY <3>4, <2>6
      <4> DEFINE x == Max(S)
                 R == S \ {x}
      <4>2. s[S] = s[R] + Size[fs[x].image] /\ x \in S BY <3>4, <4>1, <2>7
      <4> HIDE DEF x
      <4>3. R \in SUBSET (1..m) /\ m \notin R BY <3>4
      <4>4. t[R] = s[R] BY <4>3
      <4>5. t[S] = t[R] + Size[fs[x].image] BY <3>1, <3>4, <4>2, <4>4
      <4> QED BY <3>4, <4>5 DEF x
    <3> QED BY <3>2, <3>3, <3>4
  <2>10. Adds(t, fs, m)
    <3>1. t = [S \in SUBSET (1..m) |-> t[S]] OBVIOUS
    <3> HIDE DEF t
    <3> QED BY <3>1, <2>9 DEF Adds
  <2> QED BY <2>2, <2>10
<1> QED BY <1>1

\* The sizes of the first n files.
Upto(fs, n) == (CHOOSE sum : Adds(sum, fs, Len(fs)))[1..n]

LEMMA Sums ==
  ASSUME BudgetAssumption, NEW fs \in Seq(Key)
  PROVE  /\ Total(fs) = Upto(fs, Len(fs)) /\ Upto(fs, 0) = 0
         /\ \A n \in 1..Len(fs) : Upto(fs, n) = Upto(fs, n - 1) + Size[fs[n].image]
         /\ \A n \in 0..Len(fs) : Upto(fs, n) \in Nat
<1> DEFINE N == Len(fs)
           sum == CHOOSE sum : Adds(sum, fs, N)
<1>0. N \in Nat /\ DOMAIN fs = 1..N OBVIOUS
<1>1. Adds(sum, fs, N) BY <1>0, SumExists
<1>2. Total(fs) = Upto(fs, Len(fs))
  BY <1>0 DEF Total, FoldLeft, MapThenFoldSet, Upto, Adds
<1> HIDE DEF sum
<1>3. \A n : Upto(fs, n) = sum[1..n] BY DEF Upto, sum
<1>4. Upto(fs, 0) = 0
  <2>1. 1..0 = {} /\ {} \in SUBSET (1..N) OBVIOUS
  <2>2. sum[{}] = 0 BY <1>1, <2>1 DEF Adds
  <2> QED BY <2>1, <2>2, <1>3
<1>5. ASSUME NEW n \in 1..N PROVE Upto(fs, n) = Upto(fs, n - 1) + Size[fs[n].image]
  <2> DEFINE S == 1..n
  <2>0. n \in Nat /\ n - 1 \in Nat /\ 1 <= n BY <1>0
  <2>1. S \in SUBSET (1..N) /\ S # {} /\ n \in S
    <3>1. n \in S /\ n <= N BY <1>0, <2>0
    <3>2. \A i \in S : i \in 1..N BY <1>0, <2>0, <3>1
    <3> QED BY <3>1, <3>2
  <2>2. Max(S) = n
    <3>1. Max(S) \in S /\ \A y \in S : Max(S) >= y BY <2>0, <2>1, Greatest
    <3>2. Max(S) >= n /\ Max(S) \in 1..n BY <3>1, <2>1
    <3> QED BY <3>2, <2>0
  <2>3. S \ {n} = 1..(n - 1) BY <2>0
  <2> HIDE DEF S
  <2>4. sum[S] = sum[S \ {Max(S)}] + Size[fs[Max(S)].image] BY <1>1, <2>1 DEF Adds
  <2>5. sum[S] = sum[1..(n - 1)] + Size[fs[n].image] BY <2>2, <2>3, <2>4
  <2> QED BY <2>5, <1>3 DEF S
<1>6. ASSUME NEW n \in 1..N PROVE Size[fs[n].image] \in Nat
  <2>1. fs[n] \in Key BY <1>0
  <2>2. fs[n].image \in Images BY <2>1 DEF Key
  <2>3. Size[fs[n].image] \in 1..Budget BY <2>2 DEF BudgetAssumption
  <2> QED BY <2>3 DEF BudgetAssumption
<1>7. ASSUME NEW n \in 0..N PROVE Upto(fs, n) \in Nat
  <2> DEFINE Bad == {m \in 0..N : Upto(fs, m) \notin Nat}
  <2>1. ASSUME Bad # {} PROVE FALSE
    <3>1. PICK m \in Bad : \A k \in Bad : m <= k
      <4>1. Bad \in SUBSET Nat BY <1>0
      <4> HIDE DEF Bad
      <4> QED BY <4>1, <2>1, LeastNat
    <3>2. m \in 0..N /\ Upto(fs, m) \notin Nat BY <3>1
    <3>3. m # 0 BY <3>2, <1>4
    <3>4. m \in 1..N /\ m - 1 \in 0..N /\ ~(m <= m - 1) BY <3>2, <3>3, <1>0
    <3>5. Upto(fs, m - 1) \in Nat BY <3>1, <3>4
    <3> QED BY <3>2, <3>4, <3>5, <1>5, <1>6
  <2> QED BY <2>1
<1> QED BY <1>2, <1>4, <1>5, <1>7

LEMMA TotalEmpty == ASSUME BudgetAssumption PROVE Total(<<>>) = 0
<1>1. <<>> \in Seq(Key) /\ Len(<<>>) = 0 OBVIOUS
<1> QED BY <1>1, Sums

LEMMA TotalOne ==
  ASSUME BudgetAssumption, NEW fs \in Seq(Key), Len(fs) = 1
  PROVE  Total(fs) <= Budget
<1>1. Total(fs) = Upto(fs, 1) /\ Upto(fs, 0) = 0 /\ Upto(fs, 1) = Upto(fs, 0) + Size[fs[1].image]
  <2>1. 1 \in 1..Len(fs) /\ 1 - 1 = 0 OBVIOUS
  <2> QED BY <2>1, Sums
<1>2. fs[1] \in Key
  <2>1. 1 \in 1..Len(fs) OBVIOUS
  <2> QED BY <2>1, ElementOfSeq
<1>3. fs[1].image \in Images BY <1>2 DEF Key
<1>4. Size[fs[1].image] \in 1..Budget BY <1>3 DEF BudgetAssumption
<1> QED BY <1>1, <1>4 DEF BudgetAssumption

\* Files that are the same up to a place add up to the same there.
LEMMA SameSum ==
  ASSUME BudgetAssumption, NEW fs \in Seq(Key), NEW gs \in Seq(Key), NEW n \in Nat,
         n <= Len(fs), n <= Len(gs), \A i \in 1..n : fs[i] = gs[i]
  PROVE  Upto(fs, n) = Upto(gs, n)
<1> DEFINE Bad == {m \in 0..n : Upto(fs, m) # Upto(gs, m)}
<1>0. Len(fs) \in Nat /\ Len(gs) \in Nat OBVIOUS
<1>1. ASSUME Bad # {} PROVE FALSE
  <2>1. PICK m \in Bad : \A k \in Bad : m <= k
    <3>1. Bad \in SUBSET Nat OBVIOUS
    <3> HIDE DEF Bad
    <3> QED BY <3>1, <1>1, LeastNat
  <2>2. m \in 0..n /\ Upto(fs, m) # Upto(gs, m) BY <2>1
  <2>3. m # 0 BY <2>2, Sums
  <2>4. /\ m \in 1..n /\ m \in 1..Len(fs) /\ m \in 1..Len(gs) /\ m - 1 \in 0..n
        /\ ~(m <= m - 1)
    BY <2>2, <2>3, <1>0
  <2>5. Upto(fs, m - 1) = Upto(gs, m - 1) BY <2>1, <2>4
  <2>6. /\ Upto(fs, m) = Upto(fs, m - 1) + Size[fs[m].image]
        /\ Upto(gs, m) = Upto(gs, m - 1) + Size[gs[m].image]
    BY <2>4, Sums
  <2> QED BY <2>2, <2>4, <2>5, <2>6
<1> QED BY <1>1

\* A file that is put last changes nothing of the sum if it was there.
LEMMA UsedAgain ==
  ASSUME BudgetAssumption, NEW fs \in Seq(Key), NEW w \in ToSet(fs),
         NEW n \in 1..Len(fs), fs[n] = w,
         NEW gs \in Seq(Key), Len(gs) = Len(fs),
         \A i \in 1..(Len(fs) - 1) : gs[i] = IF i < n THEN fs[i] ELSE fs[i + 1],
         gs[Len(fs)] = w
  PROVE  Total(gs) = Total(fs)
<1> DEFINE N == Len(fs)
           size == Size[w.image]
           Bad == {m \in n..N : Upto(gs, m - 1) + size # Upto(fs, m)}
<1>0. N \in Nat /\ n \in Nat /\ 1 <= n /\ n <= N OBVIOUS
<1>n. /\ \A m \in 0..N : Upto(fs, m) \in Nat /\ Upto(gs, m) \in Nat
      /\ \A m \in 1..N : /\ Upto(fs, m) = Upto(fs, m - 1) + Size[fs[m].image]
                         /\ Upto(gs, m) = Upto(gs, m - 1) + Size[gs[m].image]
  BY Sums
<1>1. ASSUME Bad # {} PROVE FALSE
  <2>1. PICK m \in Bad : \A k \in Bad : m <= k
    <3>1. Bad \in SUBSET Nat BY <1>0
    <3> HIDE DEF Bad
    <3> QED BY <3>1, <1>1, LeastNat
  <2>2. m \in n..N /\ Upto(gs, m - 1) + size # Upto(fs, m) BY <2>1
  <2>3. m \in 1..N /\ m - 1 \in 0..N /\ ~(m <= m - 1) BY <2>2, <1>0
  <2>4. CASE m = n
    <3>1. n - 1 \in Nat /\ n - 1 <= Len(fs) /\ n - 1 <= Len(gs) BY <1>0
    <3>2. \A i \in 1..(n - 1) : gs[i] = fs[i] BY <1>0
    <3>3. Upto(gs, n - 1) = Upto(fs, n - 1) BY <3>1, <3>2, SameSum
    <3>4. Upto(fs, n) = Upto(fs, n - 1) + size BY <1>n, <2>3, <2>4
    <3> QED BY <2>2, <2>4, <3>3, <3>4
  <2>5. CASE m # n
    <3>1. m - 1 \in n..N /\ m - 1 \in 1..N BY <2>2, <2>5, <1>0
    <3>2. Upto(gs, (m - 1) - 1) + size = Upto(fs, m - 1) BY <2>1, <2>3, <3>1
    <3>3. gs[m - 1] = fs[m]
      <4>1. m - 1 \in 1..(N - 1) /\ ~(m - 1 < n) /\ m - 1 + 1 = m BY <2>2, <2>5, <1>0
      <4> QED BY <4>1
    <3>4. Upto(gs, m - 1) = Upto(gs, (m - 1) - 1) + Size[fs[m].image] BY <1>n, <3>1, <3>3
    <3>5. Upto(fs, m) = Upto(fs, m - 1) + Size[fs[m].image] BY <1>n, <2>3
    <3>6. (m - 1) - 1 \in 0..N BY <3>1, <1>0
    <3>7. Upto(gs, (m - 1) - 1) \in Nat /\ Size[fs[m].image] \in Nat /\ size \in Nat
      <4>1. fs[m] \in Key /\ w \in Key BY <2>3
      <4>2. fs[m].image \in Images /\ w.image \in Images BY <4>1 DEF Key
      <4>3. Size[fs[m].image] \in 1..Budget /\ size \in 1..Budget BY <4>2 DEF BudgetAssumption
      <4>4. Upto(gs, (m - 1) - 1) \in Nat BY <3>6, <1>n
      <4>5. 1..Budget \subseteq Nat BY DEF BudgetAssumption
      <4> HIDE DEF size
      <4> QED BY <4>3, <4>4, <4>5
    <3> HIDE DEF size
    <3> QED BY <2>2, <3>2, <3>4, <3>5, <3>7
  <2> QED BY <2>4, <2>5
<1>2. Upto(gs, N - 1) + size = Upto(fs, N)
  <2>1. N \in n..N BY <1>0
  <2> QED BY <2>1, <1>1
<1>3. Upto(gs, N) = Upto(gs, N - 1) + size
  <2>1. N \in 1..N BY <1>0
  <2> QED BY <2>1, <1>n
<1> QED BY <1>2, <1>3, Sums

\* A file that is used again is put last, and counts as before.
LEMMA Touched ==
  ASSUME BudgetAssumption, NEW fs \in Seq(Key), NEW w \in ToSet(fs)
  PROVE  Total(Append(RemoveFirst(fs, w), w)) = Total(fs)
<1> DEFINE r == RemoveFirst(fs, w)
           N == Len(fs)
<1>0. N \in Nat /\ DOMAIN fs = 1..N OBVIOUS
<1>1. PICK n \in 1..N :
        /\ fs[n] = w /\ r \in Seq(Key) /\ Len(r) = N - 1
        /\ \A i \in 1..(N - 1) : r[i] = IF i < n THEN fs[i] ELSE fs[i + 1]
  BY OneOut
<1>2. w \in Key BY <1>0 DEF ToSet
<1> DEFINE gs == Append(r, w)
<1> HIDE DEF r
<1>3. /\ gs \in Seq(Key) /\ Len(gs) = Len(r) + 1
      /\ \A i \in 1..Len(r) : gs[i] = r[i]
      /\ gs[Len(r) + 1] = w
  BY <1>1, <1>2, AppendProperties
<1> HIDE DEF gs
<1>4. Len(gs) = N /\ gs[N] = w /\ \A i \in 1..(N - 1) : gs[i] = r[i]
  <2>1. Len(r) = N - 1 /\ Len(r) + 1 = N BY <1>0, <1>1
  <2> HIDE DEF N
  <2> QED BY <2>1, <1>3
<1>5. \A i \in 1..(N - 1) : gs[i] = IF i < n THEN fs[i] ELSE fs[i + 1] BY <1>1, <1>4
<1>6. Total(gs) = Total(fs) BY <1>1, <1>3, <1>4, <1>5, UsedAgain
<1> QED BY <1>6 DEF gs, r

-----------------------------------------------------------------------------
(* The invariant of the cache, and its steps. *)

Fetches(c) == calls[c].kind = "download"

\* A download that has stored its file, and looks for others to evict.
InHand(c) == Fetches(c) /\ calls[c].at \in {"chmod", "list", "stat", "evict"}

\* What a download that has met no other has stored is the last file, and what it has listed all
\* of them but the first ones, which it has failed to unlink, unless a clear has emptied the
\* cache meanwhile.
Alone(c) == Fetches(c) /\ c \notin crowded

CacheInv ==
  /\ \A c, k \in Calls : Alone(c) /\ Fetches(k) => c = k
  /\ \A c \in Calls : Alone(c) /\ calls[c].at # "evict" => left = <<>>
  /\ files # <<>> => \A c \in Calls : InHand(c) /\ Alone(c) =>
       /\ Last(files) = Wanted(c)
       /\ calls[c].at = "stat" => calls[c].listed = files
       /\ calls[c].at = "evict" => /\ left \in Seq(Key) /\ calls[c].listed \in Seq(Key)
                                  /\ calls[c].listed # <<>> /\ files = left \o calls[c].listed

\* A step of other calls, or that ends one.
LEMMA NotInHand ==
  ASSUME CacheInv, files' = files \/ files' = <<>>, UNCHANGED <<crowded, left>>,
         \A k \in Calls : Fetches(k)' =>
           Fetches(k) /\ (calls[k].at = "evict" => calls'[k].at = "evict"),
         \A k \in Calls : InHand(k)' => InHand(k) /\ calls'[k] = calls[k]
  PROVE  CacheInv'
BY DEF CacheInv, Wanted, Alone

\* Nobody is alone beside a download that has met another.
LEMMA Crowd ==
  ASSUME CacheInv, NEW c \in Calls, Fetches(c), c \in crowded, crowded' = crowded,
         \A k \in Calls : Fetches(k)' => Fetches(k)
  PROVE  CacheInv'
<1>1. \A k \in Calls : ~Alone(k)
  <2>1. ASSUME NEW k \in Calls, Alone(k) PROVE FALSE
    <3>1. k = c BY <2>1 DEF CacheInv
    <3> QED BY <2>1, <3>1 DEF Alone
  <2> QED BY <2>1
<1>2. \A k \in Calls : ~Alone(k)' BY <1>1 DEF Alone
<1> QED BY <1>2 DEF CacheInv

LEMMA EndsCache ==
  ASSUME CacheInv, NEW c \in Calls, Ends(c), files' = files, UNCHANGED <<crowded, left>>
  PROVE  CacheInv' /\ \A k \in Calls \ {c} : InHand(k) => InHand(k)'
<1>1. \A k \in Calls : \/ calls'[k] = Idle
                       \/ calls'[k] = calls[k]
                       \/ /\ calls[k].kind = "clear"
                          /\ calls'[k] = [calls[k] EXCEPT !.after = @ \ {c}]
  BY DEF Ends
<1>2. \A k \in Calls : calls[k].kind = "clear" =>
        [calls[k] EXCEPT !.after = @ \ {c}].kind # "download"
  OBVIOUS
<1>3. Idle.kind # "download" BY DEF Idle
<1>4. CacheInv' BY <1>1, <1>2, <1>3, NotInHand DEF Fetches, InHand
<1>5. \A k \in Calls \ {c} : InHand(k) => InHand(k)'
  BY DEF Ends, Fetches, InHand
<1> QED BY <1>4, <1>5

\* What a step of a download changes of it, and what it leaves of it.
Moves(c, owner, listed, at) ==
  \/ calls' = [calls EXCEPT ![c].at = at] /\ owner = calls[c].owner /\ listed = calls[c].listed
  \/ calls' = [calls EXCEPT ![c].listed = listed] /\ owner = calls[c].owner /\ at = calls[c].at
  \/ calls' = [calls EXCEPT ![c].listed = listed, ![c].at = at] /\ owner = calls[c].owner
  \/ calls' = [calls EXCEPT ![c].owner = owner, ![c].at = at] /\ listed = calls[c].listed

LEMMA FetchShape ==
  ASSUME DataInv, NEW c \in Calls, Fetches(c), NEW o, NEW l, NEW z, Moves(c, o, l, z)
  PROVE  /\ \A k \in Calls \ {c} : calls'[k] = calls[k]
         /\ calls'[c] = [kind |-> "download", image |-> calls[c].image, owner |-> o,
                         listed |-> l, sent |-> calls[c].sent, at |-> z]
<1> DEFINE Down(owner, listed, at) ==
             [kind |-> "download", image |-> calls[c].image, owner |-> owner,
              listed |-> listed, sent |-> calls[c].sent, at |-> at]
           own == calls[c].owner
           ls == calls[c].listed
           a == calls[c].at
<1>1. calls = [k \in Calls |-> calls[k]] /\ Formed(calls[c]) BY DEF DataInv, DataType
<1>2. calls[c] = Down(own, ls, a) BY <1>1 DEF Formed, Idle, Fetches
<1>3. /\ \A x : [calls[c] EXCEPT !.owner = x] = Down(x, ls, a)
      /\ \A x : [calls[c] EXCEPT !.listed = x] = Down(own, x, a)
      /\ \A x : [calls[c] EXCEPT !.at = x] = Down(own, ls, x)
      /\ \A x, y, b : [Down(x, y, a) EXCEPT !.at = b] = Down(x, y, b)
  BY <1>2
<1>4. \A x, y, b : /\ Down(x, y, b).kind = "download" /\ Down(x, y, b).image = calls[c].image
                   /\ Down(x, y, b).owner = x /\ Down(x, y, b).listed = y
                   /\ Down(x, y, b).at = b
  OBVIOUS
<1> HIDE DEF Down
<1>5. /\ \A k \in Calls \ {c} : calls'[k] = calls[k]
      /\ \/ calls'[c] = [calls[c] EXCEPT !.at = z] /\ o = own /\ l = ls
         \/ calls'[c] = [calls[c] EXCEPT !.listed = l] /\ o = own /\ z = a
         \/ calls'[c] = [[calls[c] EXCEPT !.listed = l] EXCEPT !.at = z] /\ o = own
         \/ calls'[c] = [[calls[c] EXCEPT !.owner = o] EXCEPT !.at = z] /\ l = ls
  BY <1>1 DEF Moves
<1>6. calls'[c] = Down(o, l, z)
  <2>1. CASE calls'[c] = [calls[c] EXCEPT !.at = z] /\ o = own /\ l = ls BY <1>3, <2>1
  <2>2. CASE calls'[c] = [calls[c] EXCEPT !.listed = l] /\ o = own /\ z = a BY <1>3, <2>2
  <2>3. CASE calls'[c] = [[calls[c] EXCEPT !.listed = l] EXCEPT !.at = z] /\ o = own
    BY <1>3, <2>3 DEF Down
  <2>4. CASE calls'[c] = [[calls[c] EXCEPT !.owner = o] EXCEPT !.at = z] /\ l = ls
    BY <1>3, <2>4 DEF Down
  <2> QED BY <1>5, <2>1, <2>2, <2>3, <2>4
<1> QED BY <1>5, <1>6 DEF Down

LEMMA FetchStep ==
  ASSUME DataInv, NEW c \in Calls, Fetches(c), NEW o, NEW l, NEW z, Moves(c, o, l, z)
  PROVE  /\ Fetches(c)' /\ \A k \in Calls \ {c} : calls'[k] = calls[k]
         /\ calls'[c].image = calls[c].image /\ calls'[c].owner = o
         /\ calls'[c].listed = l /\ calls'[c].at = z
<1>1. /\ \A k \in Calls \ {c} : calls'[k] = calls[k]
      /\ calls'[c] = [kind |-> "download", image |-> calls[c].image, owner |-> o,
                      listed |-> l, sent |-> calls[c].sent, at |-> z]
  BY FetchShape
<1> QED BY <1>1 DEF Fetches

\* A download that has not stored its file yet looks for it, or for the owner.
LEMMA BeforeStore ==
  ASSUME DataInv, CacheInv, NEW c \in Calls,
         \/ Miss(c) \/ DownloadOwner(c) \/ SecondMiss(c) \/ Fetched(c) \/ EnsureCache(c)
         \/ IdentityAnswers(c) /\ Fetches(c)
  PROVE  CacheInv' /\ \A k \in Calls : InHand(k) => InHand(k)'
<1> USE DEF Host, Cache, Book, At, Goes
<1>1. Fetches(c) /\ files' = files /\ UNCHANGED <<crowded, left>> /\ calls[c].at # "evict"
  BY DEF Miss, DownloadOwner, SecondMiss, Fetched, EnsureCache, IdentityAnswers, Fetches
<1>2. \E o, z : /\ z \in {"identity", "told", "lookup", "fetch", "ensure", "store"}
                /\ \/ calls' = [calls EXCEPT ![c].at = z] /\ o = calls[c].owner
                   \/ calls' = [calls EXCEPT ![c].owner = o, ![c].at = z]
  <2>1. CASE Miss(c)
    <3> DEFINE z == IF active = None THEN "identity" ELSE "lookup"
    <3>1. calls' = [calls EXCEPT ![c].owner = active, ![c].at = z] BY <2>1 DEF Miss
    <3>2. z \in {"identity", "lookup"} OBVIOUS
    <3> HIDE DEF z
    <3> QED BY <3>1, <3>2
  <2>2. CASE DownloadOwner(c)
    <3> DEFINE z == IF calls[c].sent THEN "ensure" ELSE "lookup"
               w == Owner(c)
    <3>1. calls' = [calls EXCEPT ![c].owner = w, ![c].at = z] BY <2>2 DEF DownloadOwner
    <3>2. z \in {"ensure", "lookup"} OBVIOUS
    <3> HIDE DEF z, w
    <3> QED BY <3>1, <3>2
  <2>3. CASE IdentityAnswers(c)
    <3> DEFINE w == Core
    <3>1. calls' = [calls EXCEPT ![c].owner = w, ![c].at = "told"] BY <2>3 DEF IdentityAnswers
    <3> HIDE DEF w
    <3> QED BY <3>1
  <2>4. CASE SecondMiss(c) \/ Fetched(c) \/ EnsureCache(c)
    BY <2>4 DEF SecondMiss, Fetched, EnsureCache
  <2> QED BY <2>1, <2>2, <2>3, <2>4
<1>3. PICK z : /\ z \in {"identity", "told", "lookup", "fetch", "ensure", "store"}
               /\ Fetches(c)' /\ calls'[c].at = z /\ \A k \in Calls \ {c} : calls'[k] = calls[k]
  <2>1. PICK o, z : /\ z \in {"identity", "told", "lookup", "fetch", "ensure", "store"}
                    /\ \/ calls' = [calls EXCEPT ![c].at = z] /\ o = calls[c].owner
                       \/ calls' = [calls EXCEPT ![c].owner = o, ![c].at = z]
    BY <1>2
  <2> DEFINE l == calls[c].listed
  <2>3. Moves(c, o, l, z) BY <2>1 DEF Moves
  <2> HIDE DEF l
  <2>2. Fetches(c)' /\ calls'[c].at = z /\ \A k \in Calls \ {c} : calls'[k] = calls[k]
    BY <2>3, <1>1, FetchStep
  <2> QED BY <2>1, <2>2
<1>4. ~InHand(c)' BY <1>3 DEF InHand
<1>5. \A k \in Calls : InHand(k)' => InHand(k) /\ calls'[k] = calls[k]
  BY <1>3, <1>4 DEF InHand, Fetches
<1>6. \A k \in Calls : Fetches(k)' =>
        Fetches(k) /\ (calls[k].at = "evict" => calls'[k].at = "evict")
  BY <1>1, <1>3 DEF Fetches
<1>7. CacheInv' BY <1>1, <1>5, <1>6, NotInHand
<1>8. ~InHand(c)
  BY DEF InHand, Miss, DownloadOwner, SecondMiss, Fetched, EnsureCache, IdentityAnswers
<1>9. \A k \in Calls : InHand(k) => InHand(k)' BY <1>3, <1>8 DEF InHand, Fetches
<1> QED BY <1>7, <1>9

\* The first file that could be unlinked is taken out from behind those that could not.
LEMMA FirstOfRest ==
  ASSUME NEW S, NEW l \in Seq(S), NEW t \in Seq(S), t # <<>>, IsInjective(l \o t)
  PROVE  RemoveFirst(l \o t, Head(t)) = l \o Tail(t)
<1> DEFINE s == l \o t
           e == Head(t)
           r == RemoveFirst(s, e)
           q == l \o Tail(t)
           m == Len(l)
           k == Len(t)
<1>0. m \in Nat /\ k \in Nat /\ k # 0 /\ k >= 1 OBVIOUS
<1>1. /\ s \in Seq(S) /\ Len(s) = m + k
      /\ \A i \in 1..(m + k) : s[i] = IF i <= m THEN l[i] ELSE t[i - m]
  BY ConcatProperties
<1>2. e = t[1] /\ s[m + 1] = e /\ m + 1 \in 1..(m + k)
  <2>1. e = t[1] OBVIOUS
  <2>2. m + 1 \in 1..(m + k) /\ ~(m + 1 <= m) /\ m + 1 - m = 1 BY <1>0
  <2>3. s[m + 1] = IF m + 1 <= m THEN l[m + 1] ELSE t[(m + 1) - m] BY <1>1, <2>2
  <2>4. t[(m + 1) - m] = t[1] BY <2>2
  <2> HIDE DEF e, s, m, k
  <2> QED BY <2>1, <2>2, <2>3, <2>4
<1>3. /\ Tail(t) \in Seq(S) /\ Len(Tail(t)) = k - 1
      /\ \A i \in 1..(k - 1) : Tail(t)[i] = t[i + 1]
  OBVIOUS
<1>4. /\ q \in Seq(S) /\ Len(q) = m + (k - 1)
      /\ \A i \in 1..(m + (k - 1)) : q[i] = IF i <= m THEN l[i] ELSE Tail(t)[i - m]
  BY <1>3, ConcatProperties
<1> HIDE DEF e, s, r, q, m, k
<1>5. e \in ToSet(s)
  <2>1. DOMAIN s = 1..(m + k) BY <1>1
  <2> QED BY <1>2, <2>1 DEF ToSet
<1>6. PICK n \in 1..Len(s) :
        /\ s[n] = e /\ r \in Seq(S) /\ Len(r) = Len(s) - 1
        /\ \A i \in 1..(Len(s) - 1) : r[i] = IF i < n THEN s[i] ELSE s[i + 1]
  BY <1>1, <1>5, OneOut DEF r
<1>7. n = m + 1
  <2>1. IsInjective(s) BY DEF s
  <2>2. \A i, j \in DOMAIN s : s[i] = s[j] => i = j BY <2>1 DEF IsInjective
  <2> QED BY <1>1, <1>2, <1>6, <2>2
<1>8. Len(r) = m + (k - 1) BY <1>0, <1>1, <1>6
<1>9. ASSUME NEW i \in 1..(m + (k - 1)) PROVE r[i] = q[i]
  <2>1. i \in 1..(Len(s) - 1) /\ i \in 1..(m + k) /\ i + 1 \in 1..(m + k) BY <1>0, <1>1
  <2>2. CASE i <= m
    <3>1. i < n BY <1>0, <1>7, <2>2
    <3> QED BY <1>1, <1>4, <1>6, <2>1, <2>2, <3>1
  <2>3. CASE ~(i <= m)
    <3>1. /\ ~(i < n) /\ ~(i + 1 <= m) /\ i - m \in 1..(k - 1) /\ (i + 1) - m = (i - m) + 1
      BY <1>0, <1>7, <2>3
    <3>2. r[i] = s[i + 1] BY <1>6, <2>1, <3>1
    <3>3. s[i + 1] = t[(i + 1) - m] BY <1>1, <2>1, <3>1
    <3>4. q[i] = Tail(t)[i - m] BY <1>4, <2>3
    <3>5. Tail(t)[i - m] = t[(i - m) + 1] BY <1>3, <3>1
    <3> QED BY <3>1, <3>2, <3>3, <3>4, <3>5
  <2> QED BY <2>2, <2>3
<1>10. r = q BY <1>4, <1>6, <1>8, <1>9
<1> QED BY <1>10 DEF r, q, s, e

\* What could not be unlinked is put behind the others of its kind.
LEMMA FirstLeft ==
  ASSUME NEW S, NEW l \in Seq(S), NEW t \in Seq(S), t # <<>>
  PROVE  /\ Append(l, Head(t)) \in Seq(S) /\ Append(l, Head(t)) \o Tail(t) = l \o t
         /\ Tail(t) \in Seq(S)
OBVIOUS

\* The last of two sequences is the last of the second.
LEMMA LastOfRest ==
  ASSUME NEW S, NEW l \in Seq(S), NEW t \in Seq(S), t # <<>>
  PROVE  Last(l \o t) = Last(t) /\ l \o t # <<>>
<1> DEFINE s == l \o t
           m == Len(l)
           k == Len(t)
<1>0. m \in Nat /\ k \in Nat /\ k # 0 /\ k >= 1 OBVIOUS
<1>1. /\ s \in Seq(S) /\ Len(s) = m + k
      /\ \A i \in 1..(m + k) : s[i] = IF i <= m THEN l[i] ELSE t[i - m]
  BY ConcatProperties
<1> HIDE DEF s, m, k
<1>2. m + k \in 1..(m + k) /\ ~(m + k <= m) /\ (m + k) - m = k /\ m + k # 0 BY <1>0
<1>3. s[Len(s)] = t[k] /\ s # <<>> BY <1>1, <1>2
<1> QED BY <1>3 DEF Last, s, k

\* The two parts of a sequence, as its stretches.
LEMMA TwoParts ==
  ASSUME NEW S, NEW l \in Seq(S), NEW t \in Seq(S)
  PROVE  IsPrefix(l, l \o t) /\ SubSeq(l \o t, Len(l) + 1, Len(l \o t)) = t
<1> DEFINE s == l \o t
           m == Len(l)
           k == Len(t)
<1>0. m \in Nat /\ k \in Nat OBVIOUS
<1>1. /\ s \in Seq(S) /\ Len(s) = m + k
      /\ \A i \in 1..(m + k) : s[i] = IF i <= m THEN l[i] ELSE t[i - m]
  BY ConcatProperties
<1>2. SubSeq(l, 1, m) = l OBVIOUS
<1> DEFINE n == m + 1
           e == m + k
<1>t. t \in Seq(S) /\ Len(t) = k OBVIOUS
<1> HIDE DEF s, m, k, n, e
<1>3. /\ 1 \in Nat /\ m \in Nat /\ 1 <= 1 /\ m <= Len(s) /\ 1 <= m + 1 /\ m - 1 + 1 = m
      /\ \A i \in 1..m : 1 + i - 1 = i
  BY <1>0, <1>1
<1>4. SubSeq(s, 1, m) \in Seq(S) /\ Len(SubSeq(s, 1, m)) = m
      /\ \A i \in 1..m : SubSeq(s, 1, m)[i] = s[i]
  BY <1>1, <1>3, Part
<1>5. SubSeq(s, 1, m) = l
  <2>1. \A i \in 1..m : SubSeq(s, 1, m)[i] = l[i] BY <1>0, <1>1, <1>4
  <2> QED BY <1>4, <2>1 DEF m
<1>6. /\ n \in Nat /\ e \in Nat /\ 1 <= n /\ e <= Len(s) /\ n <= e + 1 /\ e - n + 1 = k
      /\ \A i \in 1..k : n + i - 1 = m + i /\ ~(m + i <= m) /\ (m + i) - m = i
                        /\ m + i \in 1..(m + k)
  BY <1>0, <1>1 DEF n, e
<1>7. SubSeq(s, n, e) \in Seq(S) /\ Len(SubSeq(s, n, e)) = k
      /\ \A i \in 1..k : SubSeq(s, n, e)[i] = s[m + i]
  BY <1>1, <1>6, Part
<1>8. SubSeq(s, n, e) = t
  <2> DEFINE u == SubSeq(s, n, e)
  <2>1. \A i \in 1..k : u[i] = t[i]
    <3>1. ASSUME NEW i \in 1..k PROVE u[i] = t[i]
      <4>1. m + i \in 1..(m + k) /\ ~(m + i <= m) /\ (m + i) - m = i BY <1>6
      <4>2. s[m + i] = t[(m + i) - m] BY <1>1, <4>1
      <4>3. u[i] = s[m + i] BY <1>7
      <4> QED BY <4>1, <4>2, <4>3
    <3> QED BY <3>1
  <2>2. u \in Seq(S) /\ Len(u) = k BY <1>7
  <2> HIDE DEF u
  <2>3. u = t BY <1>t, <2>1, <2>2
  <2> QED BY <2>3 DEF u
<1>9. SubSeq(s, m + 1, Len(s)) = t BY <1>1, <1>8 DEF n, e
<1>10. m <= Len(s) BY <1>3
<1> QED BY <1>2, <1>5, <1>9, <1>10 DEF s, m, IsPrefix

\* It stores its file, lists all that are there, and evicts the first of the list: if it is
\* alone, the first of all those that could be unlinked.
LEMMA AfterStore ==
  ASSUME BudgetAssumption, DataInv, IsInjective(files), CacheInv, NEW c \in Calls,
         Store(c) \/ Chmod(c) \/ List(c) \/ Stat(c) \/ Evict(c)
  PROVE  CacheInv' /\ InHand(c)'
<1> USE DEF Host, Cache, Book, At, Goes
<1> DEFINE own == calls[c].owner
           ls == calls[c].listed
           a == calls[c].at
<1>0. calls[c].kind = "download" /\ crowded' = crowded BY DEF Store, Chmod, List, Stat, Evict
<1>1. Fetches(c) /\ files \in Seq(Key) /\ a = calls[c].at
  BY <1>0 DEF Fetches, CacheInv, DataInv, DataType
<1>2. ASSUME NEW l, NEW z \in {"chmod", "list", "stat", "evict"}, Moves(c, own, l, z),
             Alone(c) => /\ z # "evict" => left' = <<>>
                         /\ files' # <<>> => Last(files') = Wanted(c)
                         /\ files' # <<>> /\ z = "stat" => l = files'
                         /\ files' # <<>> /\ z = "evict" =>
                              left' \in Seq(Key) /\ l \in Seq(Key) /\ l # <<>> /\ files' = left' \o l
      PROVE  CacheInv' /\ InHand(c)'
  <2> HIDE DEF own, ls, a
  <2>1. /\ Fetches(c)' /\ \A k \in Calls \ {c} : calls'[k] = calls[k]
        /\ calls'[c].image = calls[c].image /\ calls'[c].owner = own
        /\ calls'[c].listed = l /\ calls'[c].at = z
    BY <1>1, <1>2, FetchStep
  <2>2. \A k \in Calls : Fetches(k)' => Fetches(k) BY <1>1, <2>1 DEF Fetches
  <2>3. InHand(c)' BY <1>2, <2>1 DEF InHand
  <2>4. CASE c \in crowded BY <1>0, <1>1, <2>2, <2>3, <2>4, Crowd
  <2>5. CASE c \notin crowded
    <3>1. Alone(c) BY <1>1, <2>5 DEF Alone
    <3>2. \A k \in Calls \ {c} : ~Fetches(k) BY <3>1 DEF CacheInv
    <3>3. \A k \in Calls \ {c} : ~Fetches(k)' BY <3>2, <2>1 DEF Fetches
    <3>4. Wanted(c)' = Wanted(c) BY <2>1 DEF Wanted, own
    <3> QED BY <1>2, <2>1, <2>3, <3>1, <3>3, <3>4 DEF CacheInv, InHand, Alone
  <2> QED BY <2>4, <2>5
<1>3. CASE Store(c)
  <2> DEFINE w == Wanted(c)
  <2>1. calls[c].image \in Images /\ own \in Dids
    BY <1>0, <1>3 DEF Store, DataInv, DataType, Formed, Idle
  <2>2. w \in Key BY <2>1 DEF Wanted, Key
  <2>3. /\ files' = Append(RemoveFirst(files, w), w) /\ left' = left /\ a = "store"
        /\ calls' = [calls EXCEPT ![c].at = "chmod"]
    BY <1>3 DEF Store
  <2> HIDE DEF w
  <2>4. Last(files') = w BY <1>1, <2>2, <2>3, LastPut
  <2>5. Last(files') = Wanted(c) BY <2>4 DEF w
  <2>6. Moves(c, own, ls, "chmod") BY <2>3 DEF Moves
  <2>7. Alone(c) => left' = <<>> BY <2>3 DEF CacheInv
  <2> QED BY <1>2, <2>5, <2>6, <2>7
<1>4. CASE Chmod(c) \/ List(c) \/ Stat(c) \/ Evict(c)
  <2>1. InHand(c) BY <1>0, <1>4 DEF Chmod, List, Stat, Evict, InHand, Fetches
  <2>2. Alone(c) =>
          /\ a # "evict" => left = <<>>
          /\ files # <<>> => /\ Last(files) = Wanted(c)
                             /\ a = "stat" => ls = files
                             /\ a = "evict" => /\ left \in Seq(Key) /\ ls \in Seq(Key)
                                               /\ ls # <<>> /\ files = left \o ls
    BY <2>1 DEF CacheInv
  <2>3. CASE Chmod(c)
    <3>1. /\ calls' = [calls EXCEPT ![c].at = "list"] /\ files' = files /\ left' = left
          /\ a = "chmod"
      BY <2>3 DEF Chmod
    <3>2. Moves(c, own, ls, "list") BY <3>1 DEF Moves
    <3> QED BY <1>2, <2>2, <3>1, <3>2
  <2>4. CASE List(c)
    <3>1. /\ calls' = [calls EXCEPT ![c].listed = files, ![c].at = "stat"] /\ files' = files
          /\ left' = left /\ a = "list"
      BY <2>4 DEF List
    <3>2. Moves(c, own, files, "stat") BY <3>1 DEF Moves
    <3> QED BY <1>2, <2>2, <3>1, <3>2
  <2>5. CASE Stat(c)
    <3> DEFINE l == Among(files, Listed(c))
    <3>1. /\ calls' = [calls EXCEPT ![c].listed = l, ![c].at = "evict"] /\ files' = files
          /\ a = "stat" /\ left' = left
      BY <2>5 DEF Stat
    <3>2. Alone(c) /\ files # <<>> => l = files
      <4>1. SUFFICES ASSUME Alone(c), files # <<>> PROVE l = files OBVIOUS
      <4>2. Listed(c) = ToSet(files) BY <2>2, <3>1, <4>1 DEF Listed
      <4> QED BY <1>1, <4>2, AmongAll
    <3> HIDE DEF l
    <3>3. Moves(c, own, l, "evict") BY <3>1 DEF Moves
    <3>4. <<>> \in Seq(Key) /\ <<>> \o files = files BY <1>1
    <3> QED BY <1>1, <1>2, <2>2, <3>1, <3>2, <3>3, <3>4
  <2>6. CASE Evict(c)
    <3> DEFINE l == Tail(ls)
    <3>1. /\ calls' = [calls EXCEPT ![c].listed = Tail(@)] /\ a = "evict" /\ Total(ls) > Budget
          /\ \/ files' = RemoveFirst(files, Head(ls)) /\ left' = left
             \/ files' = files /\ left' = IF c \in crowded THEN left ELSE Append(left, Head(ls))
      BY <2>6 DEF Evict
    <3>2. Moves(c, own, l, a) BY <3>1 DEF Moves
    <3>3. Alone(c) /\ files' # <<>> => /\ Last(files') = Wanted(c)
                                       /\ left' \in Seq(Key) /\ l \in Seq(Key) /\ l # <<>>
                                       /\ files' = left' \o l
      <4>1. SUFFICES ASSUME Alone(c), files' # <<>>
                     PROVE  /\ Last(files') = Wanted(c)
                            /\ left' \in Seq(Key) /\ l \in Seq(Key) /\ l # <<>>
                            /\ files' = left' \o l
        OBVIOUS
      <4>2. files # <<>>
        <5>1. RemoveFirst(<<>>, Head(ls)) = <<>> BY DEF RemoveFirst
        <5> HIDE DEF ls
        <5> QED BY <3>1, <4>1, <5>1
      <4>3. /\ left \in Seq(Key) /\ ls \in Seq(Key) /\ ls # <<>> /\ files = left \o ls
            /\ Last(files) = Wanted(c)
        BY <2>2, <3>1, <4>1, <4>2
      <4>4. Len(ls) # 1
        <5>1. Len(ls) = 1 => Total(ls) <= Budget BY <4>3, TotalOne
        <5>2. Total(ls) \in Nat BY <4>3, Sums
        <5> HIDE DEF ls
        <5> QED BY <3>1, <5>1, <5>2 DEF BudgetAssumption
      <4> HIDE DEF ls
      <4>5. l \in Seq(Key) /\ l # <<>>
        <5>1. l \in Seq(Key) /\ Len(l) = Len(ls) - 1 /\ Len(ls) \in Nat BY <4>3
        <5>2. Len(l) # 0 BY <4>4, <5>1
        <5> HIDE DEF l
        <5> QED BY <5>1, <5>2
      <4>6. left' \in Seq(Key) /\ files' = left' \o l
        <5>1. CASE files' = RemoveFirst(files, Head(ls)) /\ left' = left
          <6>1. IsInjective(left \o ls) BY <4>3
          <6> QED BY <4>3, <5>1, <6>1, FirstOfRest
        <5>2. CASE files' = files /\ left' = Append(left, Head(ls)) BY <4>3, <5>2, FirstLeft
        <5> QED BY <3>1, <4>1, <5>1, <5>2 DEF Alone
      <4>7. Last(l) = Last(ls)
        <5> DEFINE n == Len(ls)
        <5>1. /\ Len(l) = n - 1 /\ \A i \in 1..(n - 1) : l[i] = ls[i + 1]
              /\ n \in Nat /\ n # 0 /\ n # 1
          BY <4>3, <4>4
        <5> HIDE DEF n, l
        <5>2. n - 1 \in 1..(n - 1) /\ n - 1 + 1 = n BY <5>1
        <5> QED BY <5>1, <5>2 DEF Last, n
      <4>8. Last(files) = Last(ls) /\ Last(files') = Last(l)
        <5> HIDE DEF l
        <5> QED BY <4>3, <4>5, <4>6, LastOfRest
      <4> HIDE DEF l
      <4> QED BY <4>3, <4>5, <4>6, <4>7, <4>8
    <3> HIDE DEF l, ls
    <3> QED BY <1>2, <3>1, <3>2, <3>3
  <2> QED BY <1>4, <2>3, <2>4, <2>5, <2>6
<1> QED BY <1>3, <1>4

\* An update or a clear takes a step and remains what it is.
LEMMA OthersStep ==
  ASSUME DataInv, CacheInv, NEW c \in Calls,
         \/ IdentityAnswers(c) /\ ~Fetches(c)
         \/ UpdateOwner(c) \/ Load(c) \/ EnsureBook(c)
         \/ ClearCore(c) \/ EmptyCache(c) \/ RemoveCache(c) \/ EmptyBook(c) \/ RemoveBook(c)
  PROVE  CacheInv' /\ \A k \in Calls : InHand(k) => InHand(k)'
<1> USE DEF Host, Cache, Book, At, Goes
<1>1. /\ calls = [k \in Calls |-> calls[k]] /\ Formed(calls[c])
      /\ calls[c].kind # "download"
  BY DEF DataInv, DataType, UpdateOwner, Load, EnsureBook, IdentityAnswers, Fetches,
     ClearCore, EmptyCache, RemoveCache, EmptyBook, RemoveBook
<1>2. (files' = files \/ files' = <<>>) /\ UNCHANGED <<crowded, left>>
  BY DEF UpdateOwner, Load, EnsureBook, IdentityAnswers, Queued,
     ClearCore, EmptyCache, RemoveCache, EmptyBook, RemoveBook
<1>3. \E x, z : \/ calls' = [calls EXCEPT ![c].at = z]
                \/ calls' = [calls EXCEPT ![c].owner = x, ![c].at = z]
                \/ calls' = [calls EXCEPT ![c].read = x, ![c].at = z]
                \/ calls' = [calls EXCEPT ![c].after = x, ![c].at = z]
  BY DEF UpdateOwner, Load, EnsureBook, IdentityAnswers,
     ClearCore, EmptyCache, RemoveCache, EmptyBook, RemoveBook
<1>4. "kind" \in DOMAIN calls[c] BY <1>1 DEF Formed, Idle
<1>5. /\ \A k \in Calls \ {c} : calls'[k] = calls[k]
      /\ calls'[c].kind = calls[c].kind
  <2>1. PICK x, z : \/ calls' = [calls EXCEPT ![c].at = z]
                    \/ calls' = [calls EXCEPT ![c].owner = x, ![c].at = z]
                    \/ calls' = [calls EXCEPT ![c].read = x, ![c].at = z]
                    \/ calls' = [calls EXCEPT ![c].after = x, ![c].at = z]
    BY <1>3
  <2>2. /\ \A k \in Calls \ {c} : calls'[k] = calls[k]
        /\ \/ calls'[c] = [calls[c] EXCEPT !.at = z]
           \/ calls'[c] = [[calls[c] EXCEPT !.owner = x] EXCEPT !.at = z]
           \/ calls'[c] = [[calls[c] EXCEPT !.read = x] EXCEPT !.at = z]
           \/ calls'[c] = [[calls[c] EXCEPT !.after = x] EXCEPT !.at = z]
    BY <1>1, <2>1
  <2> QED BY <1>4, <2>2
<1>6. ~Fetches(c)' /\ ~Fetches(c) BY <1>1, <1>5 DEF Fetches
<1>7. \A k \in Calls : Fetches(k)' =>
        Fetches(k) /\ (calls[k].at = "evict" => calls'[k].at = "evict")
  BY <1>5, <1>6 DEF Fetches
<1>8. \A k \in Calls : InHand(k)' => InHand(k) /\ calls'[k] = calls[k]
  BY <1>5, <1>6 DEF Fetches, InHand
<1>9. CacheInv' BY <1>2, <1>7, <1>8, NotInHand
<1>10. \A k \in Calls : InHand(k) => InHand(k)' BY <1>5, <1>6 DEF Fetches, InHand
<1> QED BY <1>9, <1>10

\* A new call waits for no other; a download is alone, or those in flight are crowded.
LEMMA NewCallsCache ==
  ASSUME DataInv, CacheInv, NEW c \in Calls,
         \/ \E i \in Images : Download(c, i) \/ Send(c, i)
         \/ \E m \in Mutations : Update(c, m)
         \/ Clear(c)
  PROVE  CacheInv' /\ \A k \in Calls : InHand(k) => InHand(k)'
<1> USE DEF Host, Cache, Book
<1>0. calls = [k \in Calls |-> calls[k]] BY DEF DataInv, DataType
<1>1. files' = files BY DEF Download, Send, Update, Clear
<1>2. PICK x : /\ x.kind \in {"download", "update", "clear"} /\ NewCall(c, x)
               /\ x.kind = "download" => /\ Meets(c)
                                         /\ x.at \in {"identity", "cached", "ensure"}
               /\ x.kind # "download" => UNCHANGED <<crowded, left>>
  <2>1. ASSUME NEW i \in Images, Download(c, i)
        PROVE  \E x : /\ x.kind = "download" /\ NewCall(c, x) /\ Meets(c)
                      /\ x.at \in {"identity", "cached", "ensure"}
    <3> DEFINE x == [kind |-> "download", image |-> i, owner |-> active, listed |-> <<>>,
                     sent |-> FALSE, at |-> IF active = None THEN "identity" ELSE "cached"]
    <3>1. NewCall(c, x) /\ Meets(c) BY <2>1 DEF Download
    <3>2. x.kind = "download" /\ x.at \in {"identity", "cached", "ensure"} OBVIOUS
    <3> HIDE DEF x
    <3> QED BY <3>1, <3>2
  <2>2. ASSUME NEW i \in Images, Send(c, i)
        PROVE  \E x : /\ x.kind = "download" /\ NewCall(c, x) /\ Meets(c)
                      /\ x.at \in {"identity", "cached", "ensure"}
    <3> DEFINE x == [kind |-> "download", image |-> i, owner |-> active, listed |-> <<>>,
                     sent |-> TRUE, at |-> IF active = None THEN "identity" ELSE "ensure"]
    <3>1. NewCall(c, x) /\ Meets(c) BY <2>2 DEF Send
    <3>2. x.kind = "download" /\ x.at \in {"identity", "cached", "ensure"} OBVIOUS
    <3> HIDE DEF x
    <3> QED BY <3>1, <3>2
  <2>3. ASSUME NEW m \in Mutations, Update(c, m)
        PROVE  \E x : x.kind = "update" /\ NewCall(c, x) /\ UNCHANGED <<crowded, left>>
    <3> DEFINE x == [kind |-> "update", mutation |-> m, owner |-> active,
                     read |-> NoPreferences, at |-> IF active = None THEN "identity" ELSE "load"]
    <3>1. NewCall(c, x) /\ UNCHANGED <<crowded, left>> BY <2>3 DEF Update
    <3>2. x.kind = "update" OBVIOUS
    <3> HIDE DEF x
    <3> QED BY <3>1, <3>2
  <2>4. ASSUME Clear(c)
        PROVE  \E x : x.kind = "clear" /\ NewCall(c, x) /\ UNCHANGED <<crowded, left>>
    <3> DEFINE x == [kind |-> "clear", owner |-> Core, after |-> {}, at |-> "core"]
    <3>1. NewCall(c, x) /\ UNCHANGED <<crowded, left>> BY <2>4 DEF Clear
    <3>2. x.kind = "clear" OBVIOUS
    <3> HIDE DEF x
    <3> QED BY <3>1, <3>2
  <2> QED BY <2>1, <2>2, <2>3, <2>4
<1>3. calls'[c] = x /\ \A k \in Calls \ {c} : calls'[k] = calls[k]
  BY <1>0, <1>2 DEF NewCall
<1>4. ~InHand(c)' BY <1>2, <1>3 DEF InHand, Fetches
<1>5. \A k \in Calls : InHand(k)' => InHand(k) /\ calls'[k] = calls[k]
  BY <1>3, <1>4 DEF InHand, Fetches
<1>6. \A k \in Calls : InHand(k) => InHand(k)'
  <2>1. ~InHand(c) BY <1>2 DEF NewCall, InHand, Fetches, Idle
  <2> QED BY <1>3, <2>1 DEF InHand, Fetches
<1>7. CASE x.kind = "download"
  <2>1. Meets(c) BY <1>2, <1>7
  <2>2. CASE Busy("download")
    <3>1. crowded' = {k \in Calls : k = c \/ calls[k].kind = "download"} BY <2>1, <2>2 DEF Meets
    <3>2. \A k \in Calls : ~Alone(k)' BY <1>3, <3>1 DEF Alone, Fetches
    <3> QED BY <1>6, <3>2 DEF CacheInv
  <2>3. CASE ~Busy("download")
    <3>1. \A k \in Calls \ {c} : ~Fetches(k)' BY <1>3, <2>3 DEF Busy, Fetches
    <3>2. left' = <<>> BY <2>1 DEF Meets
    <3> QED BY <1>4, <1>6, <3>1, <3>2 DEF CacheInv, Alone, InHand
  <2> QED BY <2>2, <2>3
<1>8. CASE x.kind # "download"
  <2>1. \A k \in Calls : Fetches(k)' =>
          Fetches(k) /\ (calls[k].at = "evict" => calls'[k].at = "evict")
    BY <1>3, <1>8 DEF Fetches
  <2>2. UNCHANGED <<crowded, left>> BY <1>2, <1>8
  <2> QED BY <1>1, <1>5, <1>6, <2>1, <2>2, NotInHand
<1> QED BY <1>7, <1>8

LEMMA HitCache ==
  ASSUME CacheInv, NEW c \in Calls, Hit(c)
  PROVE  CacheInv'
<1>1. Fetches(c) /\ Ends(c) /\ crowded' = crowded BY DEF Hit, At, Fetches
<1>2. \A k \in Calls : Fetches(k)' => Fetches(k) /\ k # c
  <2>1. calls'[c].kind # "download" BY <1>1 DEF Ends, Idle
  <2>2. \A k \in Calls \ {c} : \/ calls'[k] = calls[k]
                               \/ /\ calls[k].kind = "clear"
                                  /\ calls'[k] = [calls[k] EXCEPT !.after = @ \ {c}]
    BY <1>1 DEF Ends
  <2>3. \A k \in Calls : calls[k].kind = "clear" =>
          [calls[k] EXCEPT !.after = @ \ {c}].kind # "download"
    OBVIOUS
  <2> QED BY <2>1, <2>2, <2>3 DEF Fetches
<1>3. CASE c \in crowded BY <1>1, <1>2, <1>3, Crowd
<1>4. CASE c \notin crowded
  <2>1. \A k \in Calls \ {c} : ~Fetches(k) BY <1>1, <1>4 DEF CacheInv, Alone
  <2>2. \A k \in Calls : ~Fetches(k)' BY <1>2, <2>1
  <2> QED BY <2>2 DEF CacheInv, Alone
<1> QED BY <1>3, <1>4

LEMMA CacheKeeps ==
  ASSUME BudgetAssumption, DataInv, IsInjective(files), CacheInv, [LocalNext]_localVars
  PROVE  CacheInv'
<1> USE DEF Host, Cache, Book
<1>1. ASSUME NEW c \in Calls,
             \/ \E i \in Images : Download(c, i) \/ Send(c, i)
             \/ \E m \in Mutations : Update(c, m)
             \/ Clear(c)
      PROVE  CacheInv'
  BY <1>1, NewCallsCache
<1>2. ASSUME NEW c \in Calls,
             \/ Downloaded(c) \/ WriteFails(c) \/ NotRegistered(c) \/ UpdateRefused(c)
             \/ Rename(c) \/ Cleared(c) \/ NotEmpty(c) \/ Fails(c)
      PROVE  CacheInv'
  <2>1. Ends(c) /\ files' = files /\ UNCHANGED <<crowded, left>>
    BY <1>2 DEF Downloaded, WriteFails, NotRegistered, UpdateRefused, Rename, Cleared,
       NotEmpty, Fails
  <2> QED BY <2>1, EndsCache
<1>3. ASSUME NEW c \in Calls, IdentityAnswers(c) \/ CacheStep(c) \/ BookStep(c) \/ ClearStep(c)
      PROVE  CacheInv'
  <2>1. CASE IdentityAnswers(c) BY <2>1, BeforeStore, OthersStep
  <2>2. CASE CacheStep(c)
    BY <1>2, <2>2, HitCache, BeforeStore, AfterStore DEF CacheStep
  <2>3. CASE BookStep(c)
    <3>1. CASE UpdateOwner(c) \/ Load(c) \/ EnsureBook(c) BY <3>1, OthersStep
    <3>2. CASE Rename(c) \/ UpdateRefused(c) BY <1>2, <3>2
    <3> QED BY <2>3, <3>1, <3>2 DEF BookStep
  <2>4. CASE ClearStep(c) BY <1>2, <2>4, OthersStep DEF ClearStep
  <2> QED BY <1>3, <2>1, <2>2, <2>3, <2>4
<1>4. ASSUME NEW d \in Dids, Register(d) PROVE CacheInv'
  BY <1>4 DEF Register, CacheInv, InHand, Fetches, Wanted, Alone
<1>5. CASE Reads BY <1>5 DEF Reads, CacheInv, InHand, Fetches, Wanted, Alone
<1>6. CASE Crash
  <2>1. \A c \in Calls : ~Fetches(c)' BY <1>6 DEF Crash, Fetches, Idle
  <2> QED BY <2>1 DEF CacheInv, Alone
<1>7. CASE UNCHANGED localVars
  BY <1>7 DEF localVars, CacheInv, InHand, Fetches, Wanted, Alone
<1> QED BY <1>1, <1>2, <1>3, <1>4, <1>5, <1>6, <1>7 DEF LocalNext

\* A download that has made room for its image and met no other leaves the cache within its
\* budget, but for the files whose unlink failed, and its image in it (attachment-cache.ts:160),
\* for any number of calls, images and sizes, and whatever was left by failures, crashes and
\* downloads that overlapped: while the cache is not emptied, what it has listed are all the
\* files but the first, which it could not unlink, and the last of the list is its image.
THEOREM CacheKeepsItsBudget ==
  ASSUME BudgetAssumption, LocalDataAssumption
  PROVE  LocalSpec => []CacheFits
<1>1. "none" \notin Dids BY DEF LocalDataAssumption
<1>2. LocalInit => CacheInv /\ IsInjective(files)
  BY DEF LocalInit, CacheInv, Alone, Fetches, Idle, IsInjective
<1>3. DataInv /\ CacheInv /\ IsInjective(files) /\ [LocalNext]_localVars
        => CacheInv' /\ IsInjective(files)'
  BY CacheKeeps, FilesOnce
<1>4. DataInv /\ CacheInv => CacheFits
  <2> SUFFICES ASSUME DataInv, CacheInv, NEW c \in Calls \ crowded, At(c, "download", "evict"),
                      Total(calls[c].listed) <= Budget, files # <<>>
               PROVE  /\ Contains(files, Wanted(c)) /\ IsPrefix(left, files)
                      /\ Total(SubSeq(files, Len(left) + 1, Len(files))) <= Budget
    BY DEF CacheFits
  <2> DEFINE ls == calls[c].listed
  <2>1. InHand(c) /\ calls[c].at = "evict" /\ Alone(c) BY DEF InHand, Fetches, At, Alone
  <2>2. /\ files = left \o ls /\ Last(files) = Wanted(c)
        /\ left \in Seq(Key) /\ ls \in Seq(Key)
    BY <2>1 DEF CacheInv
  <2>3. files \in Seq(Key) BY DEF DataInv, DataType
  <2>4. Len(files) \in 1..Len(files) BY <2>3
  <2>5. Contains(files, Wanted(c)) BY <2>2, <2>3, <2>4 DEF Contains, Last
  <2> HIDE DEF ls
  <2>6. IsPrefix(left, files) /\ SubSeq(files, Len(left) + 1, Len(files)) = ls
    BY <2>2, TwoParts
  <2> QED BY <2>5, <2>6 DEF ls
<1>5. LocalSpec => [](CacheInv /\ IsInjective(files))
  BY <1>1, <1>2, <1>3, DataHolds, PTL DEF LocalSpec
<1> QED BY <1>1, <1>4, <1>5, DataHolds, PTL

-----------------------------------------------------------------------------
(* The cache at rest, where nothing fails. *)

\* Without its directory the cache is empty.  Whoever has just stored a file makes room for it.
RoomInv ==
  /\ crowded = {} /\ left = <<>>
  /\ ~cacheDir => files = <<>>
  /\ (\A c \in Calls : ~InHand(c)) => Total(files) <= Budget

\* Nothing is stored, and nobody who has stored something gives up.
LEMMA RoomRemains ==
  ASSUME RoomInv, files' = files, crowded' = {}, left' = <<>>, cacheDir' = cacheDir \/ cacheDir' = TRUE \/ files = <<>>,
         \A k \in Calls : InHand(k) => InHand(k)'
  PROVE  RoomInv'
BY DEF RoomInv

\* A download ends when there is room, and a write fails for want of a file or of the directory,
\* which only an emptied cache is.
LEMMA RoomAtTheEnd ==
  ASSUME BudgetAssumption, DataInv, CacheInv, RoomInv, NEW c \in Calls,
         Downloaded(c) \/ WriteFails(c)
  PROVE  RoomInv'
<1> USE DEF Host, Cache, Book, At
<1>1. /\ Ends(c) /\ files' = files /\ cacheDir' = cacheDir /\ Fetches(c) /\ Alone(c)
      /\ UNCHANGED <<crowded, left>> /\ crowded' = {} /\ left' = <<>>
  BY DEF Downloaded, WriteFails, Fetches, Alone, RoomInv
<1>2. files \in Seq(Key) BY DEF DataInv, DataType
<1>3. Total(<<>>) <= Budget BY TotalEmpty DEF BudgetAssumption
<1>4. CASE ~InHand(c)
  <2>1. \A k \in Calls : InHand(k) => InHand(k)' BY <1>1, <1>4, EndsCache
  <2> QED BY <1>1, <2>1, RoomRemains
<1>5. CASE InHand(c)
  <2>1. Total(files) <= Budget
    <3>1. SUFFICES ASSUME files # <<>> PROVE Total(files) <= Budget BY <1>3
    <3>2. /\ Last(files) = Wanted(c) /\ cacheDir
          /\ calls[c].at \in {"stat", "evict"} => calls[c].listed = files
      <4>1. /\ Last(files) = Wanted(c) /\ cacheDir
            /\ calls[c].at = "stat" => calls[c].listed = files
            /\ calls[c].at = "evict" => /\ calls[c].listed \in Seq(Key)
                                       /\ files = <<>> \o calls[c].listed
        BY <1>1, <1>5, <3>1 DEF CacheInv, RoomInv
      <4> QED BY <4>1
    <3>3. Contains(files, Wanted(c))
      <4>1. Len(files) \in 1..Len(files) BY <1>2, <3>1
      <4> QED BY <1>2, <3>2, <4>1 DEF Contains, Last
    <3>4. ~WriteFails(c) BY <1>5, <3>2, <3>3 DEF WriteFails, InHand, Listed
    <3>5. calls[c].at = "evict" /\ Total(calls[c].listed) <= Budget BY <3>4 DEF Downloaded
    <3> QED BY <3>2, <3>5
  <2> QED BY <1>1, <2>1 DEF RoomInv
<1> QED BY <1>4, <1>5

LEMMA RoomSteps ==
  ASSUME BudgetAssumption, ~Overlapping, ~Faulty, DataInv, IsInjective(files), CacheInv, RoomInv,
         [LocalNext]_localVars
  PROVE  RoomInv'
<1> USE DEF Host, Cache, Book, At
<1>1. files \in Seq(Key) /\ Total(<<>>) <= Budget
  BY TotalEmpty DEF DataInv, DataType, BudgetAssumption
<1>g. /\ crowded = {} /\ left = <<>> BY DEF RoomInv
<1>2. ASSUME NEW c \in Calls,
             \/ \E i \in Images : Download(c, i) \/ Send(c, i)
             \/ \E m \in Mutations : Update(c, m)
             \/ Clear(c)
      PROVE  RoomInv'
  <2>1. /\ files' = files /\ cacheDir' = cacheDir /\ crowded' = {} /\ left' = <<>>
    BY <1>g, <1>2 DEF Download, Send, Update, Clear, Meets
  <2>2. \A k \in Calls : InHand(k) => InHand(k)' BY <1>2, NewCallsCache
  <2> QED BY <2>1, <2>2, RoomRemains
<1>3. ASSUME NEW c \in Calls,
             \/ NotRegistered(c) \/ UpdateRefused(c) \/ Rename(c) \/ Cleared(c) \/ NotEmpty(c)
      PROVE  RoomInv'
  <2>1. /\ Ends(c) /\ files' = files /\ cacheDir' = cacheDir /\ ~InHand(c)
        /\ UNCHANGED <<crowded, left>>
    BY <1>3 DEF NotRegistered, UpdateRefused, Rename, Cleared, NotEmpty, InHand, Fetches
  <2>2. \A k \in Calls : InHand(k) => InHand(k)' BY <2>1, EndsCache
  <2> QED BY <1>g, <2>1, <2>2, RoomRemains
<1>4. ASSUME NEW c \in Calls,
             \/ Miss(c) \/ DownloadOwner(c) \/ SecondMiss(c) \/ Fetched(c) \/ EnsureCache(c)
             \/ IdentityAnswers(c) \/ UpdateOwner(c) \/ Load(c) \/ EnsureBook(c)
             \/ ClearCore(c) \/ RemoveCache(c) \/ EmptyBook(c) \/ RemoveBook(c)
      PROVE  RoomInv'
  <2>1. \A k \in Calls : InHand(k) => InHand(k)' BY <1>4, BeforeStore, OthersStep
  <2>2. /\ files' = files /\ (cacheDir' = cacheDir \/ cacheDir' = TRUE \/ files = <<>>)
        /\ crowded' = {} /\ left' = <<>>
    BY <1>g, <1>4 DEF Miss, DownloadOwner, SecondMiss, Fetched, EnsureCache, IdentityAnswers,
       UpdateOwner, Queued, Load, EnsureBook, ClearCore, RemoveCache, EmptyBook, RemoveBook
  <2> QED BY <2>1, <2>2, RoomRemains
<1>5. ASSUME NEW c \in Calls, Store(c) \/ Chmod(c) \/ List(c) \/ Stat(c) \/ Evict(c)
      PROVE  RoomInv'
  <2>1. InHand(c)' BY <1>5, AfterStore
  <2>2. ~cacheDir' => files' = <<>>
    <3>1. cacheDir' = cacheDir BY <1>5 DEF Store, Chmod, List, Stat, Evict
    <3>2. CASE Store(c) BY <3>1, <3>2 DEF Store
    <3>3. CASE Chmod(c) \/ List(c) \/ Stat(c)
      BY <3>1, <3>3 DEF Chmod, List, Stat, RoomInv
    <3>4. CASE Evict(c)
      <4>1. files = <<>> => files' = <<>> BY <3>4 DEF Evict, RemoveFirst
      <4> QED BY <3>1, <4>1 DEF RoomInv
    <3> QED BY <1>5, <3>2, <3>3, <3>4
  <2>3. crowded' = {} /\ left' = <<>>
    <3>1. UNCHANGED <<crowded, left>> BY <1>5 DEF Store, Chmod, List, Stat, Evict
    <3> QED BY <1>g, <3>1
  <2> QED BY <2>1, <2>2, <2>3 DEF RoomInv
<1>6. ASSUME NEW c \in Calls, EmptyCache(c) PROVE RoomInv'
  BY <1>1, <1>6 DEF EmptyCache, RoomInv
<1>7. ASSUME NEW c \in Calls, Hit(c) PROVE RoomInv'
  <2> DEFINE w == Wanted(c)
  <2>1. /\ Fetches(c) /\ ~InHand(c) /\ w \in ToSet(files)
        /\ files' = Append(RemoveFirst(files, w), w) /\ cacheDir' = cacheDir
    BY <1>1, <1>7 DEF Hit, Fetches, InHand, Contains, ToSet
  <2>g. crowded' = {} /\ left' = <<>> BY <1>g, <1>7 DEF Hit
  <2> HIDE DEF w
  <2>2. \A k \in Calls : ~InHand(k) BY <1>g, <2>1 DEF CacheInv, InHand, Alone
  <2>3. Total(files') = Total(files) BY <1>1, <2>1, Touched
  <2>4. files # <<>> BY <2>1 DEF ToSet
  <2> QED BY <2>1, <2>g, <2>2, <2>3, <2>4 DEF RoomInv
<1>8. ASSUME NEW d \in Dids, Register(d) PROVE RoomInv'
  BY <1>g, <1>8, RoomRemains DEF Register, InHand, Fetches
<1>9. CASE Reads BY <1>g, <1>9, RoomRemains DEF Reads, InHand, Fetches
<1>10. CASE UNCHANGED localVars
  BY <1>g, <1>10, RoomRemains DEF localVars, InHand, Fetches
<1>11. ~Crash /\ \A c \in Calls : ~Fails(c) BY DEF Crash, Fails
<1>12. ASSUME NEW c \in Calls, CacheStep(c) \/ BookStep(c) \/ ClearStep(c) PROVE RoomInv'
  <2>1. CASE CacheStep(c) BY <1>4, <1>5, <1>7, <2>1, RoomAtTheEnd DEF CacheStep
  <2>2. CASE BookStep(c) BY <1>3, <1>4, <2>2 DEF BookStep
  <2>3. CASE ClearStep(c) BY <1>3, <1>4, <1>6, <2>3 DEF ClearStep
  <2> QED BY <1>12, <2>1, <2>2, <2>3
<1> QED BY <1>2, <1>3, <1>4, <1>8, <1>9, <1>10, <1>11, <1>12 DEF LocalNext

\* Where nothing fails and downloads do not overlap, the cache keeps its budget whenever nobody
\* is making room for a file (attachment-cache.ts:70): a file that is used again counts as
\* before, a new one is not left before there is room for it, and an emptied cache is empty.
THEOREM CacheAtRestIsBounded ==
  ASSUME BudgetAssumption, LocalDataAssumption, ~Overlapping, ~Faulty
  PROVE  LocalSpec => []Bounded
<1>1. "none" \notin Dids BY DEF LocalDataAssumption
<1>2. LocalInit => CacheInv /\ RoomInv /\ IsInjective(files)
  BY TotalEmpty DEF LocalInit, CacheInv, RoomInv, Alone, Fetches, Idle, BudgetAssumption, IsInjective
<1>3. DataInv /\ CacheInv /\ RoomInv /\ IsInjective(files) /\ [LocalNext]_localVars
        => CacheInv' /\ RoomInv' /\ IsInjective(files)'
  BY CacheKeeps, FilesOnce, RoomSteps
<1>4. RoomInv => Bounded BY DEF RoomInv, Bounded, InHand, Fetches, Idle
<1>5. LocalSpec => [](CacheInv /\ RoomInv /\ IsInjective(files))
  BY <1>1, <1>2, <1>3, DataHolds, PTL DEF LocalSpec
<1> QED BY <1>4, <1>5, PTL

-----------------------------------------------------------------------------
(* LocalData: the types. *)

\* Each of finitely many places has a rank of its own, so each rank has a place.
LEMMA Ranks ==
  ASSUME NEW S \in SUBSET Nat, IsFiniteSet(S)
  PROVE  /\ Cardinality(S) \in Nat
         /\ \A i \in S : Cardinality({j \in S : j <= i}) \in 1..Cardinality(S)
         /\ \A n \in 1..Cardinality(S) : \E i \in S : Cardinality({j \in S : j <= i}) = n
<1> DEFINE upto(i) == {j \in S : j <= i}
           rank == [i \in S |-> Cardinality(upto(i))]
<1>1. \A i \in S : /\ IsFiniteSet(upto(i)) /\ upto(i) \subseteq S
                   /\ Cardinality(upto(i)) \in 1..Cardinality(S)
  <2> SUFFICES ASSUME NEW i \in S
               PROVE  /\ IsFiniteSet(upto(i)) /\ upto(i) \subseteq S
                      /\ Cardinality(upto(i)) \in 1..Cardinality(S)
    OBVIOUS
  <2>1. IsFiniteSet(upto(i)) /\ Cardinality(upto(i)) <= Cardinality(S) BY FS_Subset
  <2>2. upto(i) # {} OBVIOUS
  <2>3. Cardinality(upto(i)) # 0 BY <2>1, <2>2, FS_EmptySet
  <2> QED BY <2>1, <2>3, FS_CardinalityType
<1>2. ASSUME NEW i \in S, NEW k \in S, i < k PROVE Cardinality(upto(i)) # Cardinality(upto(k))
  <2>1. /\ \A j \in S : j <= i => j <= k
        /\ k <= k /\ ~(k <= i)
    BY <1>2
  <2>2. upto(i) \in SUBSET upto(k) /\ k \in upto(k) /\ k \notin upto(i) BY <2>1
  <2>3. IsFiniteSet(upto(k)) BY <1>1
  <2> HIDE DEF upto
  <2> QED BY <2>2, <2>3, FS_Subset
<1>3. \A i, k \in S : Cardinality(upto(i)) = Cardinality(upto(k)) => i = k
  <2> SUFFICES ASSUME NEW i \in S, NEW k \in S, Cardinality(upto(i)) = Cardinality(upto(k))
               PROVE  i = k
    OBVIOUS
  <2>1. ~(i < k) /\ ~(k < i) BY <1>2
  <2> QED BY <2>1
<1> HIDE DEF upto
<1>4. rank \in Injection(S, 1..Cardinality(S)) BY <1>1, <1>3 DEF Injection, IsInjective
<1>5. IsFiniteSet(1..Cardinality(S)) /\ Cardinality(1..Cardinality(S)) = Cardinality(S)
  BY UpToN, FS_CardinalityType
<1>6. rank \in Surjection(S, 1..Cardinality(S)) BY <1>4, <1>5, FS_Injection
<1>7. \A n \in 1..Cardinality(S) : \E i \in S : Cardinality(upto(i)) = n BY <1>6 DEF Surjection
<1> QED BY <1>1, <1>7, FS_CardinalityType DEF upto

\* Some elements of a sequence: no more than there are, and none twice.
LEMMA AmongThose ==
  ASSUME NEW X, NEW s \in Seq(X), NEW S
  PROVE  LET t == Among(s, S) IN
         /\ t \in Seq(X) /\ Len(t) <= Len(s) /\ ToSet(t) \subseteq S
         /\ IsInjective(s) => IsInjective(t)
<1> DEFINE at == {i \in DOMAIN s : s[i] \in S}
           n == Cardinality(at)
           Rank(i) == Cardinality({j \in at : j <= i})
           place(k) == CHOOSE i \in at : Rank(i) = k
           t == Among(s, S)
<1>0. DOMAIN s = 1..Len(s) /\ Len(s) \in Nat /\ \A i \in DOMAIN s : s[i] \in X OBVIOUS
<1>1. /\ at \in SUBSET Nat /\ at \in SUBSET DOMAIN s /\ \A i \in at : s[i] \in S
  BY <1>0
<1>2. IsFiniteSet(at) /\ n \in Nat /\ n <= Len(s)
  <2>1. IsFiniteSet(1..Len(s)) /\ Cardinality(1..Len(s)) = Len(s) BY <1>0, UpToN
  <2>2. at \in SUBSET (1..Len(s)) BY <1>0, <1>1
  <2> HIDE DEF at
  <2> QED BY <2>1, <2>2, FS_Subset, FS_CardinalityType
<1>3. t = [k \in 1..n |-> s[place(k)]] BY DEF Among
<1> HIDE DEF t
<1>4. \A k \in 1..n : \E i \in at : Rank(i) = k
  <2> HIDE DEF at
  <2> QED BY <1>1, <1>2, Ranks
<1> HIDE DEF Rank, at, n
<1>5. \A k \in 1..n : place(k) \in at /\ Rank(place(k)) = k BY <1>4
<1> HIDE DEF place
<1>6. \A k \in 1..n : t[k] \in X /\ t[k] \in S BY <1>0, <1>1, <1>3, <1>5
<1>7. t \in Seq(X) /\ Len(t) = n /\ DOMAIN t = 1..n BY <1>2, <1>3, <1>6
<1>8. ToSet(t) \subseteq S BY <1>6, <1>7 DEF ToSet
<1>9. ASSUME IsInjective(s) PROVE IsInjective(t)
  <2> SUFFICES ASSUME NEW i \in 1..n, NEW k \in 1..n, t[i] = t[k] PROVE i = k
    BY <1>7 DEF IsInjective
  <2>1. s[place(i)] = s[place(k)] BY <1>3
  <2>2. place(i) \in DOMAIN s /\ place(k) \in DOMAIN s BY <1>1, <1>5
  <2>3. place(i) = place(k) BY <1>9, <2>1, <2>2 DEF IsInjective
  <2> QED BY <1>5, <2>3
<1> QED BY <1>2, <1>7, <1>8, <1>9 DEF t

\* The sequences of a bounded length.
LEMMA ShortSeqs ==
  ASSUME NEW X, NEW n \in Nat, NEW s
  PROVE  s \in SeqOf(X, n) <=> s \in Seq(X) /\ Len(s) <= n
<1>1. ASSUME s \in SeqOf(X, n) PROVE s \in Seq(X) /\ Len(s) <= n
  <2>1. PICK m \in 0..n : s \in [1..m -> X] BY <1>1 DEF SeqOf
  <2> QED BY <2>1
<1>2. ASSUME s \in Seq(X), Len(s) <= n PROVE s \in SeqOf(X, n)
  <2>1. Len(s) \in 0..n /\ s \in [1..Len(s) -> X] BY <1>2
  <2> QED BY <2>1 DEF SeqOf
<1> QED BY <1>1, <1>2

\* A chat that is put first is hidden once, and the list keeps its length.
LEMMA PutFirst ==
  ASSUME NEW X, NEW s \in Seq(X), IsInjective(s), NEW w \in X, w \notin ToSet(s), NEW n \in Nat
  PROVE  LET t == UpTo(n, <<w>> \o s) IN t \in Seq(X) /\ Len(t) <= n /\ IsInjective(t)
<1> DEFINE u == <<w>> \o s
           t == UpTo(n, u)
<1>0. Len(s) \in Nat /\ DOMAIN s = 1..Len(s) /\ \A i \in 1..Len(s) : s[i] \in X OBVIOUS
<1>1. /\ u \in Seq(X) /\ Len(u) = Len(s) + 1 /\ u[1] = w
      /\ \A i \in 2..(Len(s) + 1) : u[i] = s[i - 1]
  OBVIOUS
<1> HIDE DEF u
<1>2. IsInjective(u)
  <2>1. DOMAIN u = 1..(Len(s) + 1) BY <1>1
  <2>2. \A i \in 2..(Len(s) + 1) : i - 1 \in 1..Len(s) /\ i \in Int BY <1>0
  <2>3. \A i \in 1..Len(s) : s[i] # w BY <1>0 DEF ToSet
  <2>4. ASSUME NEW i \in 1..(Len(s) + 1), NEW k \in 1..(Len(s) + 1), u[i] = u[k] PROVE i = k
    <3>1. \A j \in 1..(Len(s) + 1) : j = 1 \/ j \in 2..(Len(s) + 1) BY <1>0
    <3>2. CASE i = 1 BY <1>1, <2>2, <2>3, <2>4, <3>1, <3>2
    <3>3. CASE k = 1 BY <1>1, <2>2, <2>3, <2>4, <3>1, <3>3
    <3>4. CASE i # 1 /\ k # 1
      <4>1. i \in 2..(Len(s) + 1) /\ k \in 2..(Len(s) + 1) BY <3>1, <3>4
      <4>2. s[i - 1] = s[k - 1] BY <1>1, <2>4, <4>1
      <4>3. i - 1 = k - 1 BY <1>0, <2>2, <4>1, <4>2 DEF IsInjective
      <4> QED BY <2>2, <4>1, <4>3
    <3> QED BY <3>2, <3>3, <3>4
  <2> QED BY <2>1, <2>4 DEF IsInjective
<1>3. ASSUME Len(u) <= n PROVE t \in Seq(X) /\ Len(t) <= n /\ IsInjective(t)
  <2>1. t = u BY <1>3 DEF UpTo
  <2> QED BY <1>1, <1>2, <1>3, <2>1
<1>4. ASSUME ~(Len(u) <= n) PROVE t \in Seq(X) /\ Len(t) <= n /\ IsInjective(t)
  <2>1. t = SubSeq(u, 1, n) BY <1>4 DEF UpTo
  <2>2. 1 \in Nat /\ n <= Len(u) /\ 1 <= n + 1 BY <1>0, <1>1, <1>4
  <2>3. /\ t \in Seq(X) /\ Len(t) = n - 1 + 1 /\ \A i \in 1..(n - 1 + 1) : t[i] = u[1 + i - 1]
    <3> HIDE DEF t
    <3>1. 1 <= 1 OBVIOUS
    <3> QED BY <1>1, <2>1, <2>2, <3>1, Part
  <2> HIDE DEF t
  <2>4. n - 1 + 1 = n /\ \A i \in 1..n : 1 + i - 1 = i BY <2>2
  <2>5. DOMAIN t = 1..n /\ Len(t) = n /\ \A i \in 1..n : t[i] = u[i] BY <2>3, <2>4
  <2>6. DOMAIN u = 1..Len(u) /\ \A i \in 1..n : i \in 1..Len(u) BY <1>0, <1>1, <2>2
  <2>7. IsInjective(t) BY <1>2, <2>5, <2>6 DEF IsInjective
  <2>8. t \in Seq(X) /\ Len(t) <= n /\ IsInjective(t) BY <2>3, <2>5, <2>7
  <2> QED BY <2>8 DEF t
<1> QED BY <1>3, <1>4 DEF u

\* Preferences of finitely many encrypted chats.
Kept(p) ==
  /\ p = [hidden |-> p.hidden, encrypted |-> p.encrypted]
  /\ p.hidden \in Seq(Chats) /\ Len(p.hidden) <= MaxEntries /\ IsInjective(p.hidden)
  /\ p.encrypted \subseteq Chats /\ IsFiniteSet(p.encrypted)

Fits(p) == Kept(p) /\ Cardinality(p.encrypted) <= MaxEntries

LEMMA FitsIsValid ==
  ASSUME MaxEntries \in Nat, NEW p, Fits(p) PROVE p \in Preferences
<1>1. p.hidden \in SeqOf(Chats, MaxEntries) BY ShortSeqs DEF Fits, Kept
<1>2. p.hidden \in {h \in SeqOf(Chats, MaxEntries) : IsInjective(h)} BY <1>1 DEF Fits, Kept
<1>3. p.encrypted \in {e \in SUBSET Chats : Cardinality(e) <= MaxEntries} BY DEF Fits, Kept
<1>4. p = [hidden |-> p.hidden, encrypted |-> p.encrypted] BY DEF Fits, Kept
<1> QED BY <1>2, <1>3, <1>4 DEF Preferences

LEMMA NoneFits == ASSUME MaxEntries \in Nat PROVE Fits(NoPreferences)
<1>1. Cardinality({}) = 0 /\ IsFiniteSet({}) BY FS_EmptySet
<1> QED BY <1>1 DEF Fits, Kept, NoPreferences, IsInjective

\* A change of them keeps them, and only one more encrypted chat may be too many.
LEMMA ChangeKeeps ==
  ASSUME MaxEntries \in Nat, NEW p, Fits(p), NEW m \in Mutations
  PROVE  Kept(Changed(p, m))
<1> DEFINE w == Without(p.hidden, m.chat)
           q == Changed(p, m)
<1>0. m.chat \in Chats /\ m.action \in {"hide", "restore", "encrypt", "plain"}
  BY DEF Mutations
<1>1. /\ p.hidden \in Seq(Chats) /\ Len(p.hidden) <= MaxEntries /\ IsInjective(p.hidden)
      /\ p.encrypted \subseteq Chats /\ IsFiniteSet(p.encrypted)
      /\ p = [hidden |-> p.hidden, encrypted |-> p.encrypted]
  BY DEF Fits, Kept
<1>2. w \in Seq(Chats) /\ Len(w) <= Len(p.hidden) /\ IsInjective(w) /\ m.chat \notin ToSet(w)
  BY <1>1, AmongThose DEF Without
<1>3. Len(w) <= MaxEntries
  <2>1. Len(w) \in Nat /\ Len(p.hidden) \in Nat BY <1>1, <1>2
  <2> QED BY <1>1, <1>2, <2>1
<1> HIDE DEF w
<1>4. CASE m.action = "hide"
  <2> DEFINE h == UpTo(MaxEntries, <<m.chat>> \o w)
  <2>1. h \in Seq(Chats) /\ Len(h) <= MaxEntries /\ IsInjective(h)
    BY <1>0, <1>2, PutFirst
  <2>2. q = [p EXCEPT !.hidden = h] BY <1>4 DEF Changed, w
  <2> HIDE DEF h, q
  <2>3. q = [hidden |-> h, encrypted |-> p.encrypted] BY <1>1, <2>2
  <2>4. Kept(q) BY <1>1, <2>1, <2>3 DEF Kept
  <2> QED BY <2>4 DEF q
<1>5. CASE m.action = "restore"
  <2>1. q = [p EXCEPT !.hidden = w] BY <1>5 DEF Changed, w
  <2> HIDE DEF q
  <2>2. q = [hidden |-> w, encrypted |-> p.encrypted] BY <1>1, <2>1
  <2>3. Kept(q) BY <1>1, <1>2, <1>3, <2>2 DEF Kept
  <2> QED BY <2>3 DEF q
<1>6. CASE m.action = "encrypt"
  <2> DEFINE e == p.encrypted \cup {m.chat}
  <2>1. q = [p EXCEPT !.encrypted = e] BY <1>6 DEF Changed
  <2>2. e \subseteq Chats /\ IsFiniteSet(e) BY <1>0, <1>1, FS_AddElement
  <2> HIDE DEF q, e
  <2>3. q = [hidden |-> p.hidden, encrypted |-> e] BY <1>1, <2>1
  <2>4. Kept(q) BY <1>1, <2>2, <2>3 DEF Kept
  <2> QED BY <2>4 DEF q
<1>7. CASE m.action = "plain"
  <2> DEFINE e == p.encrypted \ {m.chat}
  <2>1. q = [p EXCEPT !.encrypted = e] BY <1>7 DEF Changed
  <2>2. e \subseteq Chats /\ IsFiniteSet(e) BY <1>0, <1>1, FS_RemoveElement
  <2> HIDE DEF q, e
  <2>3. q = [hidden |-> p.hidden, encrypted |-> e] BY <1>1, <2>1
  <2>4. Kept(q) BY <1>1, <2>2, <2>3 DEF Kept
  <2> QED BY <2>4 DEF q
<1> QED BY <1>0, <1>4, <1>5, <1>6, <1>7

DownloadCall ==
  [kind : {"download"}, image : Images, owner : Dids \cup {None}, listed : Seq(Key),
   sent : BOOLEAN,
   at : {"cached", "identity", "told", "lookup", "fetch", "ensure", "store", "chmod",
         "list", "stat", "evict"}]
UpdateCall ==
  [kind : {"update"}, mutation : Mutations, owner : Dids \cup {None}, read : Preferences,
   at : {"identity", "told", "load", "ensure", "rename"}]
ClearCall ==
  [kind : {"clear"}, owner : Dids \cup {None}, after : SUBSET Calls,
   at : {"core", "cache", "cacheDir", "mutation", "book", "bookDir", "marker"}]

LEMMA KindsOfCall ==
  /\ Call = {Idle} \cup DownloadCall \cup UpdateCall \cup ClearCall
  /\ \A x \in Call : /\ x.kind = "download" <=> x \in DownloadCall
                     /\ x.kind = "update" <=> x \in UpdateCall
                     /\ x.kind = "clear" <=> x \in ClearCall
                     /\ x.kind = "idle" <=> x = Idle
<1>1. Call = {Idle} \cup DownloadCall \cup UpdateCall \cup ClearCall
  BY DEF Call, DownloadCall, UpdateCall, ClearCall
<1>2. /\ \A x \in DownloadCall : x.kind = "download"
      /\ \A x \in UpdateCall : x.kind = "update"
      /\ \A x \in ClearCall : x.kind = "clear"
      /\ Idle.kind = "idle"
  BY DEF DownloadCall, UpdateCall, ClearCall, Idle
<1> QED BY <1>1, <1>2

\* What an update has read may be on disk, and so may what it replaces it with.
Typed(x) ==
  /\ x \in Call
  /\ x.kind = "update" => /\ Fits(x.read)
                          /\ x.at \notin {"identity", "told"} => x.owner # None
                          /\ x.at = "rename" => Fits(Changed(x.read, x.mutation))

TypeInv ==
  /\ IsInjective(files) /\ crowded \subseteq Calls /\ left \in Seq(Key)
  /\ cacheDir \in BOOLEAN /\ bookDir \in BOOLEAN /\ late \subseteq Dids
  /\ DOMAIN book \subseteq Dids /\ \A d \in DOMAIN book : Fits(book[d])
  /\ \A c \in Calls : Typed(calls[c])

LEMMA TypedCalls ==
  ASSUME TypeInv, NEW c \in Calls, NEW x, Typed(x),
         calls'[c] = x, \A k \in Calls \ {c} : calls'[k] = calls[k]
  PROVE  \A k \in Calls : Typed(calls'[k])
<1> QED BY DEF TypeInv

LEMMA EndsTyped ==
  ASSUME TypeInv, NEW c \in Calls, Ends(c)
  PROVE  \A k \in Calls : Typed(calls'[k])
<1>1. SUFFICES ASSUME NEW k \in Calls PROVE Typed(calls'[k]) OBVIOUS
<1>2. CASE calls'[k] = Idle BY <1>2, KindsOfCall DEF Typed, Idle
<1>3. CASE calls'[k] = calls[k] BY <1>3 DEF TypeInv
<1>4. CASE calls[k].kind = "clear" /\ calls'[k] = [calls[k] EXCEPT !.after = @ \ {c}]
  <2>1. calls[k] \in ClearCall BY <1>4, KindsOfCall DEF TypeInv, Typed
  <2>2. calls'[k] \in ClearCall BY <1>4, <2>1 DEF ClearCall
  <2> QED BY <2>2, KindsOfCall DEF Typed
<1> QED BY <1>2, <1>3, <1>4 DEF Ends

LEMMA NewTyped ==
  ASSUME MaxEntries \in Nat, DataInv, TypeInv, NEW c \in Calls,
         \/ \E i \in Images : Download(c, i) \/ Send(c, i)
         \/ \E m \in Mutations : Update(c, m)
         \/ Clear(c)
  PROVE  \A k \in Calls : Typed(calls'[k])
<1>0. calls = [k \in Calls |-> calls[k]] /\ active \in Dids \cup {None}
  BY DEF DataInv, DataType, None
<1>1. PICK x : /\ x \in DownloadCall \cup UpdateCall \cup ClearCall /\ NewCall(c, x)
               /\ x.kind = "update" => /\ Fits(x.read) /\ x.at # "rename"
                                       /\ x.at # "identity" => x.owner # None
  <2>1. ASSUME NEW i \in Images, Download(c, i)
        PROVE  \E x \in DownloadCall : NewCall(c, x)
    <3> DEFINE x == [kind |-> "download", image |-> i, owner |-> active, listed |-> <<>>,
                     sent |-> FALSE, at |-> IF active = None THEN "identity" ELSE "cached"]
    <3>1. NewCall(c, x) BY <2>1 DEF Download
    <3>2. x \in DownloadCall BY <1>0 DEF DownloadCall
    <3> HIDE DEF x
    <3> QED BY <3>1, <3>2
  <2>2. ASSUME NEW i \in Images, Send(c, i)
        PROVE  \E x \in DownloadCall : NewCall(c, x)
    <3> DEFINE x == [kind |-> "download", image |-> i, owner |-> active, listed |-> <<>>,
                     sent |-> TRUE, at |-> IF active = None THEN "identity" ELSE "ensure"]
    <3>1. NewCall(c, x) BY <2>2 DEF Send
    <3>2. x \in DownloadCall BY <1>0 DEF DownloadCall
    <3> HIDE DEF x
    <3> QED BY <3>1, <3>2
  <2>3. ASSUME NEW m \in Mutations, Update(c, m)
        PROVE  \E x \in UpdateCall :
                 /\ NewCall(c, x) /\ Fits(x.read) /\ x.at # "rename"
                 /\ x.at # "identity" => x.owner # None
    <3> DEFINE x == [kind |-> "update", mutation |-> m, owner |-> active,
                     read |-> NoPreferences, at |-> IF active = None THEN "identity" ELSE "load"]
    <3>1. NewCall(c, x) BY <2>3 DEF Update
    <3>2. Fits(NoPreferences) /\ NoPreferences \in Preferences BY NoneFits, FitsIsValid
    <3>3. x \in UpdateCall BY <1>0, <3>2 DEF UpdateCall
    <3>4. /\ Fits(x.read) /\ x.at # "rename"
          /\ x.at # "identity" => x.owner # None
      BY <3>2
    <3> HIDE DEF x
    <3> QED BY <3>1, <3>3, <3>4
  <2>4. ASSUME Clear(c) PROVE \E x \in ClearCall : NewCall(c, x)
    <3> DEFINE x == [kind |-> "clear", owner |-> Core, after |-> {}, at |-> "core"]
    <3>1. NewCall(c, x) BY <2>4 DEF Clear
    <3>2. x \in ClearCall BY CoreLives DEF ClearCall, None
    <3> HIDE DEF x
    <3> QED BY <3>1, <3>2
  <2>5. /\ \A x \in DownloadCall : x.kind # "update"
        /\ \A x \in ClearCall : x.kind # "update"
    BY DEF DownloadCall, ClearCall
  <2> QED BY <2>1, <2>2, <2>3, <2>4, <2>5
<1>2. calls'[c] = x /\ \A k \in Calls \ {c} : calls'[k] = calls[k]
  BY <1>0, <1>1 DEF NewCall
<1>3. Typed(x) BY <1>1, KindsOfCall DEF Typed
<1> QED BY <1>2, <1>3, TypedCalls

LEMMA DownloadsTyped ==
  ASSUME BudgetAssumption, DataInv, TypeInv, NEW c \in Calls,
         \/ Miss(c) \/ DownloadOwner(c) \/ SecondMiss(c) \/ Fetched(c) \/ EnsureCache(c)
         \/ Store(c) \/ Chmod(c) \/ List(c) \/ Stat(c) \/ Evict(c)
         \/ IdentityAnswers(c) /\ Fetches(c)
  PROVE  \A k \in Calls : Typed(calls'[k])
<1> USE DEF At, Goes
<1> DEFINE own == calls[c].owner
           ls == calls[c].listed
           a == calls[c].at
           ats == {"cached", "identity", "told", "lookup", "fetch", "ensure", "store", "chmod",
                   "list", "stat", "evict"}
<1>1. Fetches(c)
  BY DEF Miss, DownloadOwner, SecondMiss, Fetched, EnsureCache, Store, Chmod, List, Stat,
     Evict, Fetches
<1>2. /\ calls[c] \in DownloadCall /\ files \in Seq(Key) /\ active \in Dids \cup {None}
      /\ own \in Dids \cup {None} /\ ls \in Seq(Key) /\ a \in ats
  <2>1. calls[c] \in DownloadCall BY <1>1, KindsOfCall DEF TypeInv, Typed, Fetches
  <2>2. own \in Dids \cup {None} /\ ls \in Seq(Key) /\ a \in ats BY <2>1 DEF DownloadCall
  <2> QED BY <2>1, <2>2 DEF DataInv, DataType, None
<1>3. ASSUME NEW o \in Dids \cup {None}, NEW l \in Seq(Key), NEW z \in ats, Moves(c, o, l, z)
      PROVE  \A k \in Calls : Typed(calls'[k])
  <2>1. /\ \A k \in Calls \ {c} : calls'[k] = calls[k]
        /\ calls'[c] = [kind |-> "download", image |-> calls[c].image, owner |-> o,
                        listed |-> l, sent |-> calls[c].sent, at |-> z]
    <3> HIDE DEF own, ls, a, ats
    <3> QED BY <1>1, <1>3, FetchShape
  <2>2. calls[c].image \in Images /\ calls[c].sent \in BOOLEAN BY <1>2 DEF DownloadCall
  <2>3. calls'[c] \in DownloadCall BY <2>1, <2>2 DEF DownloadCall
  <2>4. Typed(calls'[c]) BY <2>3, KindsOfCall DEF Typed
  <2> QED BY <2>1, <2>4 DEF TypeInv
<1>4. CASE Miss(c)
  <2> DEFINE z == IF active = None THEN "identity" ELSE "lookup"
  <2>1. Moves(c, active, ls, z) BY <1>4 DEF Miss, Moves
  <2>2. z \in ats OBVIOUS
  <2> HIDE DEF z, ls, ats
  <2> QED BY <1>2, <1>3, <2>1, <2>2
<1>5. CASE DownloadOwner(c)
  <2> DEFINE z == IF calls[c].sent THEN "ensure" ELSE "lookup"
             w == Owner(c)
  <2>1. Moves(c, w, ls, z) BY <1>5 DEF DownloadOwner, Moves
  <2>2. z \in ats OBVIOUS
  <2>3. w \in Dids \cup {None} BY <1>2 DEF Owner
  <2> HIDE DEF z, w, ls, ats
  <2> QED BY <1>2, <1>3, <2>1, <2>2, <2>3
<1>6. CASE IdentityAnswers(c)
  <2> DEFINE w == Core
             z == "told"
  <2>1. Moves(c, w, ls, z) BY <1>6 DEF IdentityAnswers, Moves
  <2>2. w \in Dids \cup {None} /\ z \in ats BY CoreLives DEF None
  <2> HIDE DEF w, z, ls, ats
  <2> QED BY <1>2, <1>3, <2>1, <2>2
<1>7. ASSUME NEW z \in ats, calls' = [calls EXCEPT ![c].at = z]
      PROVE  \A k \in Calls : Typed(calls'[k])
  <2>1. Moves(c, own, ls, z) BY <1>7 DEF Moves
  <2> HIDE DEF own, ls, ats
  <2> QED BY <1>2, <1>3, <2>1
<1>8. CASE SecondMiss(c) \/ Fetched(c) \/ EnsureCache(c) \/ Store(c) \/ Chmod(c)
  <2>1. \E z \in {"fetch", "ensure", "store", "chmod", "list"} :
          calls' = [calls EXCEPT ![c].at = z]
    BY <1>8 DEF SecondMiss, Fetched, EnsureCache, Store, Chmod
  <2> QED BY <1>7, <2>1
<1>9. CASE List(c)
  <2> DEFINE z == "stat"
  <2>1. Moves(c, own, files, z) BY <1>9 DEF List, Moves
  <2>2. z \in ats OBVIOUS
  <2> HIDE DEF own, z, ats
  <2> QED BY <1>2, <1>3, <2>1, <2>2
<1>10. CASE Stat(c)
  <2> DEFINE l == Among(files, Listed(c))
             z == "evict"
  <2>1. Moves(c, own, l, z) BY <1>10 DEF Stat, Moves
  <2>2. z \in ats /\ l \in Seq(Key) BY <1>2, AmongThose
  <2> HIDE DEF own, l, z, ats
  <2> QED BY <1>2, <1>3, <2>1, <2>2
<1>11. CASE Evict(c)
  <2> DEFINE l == Tail(ls)
  <2>1. Moves(c, own, l, a) BY <1>11 DEF Evict, Moves
  <2>2. l \in Seq(Key)
    <3>1. ls # <<>> BY <1>11, TotalEmpty DEF Evict, BudgetAssumption
    <3> QED BY <1>2, <3>1
  <2> HIDE DEF own, l, a, ats
  <2> QED BY <1>2, <1>3, <2>1, <2>2
<1> QED BY <1>4, <1>5, <1>6, <1>8, <1>9, <1>10, <1>11

LEMMA UpdatesTyped ==
  ASSUME MaxEntries \in Nat, DataInv, TypeInv, NEW c \in Calls,
         \/ IdentityAnswers(c) /\ ~Fetches(c)
         \/ UpdateOwner(c) \/ Load(c) \/ EnsureBook(c)
  PROVE  \A k \in Calls : Typed(calls'[k])
<1> USE DEF At, Goes
<1>1. calls[c].kind = "update"
  BY DEF IdentityAnswers, UpdateOwner, Load, EnsureBook, Fetches
<1>2. /\ calls = [k \in Calls |-> calls[k]] /\ active \in Dids \cup {None}
      /\ calls[c] \in UpdateCall /\ Fits(calls[c].read)
      /\ calls[c].at \notin {"identity", "told"} => calls[c].owner # None
  BY <1>1, KindsOfCall DEF DataInv, DataType, None, TypeInv, Typed
<1>3. ASSUME NEW x \in UpdateCall, Fits(x.read),
             x.at \notin {"identity", "told"} => x.owner # None,
             x.at = "rename" => Fits(Changed(x.read, x.mutation)),
             calls' = [calls EXCEPT ![c] = x]
      PROVE  \A k \in Calls : Typed(calls'[k])
  <2>1. calls'[c] = x /\ \A k \in Calls \ {c} : calls'[k] = calls[k] BY <1>2, <1>3
  <2>2. Typed(x) BY <1>3, KindsOfCall DEF Typed
  <2> QED BY <2>1, <2>2, TypedCalls
<1>4. ASSUME NEW o \in Dids \cup {None}, NEW z \in {"told", "load"}, z = "load" => o # None,
             calls' = [calls EXCEPT ![c].owner = o, ![c].at = z]
      PROVE  \A k \in Calls : Typed(calls'[k])
  <2> DEFINE x == [[calls[c] EXCEPT !.owner = o] EXCEPT !.at = z]
  <2>1. /\ x \in UpdateCall /\ x.read = calls[c].read /\ x.at = z
        /\ x.at \notin {"identity", "told"} => x.owner # None
    BY <1>2, <1>4 DEF UpdateCall
  <2>2. calls' = [calls EXCEPT ![c] = x] BY <1>2, <1>4
  <2>3. x.at # "rename" /\ Fits(x.read) BY <1>2, <2>1
  <2> HIDE DEF x
  <2> QED BY <1>3, <2>1, <2>2, <2>3
<1>5. CASE IdentityAnswers(c)
  <2> DEFINE w == Core
  <2>1. calls' = [calls EXCEPT ![c].owner = w, ![c].at = "told"] BY <1>5 DEF IdentityAnswers
  <2>2. w \in Dids \cup {None} BY CoreLives DEF None
  <2> HIDE DEF w
  <2> QED BY <1>4, <2>1, <2>2
<1>6. CASE UpdateOwner(c)
  <2> DEFINE w == Owner(c)
  <2>1. calls' = [calls EXCEPT ![c].owner = w, ![c].at = "load"] BY <1>6 DEF UpdateOwner
  <2>2. w \in Dids \cup {None} /\ w # None BY <1>2, <1>6 DEF Owner, UpdateCall, UpdateOwner
  <2> HIDE DEF w
  <2> QED BY <1>4, <2>1, <2>2
<1>7. CASE Load(c)
  <2> DEFINE p == Stored(calls[c].owner)
             x == [[calls[c] EXCEPT !.read = p] EXCEPT !.at = "ensure"]
  <2>1. calls' = [calls EXCEPT ![c].read = p, ![c].at = "ensure"] BY <1>7 DEF Load
  <2>2. Fits(p) BY NoneFits DEF Stored, TypeInv
  <2>3. p \in Preferences BY <2>2, FitsIsValid
  <2> HIDE DEF p
  <2>4. x \in UpdateCall /\ x.read = p /\ x.at = "ensure" /\ x.owner # None
    BY <1>2, <1>7, <2>3 DEF UpdateCall, Load
  <2>5. calls' = [calls EXCEPT ![c] = x] BY <1>2, <2>1
  <2> HIDE DEF x
  <2> QED BY <1>3, <2>2, <2>4, <2>5
<1>8. CASE EnsureBook(c)
  <2> DEFINE x == [calls[c] EXCEPT !.at = "rename"]
             q == Changed(calls[c].read, calls[c].mutation)
  <2>1. calls' = [calls EXCEPT ![c] = x] /\ Cardinality(q.encrypted) <= MaxEntries
    BY <1>8 DEF EnsureBook
  <2>2. /\ x \in UpdateCall /\ x.read = calls[c].read /\ x.mutation = calls[c].mutation
        /\ calls[c].mutation \in Mutations /\ x.owner # None
    BY <1>2, <1>8 DEF UpdateCall, EnsureBook
  <2>3. Kept(q) BY <1>2, <2>2, ChangeKeeps
  <2> HIDE DEF q
  <2>4. Fits(q) BY <2>1, <2>3 DEF Fits
  <2>5. Fits(Changed(x.read, x.mutation)) /\ Fits(x.read) BY <1>2, <2>2, <2>4 DEF q
  <2> HIDE DEF x
  <2> QED BY <1>3, <2>1, <2>2, <2>5
<1> QED BY <1>5, <1>6, <1>7, <1>8

LEMMA ClearsTyped ==
  ASSUME DataInv, TypeInv, NEW c \in Calls,
         ClearCore(c) \/ EmptyCache(c) \/ RemoveCache(c) \/ EmptyBook(c) \/ RemoveBook(c)
  PROVE  \A k \in Calls : Typed(calls'[k])
<1> USE DEF At, Goes
<1>1. calls[c].kind = "clear"
  BY DEF ClearCore, EmptyCache, RemoveCache, EmptyBook, RemoveBook
<1>2. calls = [k \in Calls |-> calls[k]] /\ calls[c] \in ClearCall
  BY <1>1, KindsOfCall DEF DataInv, DataType, TypeInv, Typed
<1>3. ASSUME NEW x \in ClearCall, calls' = [calls EXCEPT ![c] = x]
      PROVE  \A k \in Calls : Typed(calls'[k])
  <2>1. calls'[c] = x /\ \A k \in Calls \ {c} : calls'[k] = calls[k] BY <1>2, <1>3
  <2>2. x.kind = "clear" BY DEF ClearCall
  <2>3. Typed(x) BY <2>2, KindsOfCall DEF Typed
  <2> QED BY <2>1, <2>3, TypedCalls
<1>4. CASE RemoveCache(c)
  <2> DEFINE x == [[calls[c] EXCEPT !.after = ToSet(queue)] EXCEPT !.at = "mutation"]
  <2>1. calls' = [calls EXCEPT ![c] = x] BY <1>2, <1>4 DEF RemoveCache
  <2>2. ToSet(queue) \subseteq Calls BY DEF DataInv, InLine
  <2>3. x \in ClearCall BY <1>2, <2>2 DEF ClearCall
  <2> HIDE DEF x
  <2> QED BY <1>3, <2>1, <2>3
<1>5. CASE ~RemoveCache(c)
  <2>1. PICK z \in {"cache", "cacheDir", "bookDir", "marker"} :
          calls' = [calls EXCEPT ![c].at = z]
    BY <1>5 DEF ClearCore, EmptyCache, EmptyBook, RemoveBook
  <2> DEFINE x == [calls[c] EXCEPT !.at = z]
  <2>2. x \in ClearCall BY <1>2 DEF ClearCall
  <2>3. calls' = [calls EXCEPT ![c] = x] BY <2>1
  <2> HIDE DEF x
  <2> QED BY <1>3, <2>2, <2>3
<1> QED BY <1>4, <1>5

\* The parts of the invariant that are about the files of preferences, and the ghost.
BookType ==
  /\ cacheDir \in BOOLEAN /\ bookDir \in BOOLEAN /\ late \subseteq Dids
  /\ DOMAIN book \subseteq Dids /\ \A d \in DOMAIN book : Fits(book[d])

LEMMA BookTyped ==
  ASSUME DataInv, TypeInv, [LocalNext]_localVars
  PROVE  BookType'
<1> USE DEF Host, Cache, Book, At
<1>0. BookType BY DEF TypeInv, BookType
<1>1. ASSUME NEW c \in Calls, Rename(c) PROVE BookType'
  <2> DEFINE o == calls[c].owner
             q == Changed(calls[c].read, calls[c].mutation)
  <2>1. /\ calls[c].kind = "update" /\ calls[c].at = "rename"
        /\ book' = [d \in DOMAIN book \cup {o} |-> IF d = o THEN q ELSE book[d]]
        /\ late' = Late(c, {"cache", "cacheDir"})
        /\ cacheDir' = cacheDir /\ bookDir' = bookDir
    BY <1>1 DEF Rename
  <2>2. Typed(calls[c]) BY DEF TypeInv
  <2>3. Fits(q) /\ o # None BY <2>1, <2>2 DEF Typed
  <2>4. o \in Dids
    <3>1. calls[c] \in UpdateCall BY <2>1, <2>2, KindsOfCall DEF Typed
    <3> QED BY <2>3, <3>1 DEF UpdateCall
  <2>5. late' \subseteq Dids BY <1>0, <2>1, <2>4 DEF BookType, Late
  <2> HIDE DEF q, o
  <2>6. DOMAIN book' = DOMAIN book \cup {o} BY <2>1
  <2>7. \A d \in DOMAIN book' : book'[d] = IF d = o THEN q ELSE book[d] BY <2>1
  <2> QED BY <1>0, <2>1, <2>3, <2>4, <2>5, <2>6, <2>7 DEF BookType
<1>2. ASSUME NEW c \in Calls, Store(c) PROVE BookType'
  <2>1. calls[c].owner \in Dids BY <1>2 DEF Store, DataInv, DataType, Formed, Idle
  <2>2. UNCHANGED <<cacheDir, book, bookDir>> /\ late' = Late(c, {"cache"}) BY <1>2 DEF Store
  <2>3. late' \subseteq Dids BY <1>0, <2>1, <2>2 DEF BookType, Late
  <2> QED BY <1>0, <2>2, <2>3 DEF BookType
<1>3. ASSUME late' = late, book' = book \/ book' = NoBook,
             cacheDir' = cacheDir \/ cacheDir' \in BOOLEAN,
             bookDir' = bookDir \/ bookDir' \in BOOLEAN
      PROVE  BookType'
  BY <1>0, <1>3 DEF BookType, NoBook
<1>4. ASSUME NEW c \in Calls, CacheStep(c) PROVE BookType'
  <2>1. CASE Store(c) BY <1>2, <2>1
  <2>2. CASE ~Store(c)
    <3>1. late' = late /\ book' = book /\ bookDir' = bookDir
          /\ (cacheDir' = cacheDir \/ cacheDir' \in BOOLEAN)
      BY <1>4, <2>2 DEF CacheStep, Hit, Miss, DownloadOwner, SecondMiss, Fetched, EnsureCache,
         Chmod, List, Stat, Evict, Downloaded, WriteFails
    <3> QED BY <1>3, <3>1
  <2> QED BY <2>1, <2>2
<1>5. ASSUME NEW c \in Calls, BookStep(c) PROVE BookType'
  <2>1. CASE Rename(c) BY <1>1, <2>1
  <2>2. CASE ~Rename(c)
    <3>1. late' = late /\ book' = book /\ cacheDir' = cacheDir
          /\ (bookDir' = bookDir \/ bookDir' \in BOOLEAN)
      BY <1>5, <2>2 DEF BookStep, UpdateOwner, Queued, Load, EnsureBook, UpdateRefused
    <3> QED BY <1>3, <3>1
  <2> QED BY <2>1, <2>2
<1>6. ASSUME NEW c \in Calls, ClearStep(c) PROVE BookType'
  <2>1. /\ late' = late /\ (book' = book \/ book' = NoBook)
        /\ cacheDir' = cacheDir \/ cacheDir' \in BOOLEAN
        /\ bookDir' = bookDir \/ bookDir' \in BOOLEAN
    BY <1>6 DEF ClearStep, ClearCore, EmptyCache, RemoveCache, EmptyBook, RemoveBook, Cleared,
       NotEmpty
  <2> QED BY <1>3, <2>1
<1>7. ASSUME NEW c \in Calls,
             \/ \E i \in Images : Download(c, i) \/ Send(c, i)
             \/ \E m \in Mutations : Update(c, m)
             \/ Clear(c) \/ Fails(c) \/ IdentityAnswers(c) \/ NotRegistered(c)
      PROVE  BookType'
  <2>1. UNCHANGED <<cacheDir, book, bookDir, late>>
    BY <1>7 DEF Download, Send, Update, Clear, Fails, IdentityAnswers, NotRegistered
  <2> QED BY <1>3, <2>1
<1>8. ASSUME (\E d \in Dids : Register(d)) \/ Reads \/ Crash \/ UNCHANGED localVars
      PROVE  BookType'
  <2>1. UNCHANGED <<cacheDir, book, bookDir, late>>
    BY <1>8 DEF Register, Reads, Crash, localVars
  <2> QED BY <1>3, <2>1
<1> QED BY <1>4, <1>5, <1>6, <1>7, <1>8 DEF LocalNext

\* The ghosts of the downloads.
GhostType == crowded \subseteq Calls /\ left \in Seq(Key)

LEMMA GhostTyped ==
  ASSUME BudgetAssumption, DataInv, TypeInv, [LocalNext]_localVars
  PROVE  GhostType'
<1> USE DEF Host, Cache, Book, At
<1>0. GhostType BY DEF TypeInv, GhostType
<1>1. ASSUME NEW c \in Calls, Evict(c) PROVE GhostType'
  <2> DEFINE ls == calls[c].listed
  <2>1. Typed(calls[c]) /\ calls[c].kind = "download" BY <1>1 DEF TypeInv, Evict
  <2>2. calls[c] \in DownloadCall BY <2>1, KindsOfCall DEF Typed
  <2>3. ls \in Seq(Key) BY <2>2 DEF DownloadCall
  <2>4. ls # <<>> BY <1>1, TotalEmpty DEF Evict, BudgetAssumption
  <2>5. Head(ls) \in Key BY <2>3, <2>4
  <2>6. crowded' = crowded /\ (left' = left \/ left' = Append(left, Head(ls)))
    BY <1>1 DEF Evict
  <2> HIDE DEF ls
  <2> QED BY <1>0, <2>5, <2>6 DEF GhostType
<1>2. CASE UNCHANGED <<crowded, left>> BY <1>0, <1>2 DEF GhostType
<1>3. ASSUME NEW c \in Calls, \E i \in Images : Download(c, i) \/ Send(c, i) PROVE GhostType'
  <2>1. Meets(c) BY <1>3 DEF Download, Send
  <2> QED BY <2>1 DEF Meets, GhostType
<1>4. ASSUME NEW c \in Calls, CacheStep(c) PROVE GhostType'
  <2>1. CASE Evict(c) BY <1>1, <2>1
  <2>2. CASE ~Evict(c)
    BY <1>2, <1>4, <2>2 DEF CacheStep, Hit, Miss, DownloadOwner, SecondMiss, Fetched, EnsureCache,
       Store, Chmod, List, Stat, Downloaded, WriteFails
  <2> QED BY <2>1, <2>2
<1>5. ASSUME NEW c \in Calls, BookStep(c) \/ ClearStep(c) PROVE GhostType'
  <2>1. UNCHANGED <<crowded, left>>
    BY <1>5 DEF BookStep, ClearStep, UpdateOwner, Load, EnsureBook, Rename, UpdateRefused,
       ClearCore, EmptyCache, RemoveCache, EmptyBook, RemoveBook, Cleared, NotEmpty
  <2> QED BY <1>2, <2>1
<1>6. ASSUME NEW c \in Calls,
             \/ \E m \in Mutations : Update(c, m)
             \/ Clear(c) \/ Fails(c) \/ IdentityAnswers(c) \/ NotRegistered(c)
      PROVE  GhostType'
  <2>1. UNCHANGED <<crowded, left>>
    BY <1>6 DEF Update, Clear, Fails, IdentityAnswers, NotRegistered
  <2> QED BY <1>2, <2>1
<1>7. ASSUME (\E d \in Dids : Register(d)) \/ Reads \/ Crash \/ UNCHANGED localVars
      PROVE  GhostType'
  <2>1. UNCHANGED <<crowded, left>> BY <1>7 DEF Register, Reads, Crash, localVars
  <2> QED BY <1>2, <2>1
<1> QED BY <1>3, <1>4, <1>5, <1>6, <1>7 DEF LocalNext

LEMMA TypeStep ==
  ASSUME BudgetAssumption, MaxEntries \in Nat, DataInv, TypeInv, [LocalNext]_localVars
  PROVE  TypeInv'
<1>1. IsInjective(files') /\ BookType' /\ GhostType'
  BY FilesOnce, BookTyped, GhostTyped DEF TypeInv
<1>2. \A k \in Calls : Typed(calls'[k])
  <2>1. ASSUME NEW c \in Calls, Ends(c) PROVE \A k \in Calls : Typed(calls'[k])
    BY <2>1, EndsTyped
  <2>2. ASSUME NEW c \in Calls, CacheStep(c) PROVE \A k \in Calls : Typed(calls'[k])
    <3>1. CASE Hit(c) \/ Downloaded(c) \/ WriteFails(c)
      BY <2>1, <3>1 DEF Hit, Downloaded, WriteFails
    <3>2. CASE \/ Miss(c) \/ DownloadOwner(c) \/ SecondMiss(c) \/ Fetched(c)
               \/ EnsureCache(c) \/ Store(c) \/ Chmod(c) \/ List(c) \/ Stat(c) \/ Evict(c)
      BY <3>2, DownloadsTyped
    <3> QED BY <2>2, <3>1, <3>2 DEF CacheStep
  <2>3. ASSUME NEW c \in Calls, BookStep(c) PROVE \A k \in Calls : Typed(calls'[k])
    <3>1. CASE Rename(c) \/ UpdateRefused(c) BY <2>1, <3>1 DEF Rename, UpdateRefused
    <3>2. CASE UpdateOwner(c) \/ Load(c) \/ EnsureBook(c) BY <3>2, UpdatesTyped
    <3> QED BY <2>3, <3>1, <3>2 DEF BookStep
  <2>4. ASSUME NEW c \in Calls, ClearStep(c) PROVE \A k \in Calls : Typed(calls'[k])
    <3>1. CASE Cleared(c) \/ NotEmpty(c) BY <2>1, <3>1 DEF Cleared, NotEmpty
    <3>2. CASE ClearCore(c) \/ EmptyCache(c) \/ RemoveCache(c) \/ EmptyBook(c) \/ RemoveBook(c)
      BY <3>2, ClearsTyped
    <3> QED BY <2>4, <3>1, <3>2 DEF ClearStep
  <2>5. ASSUME NEW c \in Calls,
               \/ \E i \in Images : Download(c, i) \/ Send(c, i)
               \/ \E m \in Mutations : Update(c, m)
               \/ Clear(c)
        PROVE  \A k \in Calls : Typed(calls'[k])
    BY <2>5, NewTyped
  <2>6. ASSUME NEW c \in Calls, Fails(c) \/ NotRegistered(c)
        PROVE  \A k \in Calls : Typed(calls'[k])
    BY <2>1, <2>6 DEF Fails, NotRegistered
  <2>7. ASSUME NEW c \in Calls, IdentityAnswers(c) PROVE \A k \in Calls : Typed(calls'[k])
    BY <2>7, DownloadsTyped, UpdatesTyped
  <2>8. ASSUME (\E d \in Dids : Register(d)) \/ Reads \/ UNCHANGED localVars
        PROVE  \A k \in Calls : Typed(calls'[k])
    <3>1. calls' = calls BY <2>8 DEF Register, Reads, localVars
    <3> QED BY <3>1 DEF TypeInv
  <2>9. ASSUME Crash PROVE \A k \in Calls : Typed(calls'[k])
    <3>1. \A k \in Calls : calls'[k] = Idle BY <2>9 DEF Crash
    <3>2. Typed(Idle) BY KindsOfCall DEF Typed, Idle
    <3> QED BY <3>1, <3>2
  <2> QED BY <2>2, <2>3, <2>4, <2>5, <2>6, <2>7, <2>8, <2>9 DEF LocalNext
<1> QED BY <1>1, <1>2 DEF TypeInv, BookType, GhostType

\* The types of the state, for any number of calls, identities and chats, failures and crashes.
\* A file of preferences is always one that load() accepts: no chat is hidden twice and neither
\* list is too long (conversation-preferences.ts:113), whatever was changed in which order.  The
\* cache has each image once, the queue are the updates that wait or write, and whoever waits,
\* waits for calls in flight.
THEOREM LocalTypes ==
  ASSUME BudgetAssumption, LocalDataAssumption
  PROVE  LocalSpec => []LocalTypeOK
<1>1. "none" \notin Dids /\ MaxEntries \in Nat BY DEF LocalDataAssumption
<1>2. LocalInit => TypeInv
  <2>1. Typed(Idle) BY KindsOfCall DEF Typed, Idle
  <2>2. IsInjective(<<>>) /\ DOMAIN NoBook = {} BY DEF IsInjective, NoBook
  <2>3. <<>> \in Seq(Key) OBVIOUS
  <2> QED BY <2>1, <2>2, <2>3 DEF LocalInit, TypeInv
<1>3. DataInv /\ TypeInv /\ [LocalNext]_localVars => TypeInv' BY <1>1, TypeStep
<1>4. DataInv /\ TypeInv => LocalTypeOK
  <2> SUFFICES ASSUME DataInv, TypeInv PROVE LocalTypeOK OBVIOUS
  <2>1. /\ identity \in [Dids -> {"new", "live", "gone", "cleared"}]
        /\ active \in Dids \cup {None} /\ files \in Seq(Key) /\ IsInjective(files)
        /\ cacheDir \in BOOLEAN /\ bookDir \in BOOLEAN /\ late \subseteq Dids
        /\ crowded \subseteq Calls /\ left \in Seq(Key) /\ DOMAIN book \subseteq Dids
    BY DEF DataInv, DataType, TypeInv, None
  <2>2. \A d \in DOMAIN book : book[d] \in Preferences BY <1>1, FitsIsValid DEF TypeInv
  <2>3. calls \in [Calls -> Call] BY DEF DataInv, DataType, TypeInv, Typed
  <2>4. IsInjective(queue) /\ ToSet(queue) = {c \in Calls : Updates(c)} BY DEF DataInv, InLine
  <2>5. \A c \in Calls : calls[c].kind = "clear" => calls[c].after \subseteq ToSet(queue)
    BY <2>4 DEF DataInv, OneClear, Clears
  <2> QED BY <2>1, <2>2, <2>3, <2>4, <2>5 DEF LocalTypeOK
<1>5. LocalSpec => []TypeInv BY <1>1, <1>2, <1>3, DataHolds, PTL DEF LocalSpec
<1> QED BY <1>1, <1>4, <1>5, DataHolds, PTL
=============================================================================
