---------------------- MODULE ClientConversationProofs ----------------------
(* Theorems about ClientConversation. *)
EXTENDS ClientConversation, FiniteSetTheorems, SequenceTheorems, TLAPS

InTasks == BagToSet(tasks)

\* What a task of each kind may be waiting for, and what it knows by then.
Shape(t) ==
  /\ t \in Task
  /\ t.visit => t.fresh
  /\ t.kind = "load" =>
       /\ t.at \in {"session", "access", "list", "roster", "history", "profiles"}
       /\ t.at \notin {"session", "access"} => "opens" \in t.how
  /\ t.kind = "poll"   => t.at \in {"roster", "history", "profiles"}
  /\ t.kind = "select" => t.at \in {"local", "remote", "committed"}
  /\ t.kind = "older"  => t.at = "answer"
  /\ t.kind \in {"send", "switch", "login", "logout"} => t.at \in {"change", "answer"}
  /\ t.kind = "switch" => t.owner \in Tenants
  /\ t.kind \in {"select", "older", "send"} \/ t.at \in {"history", "profiles"} =>
       t.conv \in Conversations \ {NoConversation}

Typed ==
  /\ host \in [tenant : Tenants, active : BOOLEAN, revoked : SUBSET Tenants]
  /\ sent \in [Conversations -> Nat]
  /\ cursor \in Nat
  /\ drawer \in BOOLEAN /\ timer \in BOOLEAN

\* The rows are those of the selected conversation, which the roster lists.
Views == [status : {"cold", "loading", "ready", "error"},
          session : {"unregistered", "signed-out", "active", "blocked"},
          identity : Tenants \cup {Nobody}, roster : SUBSET Conversations,
          selected : Conversations \cup {NoConversation},
          rows : Seq(Conversations \X Nat), more : BOOLEAN, busy : {"no", "local", "remote"}]
Shown(v) ==
  /\ v \in Views
  /\ \A r \in ToSet(v.rows) : r[1] = v.selected
  /\ v.selected = NoConversation => v.rows = <<>>
  /\ v.selected # NoConversation => v.selected \in v.roster

\* Without a drawer nothing current asks for more than the session.
Unmounted ==
  ~drawer =>
    /\ ~timer
    /\ \A t \in InTasks : t.fresh =>
         t.kind \in {"load", "switch", "login", "logout"} /\ "opens" \notin t.how

Base ==
  /\ Typed
  /\ \A t \in InTasks : Shape(t)
  /\ Shown(view)
  /\ Unmounted

-----------------------------------------------------------------------------
Loading(t) == t.fresh /\ t.kind \in {"load", "poll"}

\* There is one switch of tenants, and one current load, beside which nothing polls.
OneSwitch ==
  \A s \in InTasks : s.kind = "switch" =>
    tasks[s] = 1 /\ \A t \in InTasks : t.kind = "switch" => t = s
OneLoad ==
  \A l \in InTasks : l.kind = "load" /\ l.fresh =>
    tasks[l] = 1 /\ ~timer /\ \A t \in InTasks : Loading(t) => t = l

Moving == \E s \in InTasks : s.kind = "switch"

\* While tenants are switched, nothing is listed.
Quiet ==
  Moving =>
    /\ ~timer
    /\ drawer => view.status = "loading"
    /\ \A t \in InTasks : t.kind # "login"
    /\ \A t \in InTasks : Loading(t) => ~drawer /\ t.kind = "load" /\ "opens" \notin t.how

\* Otherwise the view and whatever is loading are of the tenant in force.
Steady ==
  ~Moving =>
    /\ view.identity \in {Nobody, host.tenant}
    /\ \A t \in InTasks : Loading(t) => t.owner \in {Nobody, host.tenant}

\* Whoever asks for a roster asks for that of an identity.
Listing ==
  \A t \in InTasks : t.fresh /\ t.at \in {"list", "roster"} => view.identity # Nobody

RosterInv ==
  OneSwitch /\ OneLoad /\ Quiet /\ Steady /\ Listing
    /\ view.roster \subseteq MailOf(view.identity)

-----------------------------------------------------------------------------
(* Pages and rows. *)

\* Each index of a finite set of naturals has a rank of its own, so each rank has an index.
LEMMA Ranks ==
  ASSUME NEW S \in SUBSET Nat, IsFiniteSet(S)
  PROVE  /\ Cardinality(S) \in Nat
         /\ \A i \in S : Cardinality({j \in S : j <= i}) \in 1..Cardinality(S)
         /\ \A n \in 1..Cardinality(S) : \E i \in S : Cardinality({j \in S : j <= i}) = n
         /\ \A i, k \in S : Cardinality({j \in S : j <= i}) = Cardinality({j \in S : j <= k}) => i = k
<1> DEFINE upto(i) == {j \in S : j <= i}
           rank == [i \in S |-> Cardinality(upto(i))]
<1>1. \A i \in S : /\ IsFiniteSet(upto(i)) /\ upto(i) \subseteq S
                   /\ Cardinality(upto(i)) \in 1..Cardinality(S)
  <2> SUFFICES ASSUME NEW i \in S
               PROVE  /\ IsFiniteSet(upto(i)) /\ upto(i) \subseteq S
                      /\ Cardinality(upto(i)) \in 1..Cardinality(S)
    OBVIOUS
  <2>1. IsFiniteSet(upto(i)) /\ Cardinality(upto(i)) <= Cardinality(S) BY FS_Subset
  <2>2. upto(i) # {} OBVIOUS
  <2>3. Cardinality(upto(i)) # 0 BY <2>1, <2>2, FS_EmptySet
  <2> QED BY <2>1, <2>3, FS_CardinalityType
<1>2. ASSUME NEW i \in S, NEW k \in S, i < k PROVE Cardinality(upto(i)) # Cardinality(upto(k))
  <2>1. /\ \A j \in S : j <= i => j <= k
        /\ k <= k /\ ~(k <= i)
    BY <1>2
  <2>3. upto(i) \in SUBSET upto(k) /\ k \in upto(k) /\ k \notin upto(i) BY <2>1
  <2>2. IsFiniteSet(upto(k)) BY <1>1
  <2> HIDE DEF upto
  <2> QED BY <2>3, <2>2, FS_Subset
<1>3. \A i, k \in S : Cardinality(upto(i)) = Cardinality(upto(k)) => i = k
  <2> SUFFICES ASSUME NEW i \in S, NEW k \in S, Cardinality(upto(i)) = Cardinality(upto(k))
               PROVE  i = k
    OBVIOUS
  <2>1. ~(i < k) /\ ~(k < i) BY <1>2
  <2> QED BY <2>1
<1> HIDE DEF upto
<1>4. rank \in Injection(S, 1..Cardinality(S)) BY <1>1, <1>3 DEF Injection, IsInjective
<1>5. IsFiniteSet(1..Cardinality(S)) /\ Cardinality(1..Cardinality(S)) = Cardinality(S)
  BY FS_Interval, FS_CardinalityType
<1>6. rank \in Surjection(S, 1..Cardinality(S)) BY <1>4, <1>5, FS_Injection
<1>7. \A n \in 1..Cardinality(S) : \E i \in S : Cardinality(upto(i)) = n BY <1>6 DEF Surjection
<1> QED BY <1>1, <1>3, <1>7, FS_CardinalityType DEF upto

LEMMA WithoutRows ==
  ASSUME NEW X, NEW rows \in Seq(X), NEW page
  PROVE  /\ Without(rows, page) \in Seq(X)
         /\ ToSet(Without(rows, page)) = ToSet(rows) \ ToSet(page)
         /\ IsInjective(rows) => IsInjective(Without(rows, page))
<1> DEFINE others == {i \in DOMAIN rows : rows[i] \notin ToSet(page)}
           Rank(i) == Cardinality({j \in others : j <= i})
           at(n) == CHOOSE i \in others : Rank(i) = n
           w == Without(rows, page)
<1>1. others \in SUBSET Nat /\ IsFiniteSet(others)
  <2>1. DOMAIN rows = 1..Len(rows) /\ Len(rows) \in Nat OBVIOUS
  <2>2. IsFiniteSet(1..Len(rows)) BY <2>1, FS_Interval
  <2> QED BY <2>1, <2>2, FS_Subset
<1>2. w = [n \in 1..Cardinality(others) |-> rows[at(n)]] BY DEF Without
<1> HIDE DEF w
<1>3. /\ Cardinality(others) \in Nat
      /\ \A i \in others : Rank(i) \in 1..Cardinality(others)
      /\ \A n \in 1..Cardinality(others) : \E i \in others : Rank(i) = n
      /\ \A i, k \in others : Rank(i) = Rank(k) => i = k
  BY <1>1, Ranks
<1> HIDE DEF Rank
<1>4. \A n \in 1..Cardinality(others) : at(n) \in others /\ Rank(at(n)) = n BY <1>3
<1>5. \A i \in others : at(Rank(i)) = i BY <1>3, <1>4
<1> HIDE DEF at
<1>6. others \subseteq DOMAIN rows /\ \A i \in DOMAIN rows : rows[i] \in X OBVIOUS
<1>7. w \in Seq(X)
  <2>1. \A n \in 1..Cardinality(others) : rows[at(n)] \in X BY <1>4, <1>6
  <2> QED BY <1>2, <1>3, <2>1
<1>8. DOMAIN w = 1..Cardinality(others) BY <1>2
<1>9. ToSet(w) = {rows[i] : i \in others}
  <2>1. ASSUME NEW x \in ToSet(w) PROVE x \in {rows[i] : i \in others}
    <3>1. PICK n \in DOMAIN w : x = w[n] BY DEF ToSet
    <3> QED BY <3>1, <1>8, <1>2, <1>4
  <2>2. ASSUME NEW i \in others PROVE rows[i] \in ToSet(w)
    <3>1. Rank(i) \in 1..Cardinality(others) /\ at(Rank(i)) = i BY <1>3, <1>5
    <3>2. w[Rank(i)] = rows[i] BY <3>1, <1>2
    <3> QED BY <3>1, <3>2, <1>8 DEF ToSet
  <2> QED BY <2>1, <2>2
<1>10. ASSUME IsInjective(rows) PROVE IsInjective(w)
  <2> SUFFICES ASSUME NEW m \in DOMAIN w, NEW n \in DOMAIN w, w[m] = w[n] PROVE m = n
    BY DEF IsInjective
  <2>1. at(m) \in others /\ at(n) \in others /\ rows[at(m)] = rows[at(n)] BY <1>2, <1>4, <1>8
  <2>2. at(m) = at(n) BY <1>6, <1>10, <2>1 DEF IsInjective
  <2> QED BY <1>4, <1>8, <2>2
<1> QED BY <1>7, <1>9, <1>10 DEF w, ToSet

LEMMA Joined ==
  ASSUME NEW X, NEW s \in Seq(X), NEW p \in Seq(X)
  PROVE  s \o p \in Seq(X) /\ ToSet(s \o p) = ToSet(s) \cup ToSet(p)
<1>1. s \o p \in Seq(X) /\ Len(s \o p) = Len(s) + Len(p) OBVIOUS
<1>2. /\ \A i \in 1..Len(s) : (s \o p)[i] = s[i]
      /\ \A i \in 1..Len(p) : (s \o p)[Len(s) + i] = p[i]
  OBVIOUS
<1>3. DOMAIN s = 1..Len(s) /\ DOMAIN p = 1..Len(p) /\ DOMAIN (s \o p) = 1..(Len(s) + Len(p))
      /\ Len(s) \in Nat /\ Len(p) \in Nat
  BY <1>1
<1> DEFINE w == s \o p
<1> HIDE DEF w
<1>4. ASSUME NEW i \in DOMAIN w PROVE w[i] \in ToSet(s) \cup ToSet(p)
  <2>1. CASE i \in 1..Len(s) BY <2>1, <1>2, <1>3 DEF ToSet, w
  <2>2. CASE i \notin 1..Len(s)
    <3>1. i - Len(s) \in 1..Len(p) /\ i = Len(s) + (i - Len(s)) BY <2>2, <1>3 DEF w
    <3> QED BY <3>1, <1>2, <1>3 DEF ToSet, w
  <2> QED BY <2>1, <2>2
<1>5. ASSUME NEW i \in DOMAIN s PROVE s[i] \in ToSet(w)
  BY <1>2, <1>3 DEF ToSet, w
<1>6. ASSUME NEW i \in DOMAIN p PROVE p[i] \in ToSet(w)
  <2>1. Len(s) + i \in DOMAIN w BY <1>3 DEF w
  <2> QED BY <2>1, <1>2, <1>3 DEF ToSet, w
<1> QED BY <1>1, <1>4, <1>5, <1>6 DEF ToSet, w

LEMMA JoinedOnce ==
  ASSUME NEW X, NEW s \in Seq(X), NEW p \in Seq(X), IsInjective(s), IsInjective(p),
         ToSet(s) \cap ToSet(p) = {}
  PROVE  IsInjective(s \o p)
<1> DEFINE w == s \o p
<1>1. /\ \A i \in 1..Len(s) : w[i] = s[i]
      /\ \A i \in 1..Len(p) : w[Len(s) + i] = p[i]
      /\ DOMAIN s = 1..Len(s) /\ DOMAIN p = 1..Len(p) /\ DOMAIN w = 1..(Len(s) + Len(p))
      /\ Len(s) \in Nat /\ Len(p) \in Nat
  OBVIOUS
<1> HIDE DEF w
<1>2. \A i \in DOMAIN w : i \in 1..Len(s) => w[i] \in ToSet(s) BY <1>1 DEF ToSet
<1>3. \A i \in DOMAIN w : i \notin 1..Len(s) =>
        i - Len(s) \in DOMAIN p /\ w[i] = p[i - Len(s)] /\ w[i] \in ToSet(p)
  <2> SUFFICES ASSUME NEW i \in DOMAIN w, i \notin 1..Len(s)
               PROVE  i - Len(s) \in DOMAIN p /\ w[i] = p[i - Len(s)] /\ w[i] \in ToSet(p)
    OBVIOUS
  <2>1. i - Len(s) \in 1..Len(p) /\ i = Len(s) + (i - Len(s)) BY <1>1
  <2> QED BY <1>1, <2>1 DEF ToSet
<1>4. ASSUME NEW i \in DOMAIN w, NEW j \in DOMAIN w, w[i] = w[j] PROVE i = j
  <2>1. CASE i \in 1..Len(s) /\ j \in 1..Len(s) BY <1>1, <1>4, <2>1 DEF IsInjective
  <2>2. CASE i \notin 1..Len(s) /\ j \notin 1..Len(s)
    <3>1. i - Len(s) = j - Len(s) BY <1>3, <1>4, <2>2 DEF IsInjective
    <3> QED BY <1>1, <3>1
  <2>3. CASE (i \in 1..Len(s)) # (j \in 1..Len(s)) BY <1>2, <1>3, <1>4, <2>3
  <2> QED BY <2>1, <2>2, <2>3
<1> QED BY <1>4 DEF w, IsInjective

\* Neither way of merging a page into the rows loses one or makes one up.
LEMMA Merged ==
  ASSUME NEW X, NEW rows \in Seq(X), NEW page \in Seq(X)
  PROVE  /\ MergeLatest(rows, page) \in Seq(X) /\ MergeOlder(rows, page) \in Seq(X)
         /\ ToSet(MergeLatest(rows, page)) = ToSet(rows) \cup ToSet(page)
         /\ ToSet(MergeOlder(rows, page)) = ToSet(rows) \cup ToSet(page)
<1>1. Without(rows, page) \in Seq(X) /\ ToSet(Without(rows, page)) = ToSet(rows) \ ToSet(page)
  BY WithoutRows
<1> QED BY <1>1, Joined DEF MergeLatest, MergeOlder

LEMMA Appended ==
  ASSUME NEW X, NEW rows \in Seq(X), NEW row \in X
  PROVE  /\ AppendRow(rows, row) \in Seq(X)
         /\ ToSet(AppendRow(rows, row)) = ToSet(rows) \cup {row}
<1>1. CASE row \in ToSet(rows) BY <1>1 DEF AppendRow
<1>2. CASE row \notin ToSet(rows)
  <2>1. Append(rows, row) = rows \o <<row>> /\ <<row>> \in Seq(X) OBVIOUS
  <2>2. ToSet(<<row>>) = {row} BY DEF ToSet
  <2>3. AppendRow(rows, row) = rows \o <<row>> BY <1>2, <2>1 DEF AppendRow
  <2>4. /\ rows \o <<row>> \in Seq(X)
        /\ ToSet(rows \o <<row>>) = ToSet(rows) \cup ToSet(<<row>>)
    BY <2>1, Joined
  <2> QED BY <2>2, <2>3, <2>4
<1> QED BY <1>1, <1>2

\* Merging shows no row twice, and takes a row that is there from its old place.
LEMMA MergedOnce ==
  ASSUME NEW X, NEW rows \in Seq(X), NEW page \in Seq(X), IsInjective(rows), IsInjective(page)
  PROVE  IsInjective(MergeLatest(rows, page)) /\ IsInjective(MergeOlder(rows, page))
<1> DEFINE w == Without(rows, page)
<1>1. w \in Seq(X) /\ ToSet(w) = ToSet(rows) \ ToSet(page) /\ IsInjective(w) BY WithoutRows
<1> HIDE DEF w
<1>2. ToSet(w) \cap ToSet(page) = {} /\ ToSet(page) \cap ToSet(w) = {} BY <1>1
<1>3. IsInjective(w \o page) /\ IsInjective(page \o w) BY <1>1, <1>2, JoinedOnce
<1> QED BY <1>3 DEF MergeLatest, MergeOlder, w

LEMMA AppendedOnce ==
  ASSUME NEW X, NEW rows \in Seq(X), NEW row \in X, IsInjective(rows)
  PROVE  IsInjective(AppendRow(rows, row))
<1>1. CASE row \in ToSet(rows) BY <1>1 DEF AppendRow
<1>2. CASE row \notin ToSet(rows)
  <2>1. Append(rows, row) = rows \o <<row>> /\ <<row>> \in Seq(X) OBVIOUS
  <2>2. ToSet(<<row>>) = {row} /\ IsInjective(<<row>>) BY DEF ToSet, IsInjective
  <2>3. AppendRow(rows, row) = rows \o <<row>> BY <1>2, <2>1 DEF AppendRow
  <2>4. ToSet(rows) \cap ToSet(<<row>>) = {} BY <1>2, <2>2
  <2> QED BY <2>1, <2>2, <2>3, <2>4, JoinedOnce
<1> QED BY <1>1, <1>2

LEMMA Paged ==
  ASSUME NEW c \in Conversations, NEW n \in Nat
  PROVE  /\ Page(c, n) \in Seq(Conversations \X Nat)
         /\ \A r \in ToSet(Page(c, n)) : r[1] = c
         /\ IsInjective(Page(c, n))
         /\ NextCursor(n) \in Nat
<1> DEFINE first == IF n > PageSize THEN n - PageSize + 1 ELSE 1
<1>1. first \in Nat /\ first >= 1 /\ first <= n + 1 BY BoundsAssumption
<1>2. Page(c, n) = [i \in 1..(n + 1 - first) |-> <<c, first + i - 1>>] BY DEF Page
<1>3. n + 1 - first \in Nat BY <1>1
<1>4. \A i \in 1..(n + 1 - first) : <<c, first + i - 1>> \in Conversations \X Nat BY <1>1
<1> HIDE DEF first
<1>5. Page(c, n) \in Seq(Conversations \X Nat) BY <1>2, <1>3, <1>4
<1>6. \A r \in ToSet(Page(c, n)) : r[1] = c BY <1>2 DEF ToSet
<1>7. IsInjective(Page(c, n))
  <2>1. DOMAIN Page(c, n) = 1..(n + 1 - first) BY <1>2
  <2>2. \A i \in 1..(n + 1 - first) : Page(c, n)[i][2] = first + i - 1 BY <1>2
  <2>3. \A i, j \in 1..(n + 1 - first) : first + i - 1 = first + j - 1 => i = j BY <1>1, <1>3
  <2> QED BY <2>1, <2>2, <2>3 DEF IsInjective
<1> QED BY <1>5, <1>6, <1>7, BoundsAssumption DEF NextCursor
-----------------------------------------------------------------------------
(* Tasks. *)

LEMMA Adding ==
  ASSUME NEW B, NEW x
  PROVE  LET C == BagAdd(B, x) IN
         /\ BagToSet(C) = BagToSet(B) \cup {x}
         /\ x \notin BagToSet(B) => C[x] = 1
         /\ \A y \in BagToSet(B) \ {x} : C[y] = B[y]
BY DEF BagAdd, BagToSet

LEMMA Removing ==
  ASSUME NEW B, NEW x \in BagToSet(B)
  PROVE  LET C == BagRemove(B, x) IN
         /\ BagToSet(C) \subseteq BagToSet(B) /\ BagToSet(B) \ {x} \subseteq BagToSet(C)
         /\ B[x] = 1 => x \notin BagToSet(C)
         /\ \A y \in BagToSet(C) \ {x} : C[y] = B[y]
BY DEF BagRemove, BagToSet

LEMMA Ended ==
  ASSUME NEW t \in InTasks, Ends(t)
  PROVE  /\ InTasks' \subseteq InTasks /\ InTasks \ {t} \subseteq InTasks'
         /\ tasks[t] = 1 => t \notin InTasks'
         /\ \A x \in InTasks' \ {t} : tasks'[x] = tasks[x]
BY Removing DEF InTasks, Ends, Others

LEMMA Became ==
  ASSUME NEW t \in InTasks, NEW u, Becomes(t, u)
  PROVE  /\ InTasks' \subseteq InTasks \cup {u} /\ InTasks \ {t} \subseteq InTasks' /\ u \in InTasks'
         /\ tasks[t] = 1 /\ u # t => t \notin InTasks'
         /\ u \notin InTasks => tasks'[u] = 1
         /\ \A x \in InTasks' \ {t, u} : tasks'[x] = tasks[x]
<1> DEFINE B == Others(t)
<1>1. /\ BagToSet(B) \subseteq InTasks /\ InTasks \ {t} \subseteq BagToSet(B)
      /\ tasks[t] = 1 => t \notin BagToSet(B)
      /\ \A x \in BagToSet(B) \ {t} : B[x] = tasks[x]
  BY Removing DEF InTasks, Others
<1>2. tasks' = BagAdd(B, u) BY DEF Becomes
<1> HIDE DEF B
<1>3. /\ InTasks' = BagToSet(B) \cup {u}
      /\ u \notin BagToSet(B) => tasks'[u] = 1
      /\ \A x \in BagToSet(B) \ {u} : tasks'[x] = B[x]
  BY <1>2, Adding DEF InTasks
<1> QED BY <1>1, <1>3

LEMMA Begun ==
  ASSUME NEW u, tasks' = BagAdd(tasks, u)
  PROVE  /\ InTasks' = InTasks \cup {u}
         /\ u \notin InTasks => tasks'[u] = 1
         /\ \A x \in InTasks \ {u} : tasks'[x] = tasks[x]
BY Adding DEF InTasks

Like(u, t) == u.kind = t.kind /\ u.at = t.at /\ u.how = t.how /\ u.owner = t.owner

LEMMA Fencing ==
  ASSUME NEW B, \A t \in BagToSet(B) : Shape(t)
  PROVE  \A u \in BagToSet(Fenced(B)) :
           ~u.fresh /\ Shape(u) /\ \E t \in BagToSet(B) : u = Fence(t) /\ Like(u, t)
<1> SUFFICES ASSUME NEW u \in BagToSet(Fenced(B))
             PROVE  ~u.fresh /\ Shape(u) /\ \E t \in BagToSet(B) : u = Fence(t) /\ Like(u, t)
  OBVIOUS
<1>1. PICK t \in BagToSet(B) : u = Fence(t) BY DEF Fenced, BagToSet
<1>2. Shape(t) OBVIOUS
<1>3. t \in Task BY <1>2 DEF Shape
<1>4. /\ u \in Task /\ ~u.fresh /\ ~u.visit /\ Like(u, t) /\ u.conv = t.conv
  BY <1>1, <1>3 DEF Fence, Task, Like
<1> QED BY <1>1, <1>2, <1>4 DEF Shape, Like

LEMMA Leaving ==
  ASSUME NEW B, \A t \in BagToSet(B) : Shape(t)
  PROVE  \A u \in BagToSet(Left(B)) :
           /\ Shape(u)
           /\ \E t \in BagToSet(B) : u = Leave(t) /\ Like(u, t) /\ u.fresh = t.fresh
<1> SUFFICES ASSUME NEW u \in BagToSet(Left(B))
             PROVE  /\ Shape(u)
                    /\ \E t \in BagToSet(B) : u = Leave(t) /\ Like(u, t) /\ u.fresh = t.fresh
  OBVIOUS
<1>1. PICK t \in BagToSet(B) : u = Leave(t) BY DEF Left, BagToSet
<1>2. Shape(t) OBVIOUS
<1>3. t \in Task BY <1>2 DEF Shape
<1>4. u \in Task /\ ~u.visit /\ Like(u, t) /\ u.conv = t.conv /\ u.fresh = t.fresh
  BY <1>1, <1>3 DEF Leave, Task, Like
<1> QED BY <1>1, <1>2, <1>4 DEF Shape, Like

\* Of the tasks that become alike, one that is alone stays alone.
LEMMA LeftAlone ==
  ASSUME NEW B, \A t \in BagToSet(B) : Shape(t), NEW s \in BagToSet(B), B[s] = 1,
         \A t \in BagToSet(B) : Leave(t) = Leave(s) => t = s
  PROVE  Left(B)[Leave(s)] = 1
<1> DEFINE l == Leave(s)
           v == [l EXCEPT !.visit = TRUE]
<1>1. s \in Task BY DEF Shape
<1>2. Left(B)[l] = Copies(l, B) + Copies(v, B) BY DEF Left
<1>3. Leave(l) = l /\ Leave(v) = l /\ v # l /\ s \in {l, v} BY <1>1 DEF Leave, Task
<1> HIDE DEF l, v
<1>4. CASE s = l
  <2>1. v \notin BagToSet(B) BY <1>3, <1>4 DEF l
  <2> QED BY <1>2, <1>4, <2>1 DEF Copies, l
<1>5. CASE s = v
  <2>1. l \notin BagToSet(B) BY <1>3, <1>5 DEF l
  <2> QED BY <1>2, <1>5, <2>1 DEF Copies, l
<1> QED BY <1>3, <1>4, <1>5

LEMMA FencedAlone ==
  ASSUME NEW B, \A t \in BagToSet(B) : Shape(t), NEW s \in BagToSet(B), B[s] = 1,
         \A t \in BagToSet(B) : Fence(t) = Fence(s) => t = s
  PROVE  Fenced(B)[Fence(s)] = 1
<1> DEFINE u == Fence(s)
           l == Leave(s)
           L == Left(B)
<1>1. s \in Task /\ (s.visit => s.fresh) BY DEF Shape
<1>2. /\ u \in Task /\ ~u.fresh /\ ~u.visit /\ l \in Task /\ l.fresh = s.fresh /\ ~l.visit
      /\ u = [s EXCEPT !.fresh = FALSE, !.visit = FALSE] /\ l = [s EXCEPT !.visit = FALSE]
  BY <1>1 DEF Fence, Leave, Task
<1>3. \A t \in BagToSet(B) : t \in Task /\ (t.visit => t.fresh) BY DEF Shape
<1>4. \A t \in BagToSet(B) : Leave(t) = l => t = s
  <2> SUFFICES ASSUME NEW t \in BagToSet(B), Leave(t) = l PROVE t = s OBVIOUS
  <2>1. t \in Task BY <1>3
  <2>2. Fence(t) = [Leave(t) EXCEPT !.fresh = FALSE] BY <2>1 DEF Fence, Leave, Task
  <2>3. Fence(s) = [l EXCEPT !.fresh = FALSE] BY <1>1 DEF Fence, Leave, Task
  <2> QED BY <2>2, <2>3
<1>5. L[l] = 1 BY <1>4, LeftAlone
<1>6. BagToSet(L) = {Leave(t) : t \in BagToSet(B)} BY DEF Left, BagToSet
<1> DEFINE w == [u EXCEPT !.fresh = TRUE]
<1>7. Fenced(B)[u] = Copies(u, L) + Copies(w, L) BY DEF Fenced
<1>8. \A x \in BagToSet(L) : [x EXCEPT !.fresh = FALSE] = u => x = l
  <2> SUFFICES ASSUME NEW t \in BagToSet(B), [Leave(t) EXCEPT !.fresh = FALSE] = u
               PROVE  Leave(t) = l
    BY <1>6
  <2>1. Fence(t) = [Leave(t) EXCEPT !.fresh = FALSE] BY <1>3 DEF Fence, Leave, Task
  <2> QED BY <2>1
<1>9. [u EXCEPT !.fresh = FALSE] = u /\ [w EXCEPT !.fresh = FALSE] = u /\ w # u BY <1>2 DEF Task
<1>10. l \in {u, w} /\ l \in BagToSet(L)
  <2>1. l \in {u, w} BY <1>1 DEF Fence, Leave, Task
  <2> QED BY <2>1, <1>6
<1> HIDE DEF L, l, u, w
<1>11. CASE l = u
  <2>1. w \notin BagToSet(L) BY <1>8, <1>9, <1>11
  <2> QED BY <1>5, <1>7, <1>10, <1>11, <2>1 DEF Copies, u
<1>12. CASE l = w
  <2>1. u \notin BagToSet(L) BY <1>8, <1>9, <1>12
  <2> QED BY <1>5, <1>7, <1>10, <1>12, <2>1 DEF Copies, u
<1> QED BY <1>10, <1>11, <1>12

-----------------------------------------------------------------------------
(* What a step may do to the view. *)

\* The steps that RowsKept and ClosedIsQuiet allow.
Kept == view'.selected = view.selected => ToSet(view.rows) \subseteq ToSet(view'.rows)
Calm == ~drawer /\ ~drawer' =>
          view'.rows \in {view.rows, <<>>} /\ view'.roster \subseteq view.roster
Fine == Shown(view') /\ Kept /\ Calm

LEMMA EmptySet == ToSet(<<>>) = {} BY DEF ToSet

LEMMA SeenBlank ==
  ASSUME Base, view' \in Views,
         view'.rows = <<>>, view'.roster = {}, view'.selected = NoConversation
  PROVE  Fine
BY EmptySet DEF Base, Shown, Fine, Kept, Calm

LEMMA SeenSame ==
  ASSUME Base, view' \in Views, view'.rows = view.rows, view'.selected = view.selected,
         view'.roster = view.roster \/ (drawer /\ view.roster \subseteq view'.roster)
  PROVE  Fine
BY DEF Base, Shown, Fine, Kept, Calm

LEMMA SeenRows ==
  ASSUME Base, drawer, view.selected # NoConversation, view' \in Views,
         view'.selected = view.selected, view'.roster = view.roster,
         NEW P, \A r \in P : r[1] = view.selected, ToSet(view'.rows) = ToSet(view.rows) \cup P
  PROVE  Fine
BY DEF Base, Shown, Fine, Kept, Calm

LEMMA SeenChoice ==
  ASSUME Base, drawer, view' \in Views, view'.roster = view.roster,
         view'.selected \in view.roster \cup {NoConversation},
         view'.rows = IF view'.selected = view.selected THEN view.rows ELSE <<>>
  PROVE  Fine
BY EmptySet DEF Base, Shown, Fine, Kept, Calm

LEMMA MailType ==
  \A who \in Tenants \cup {Nobody} : MailOf(who) \subseteq Conversations
BY DEF MailOf, Conversations

LEMMA WhoAnswers ==
  ASSUME Base
  PROVE  /\ HostIdentity \in Tenants \cup {Nobody} /\ HostIdentity \in {Nobody, host.tenant}
         /\ \A t \in InTasks : Identities(t) \subseteq Tenants \cup {Nobody}
BY DEF Base, Typed, Shape, Task, HostIdentity, Identities

\* The tasks that a step adds have the shape of their kind, and without a drawer they ask
\* for nothing more than the session.
LEMMA BaseStep ==
  ASSUME Base, Typed', Fine,
         \A x \in InTasks' : Shape(x),
         \A x \in InTasks' : drawer' \/ ~x.fresh \/ (x \in InTasks /\ ~drawer)
             \/ (x.kind \in {"load", "switch", "login", "logout"} /\ "opens" \notin x.how),
         timer' => drawer' \/ (timer /\ ~drawer)
  PROVE  Base'
BY DEF Base, Fine, Unmounted

-----------------------------------------------------------------------------
(* The steps of the drawer, and of the session. *)

LEMMA BlankView ==
  /\ InitialView \in Views /\ InitialView.rows = <<>> /\ InitialView.roster = {}
  /\ InitialView.selected = NoConversation /\ InitialView.identity = Nobody
  /\ InitialView.status = "cold"
  /\ \A v \in Views : v.rows \in Seq(Conversations \X Nat)
BY DEF InitialView, Views

LEMMA LoadingView ==
  LET v == [InitialView EXCEPT !.status = "loading"] IN
  /\ v \in Views /\ v.rows = <<>> /\ v.roster = {} /\ v.selected = NoConversation
  /\ v.identity = Nobody /\ v.status = "loading"
BY BlankView DEF Views

\* A task as New() makes it.
LEMMA NewShape ==
  ASSUME Base, NEW kind, NEW at,
         \/ kind = "poll" /\ at = "roster"
         \/ kind \in {"login", "logout"} /\ at = "change"
  PROVE  LET u == New(kind, at) IN
         /\ Shape(u) /\ u.kind = kind /\ u.at = at /\ u.how = {} /\ u.fresh
         /\ u.owner = HostIdentity
<1>1. HostIdentity \in Tenants \cup {Nobody} BY WhoAnswers
<1> QED BY <1>1 DEF New, Shape, Task

LEMMA LoadShape ==
  ASSUME Base, NEW how \in SUBSET {"opens", "keeps", "switches"}
  PROVE  LET u == NewLoad(how) IN
         /\ Shape(u) /\ u.kind = "load" /\ u.at = "session" /\ u.how = how /\ u.fresh
         /\ u.owner = HostIdentity
<1>1. HostIdentity \in Tenants \cup {Nobody} BY WhoAnswers
<1> QED BY <1>1 DEF NewLoad, New, Shape, Task

LEMMA TypedStep ==
  ASSUME Base, host' = host, sent' = sent, cursor' \in Nat, drawer' \in BOOLEAN, timer' \in BOOLEAN
  PROVE  Typed'
BY DEF Base, Typed

LEMMA LoadsStep ==
  ASSUME Base, NEW ts, BagToSet(ts) \subseteq InTasks,
         NEW how \in SUBSET {"opens", "keeps", "switches"}, "opens" \in how => drawer',
         Loads(ts, how), UNCHANGED remote, cursor' \in {cursor, 0}, drawer' \in BOOLEAN
  PROVE  /\ Base' /\ Kept /\ Calm
         /\ InTasks' = BagToSet(Fenced(ts)) \cup {NewLoad(how)}
         /\ NewLoad(how) \notin BagToSet(Fenced(ts)) /\ tasks'[NewLoad(how)] = 1
         /\ NewLoad(how).kind = "load" /\ NewLoad(how).how = how /\ NewLoad(how).fresh
         /\ NewLoad(how).owner = HostIdentity /\ NewLoad(how).at = "session"
<1> DEFINE l == NewLoad(how)
<1>1. /\ Shape(l) /\ l.kind = "load" /\ l.at = "session" /\ l.how = how /\ l.fresh
      /\ l.owner = HostIdentity
  BY LoadShape
<1>2. /\ tasks' = BagAdd(Fenced(ts), l) /\ timer' = FALSE
      /\ view' = IF "keeps" \in how THEN view ELSE [InitialView EXCEPT !.status = "loading"]
  BY DEF Loads
<1> HIDE DEF l
<1>3. \A u \in BagToSet(Fenced(ts)) : ~u.fresh /\ Shape(u) BY Fencing DEF Base
<1>4. l \notin BagToSet(Fenced(ts)) BY <1>1, <1>3
<1>5. InTasks' = BagToSet(Fenced(ts)) \cup {l} /\ tasks'[l] = 1
  BY <1>2, <1>4, Adding DEF InTasks
<1>6. Fine
  <2>1. CASE "keeps" \in how BY <2>1, <1>2, SeenSame DEF Base, Shown
  <2>2. CASE "keeps" \notin how BY <2>2, <1>2, SeenBlank, LoadingView
  <2> QED BY <2>1, <2>2
<1>7. Typed'
  <2>1. host' = host /\ sent' = sent BY DEF remote
  <2>2. timer' \in BOOLEAN BY <1>2
  <2>3. cursor \in Nat BY DEF Base, Typed
  <2>4. cursor' \in Nat BY <2>3
  <2> QED BY <2>1, <2>2, <2>4, TypedStep
<1>8. Base'
  <2>1. \A x \in InTasks' : Shape(x) BY <1>1, <1>3, <1>5
  <2>2. \A x \in InTasks' : drawer' \/ ~x.fresh
             \/ (x.kind \in {"load", "switch", "login", "logout"} /\ "opens" \notin x.how)
    BY <1>1, <1>3, <1>5
  <2> QED BY <1>2, <1>6, <1>7, <2>1, <2>2, BaseStep
<1> QED BY <1>1, <1>4, <1>5, <1>6, <1>8 DEF l, Fine
Safe == Base' /\ Kept /\ Calm

LEMMA OpensStep ==
  ASSUME Base, NEW ts, BagToSet(ts) \subseteq InTasks, Opens(ts), UNCHANGED remote, cursor' = cursor
  PROVE  Safe
<1>1. drawer' = TRUE BY DEF Opens
<1>2. CASE Switching \/ Opening
  <2>1. tasks' = ts /\ view' = view /\ timer' = timer BY <1>2 DEF Opens
  <2>2. InTasks' \subseteq InTasks BY <2>1 DEF InTasks
  <2>3. Fine BY <2>1, SeenSame DEF Base, Shown
  <2>4. host' = host /\ sent' = sent BY DEF remote
  <2>5. cursor' \in Nat /\ timer' \in BOOLEAN BY <2>1 DEF Base, Typed
  <2>6. Typed' BY <1>1, <2>4, <2>5, TypedStep
  <2>7. \A x \in InTasks' : Shape(x) BY <2>2 DEF Base
  <2> QED BY <1>1, <2>3, <2>6, <2>7, BaseStep DEF Safe, Fine
<1>3. CASE ~(Switching \/ Opening)
  <2>1. Loads(ts, {"opens"} \cup Keeping) BY <1>3 DEF Opens
  <2>2. {"opens"} \cup Keeping \in SUBSET {"opens", "keeps", "switches"} BY DEF Keeping
  <2> QED BY <1>1, <2>1, <2>2, LoadsStep DEF Safe
<1> QED BY <1>2, <1>3

LEMMA ClosesStep ==
  ASSUME Base, NEW ts, BagToSet(ts) \subseteq InTasks, NEW v, Closes(ts, v), Fine,
         UNCHANGED remote, cursor' \in {cursor, 0}
  PROVE  Safe
<1>1. tasks' = Fenced(ts) /\ drawer' = FALSE /\ timer' = FALSE BY DEF Closes
<1>2. \A u \in InTasks' : ~u.fresh /\ Shape(u) BY <1>1, Fencing DEF Base, InTasks
<1>3. host' = host /\ sent' = sent BY DEF remote
<1>4. cursor \in Nat BY DEF Base, Typed
<1>5. cursor' \in Nat BY <1>4
<1>6. Typed' BY <1>1, <1>3, <1>5, TypedStep
<1> QED BY <1>1, <1>2, <1>6, BaseStep DEF Safe, Fine

\* The drawer and the Host stay, and a task ends or goes on.
LEMMA EndsStep ==
  ASSUME Base, NEW t \in InTasks, Ends(t), Fine, UNCHANGED <<remote, drawer>>, cursor' \in Nat,
         timer' = timer \/ timer' = (timer \/ (t.fresh /\ drawer))
  PROVE  Safe
<1>1. InTasks' \subseteq InTasks BY Ended
<1>2. host' = host /\ sent' = sent /\ drawer' = drawer BY DEF remote
<1>3. timer' \in BOOLEAN /\ drawer' \in BOOLEAN BY <1>2 DEF Base, Typed
<1>4. Typed' BY <1>2, <1>3, TypedStep
<1>5. \A x \in InTasks' : Shape(x) BY <1>1 DEF Base
<1>6. timer' => drawer' \/ (timer /\ ~drawer)
  <2>1. timer' => timer \/ drawer OBVIOUS
  <2>2. drawer' <=> drawer BY <1>2
  <2> QED BY <2>1, <2>2
<1>7. \A x \in InTasks' : drawer' \/ (x \in InTasks /\ ~drawer) BY <1>1, <1>2, <1>3
<1> QED BY <1>4, <1>5, <1>6, <1>7, BaseStep DEF Safe, Fine

LEMMA BecomesStep ==
  ASSUME Base, NEW t \in InTasks, NEW u, Becomes(t, u), Shape(u), Typed', Fine,
         drawer' = drawer, timer' = timer,
         \/ drawer \/ ~u.fresh
         \/ u.kind \in {"load", "switch", "login", "logout"} /\ "opens" \notin u.how
  PROVE  Safe
<1>1. InTasks' \subseteq InTasks \cup {u} BY Became
<1>2. \A x \in InTasks' : Shape(x) BY <1>1 DEF Base
<1>3. drawer \in BOOLEAN BY DEF Base, Typed
<1>4. timer' => drawer' \/ (timer /\ ~drawer) BY <1>3
<1>5. \A x \in InTasks' : drawer' \/ ~x.fresh \/ (x \in InTasks /\ ~drawer)
             \/ (x.kind \in {"load", "switch", "login", "logout"} /\ "opens" \notin x.how)
  BY <1>1, <1>3
<1> QED BY <1>2, <1>4, <1>5, BaseStep DEF Safe, Fine

LEMMA BeginsStep ==
  ASSUME Base, NEW u, tasks' = BagAdd(tasks, u), Shape(u), Fine, UNCHANGED <<remote, drawer, timer>>,
         cursor' \in Nat, drawer \/ (u.kind = "login" /\ u.how = {})
  PROVE  Safe
<1>1. InTasks' = InTasks \cup {u} BY Begun
<1>2. \A x \in InTasks' : Shape(x) BY <1>1 DEF Base
<1>3. host' = host /\ sent' = sent BY DEF remote
<1>4. drawer \in BOOLEAN /\ timer' \in BOOLEAN BY DEF Base, Typed
<1>5. Typed' BY <1>3, <1>4, TypedStep
<1>6. timer' => drawer' \/ (timer /\ ~drawer) BY <1>4
<1>7. \A x \in InTasks' : drawer' \/ (x \in InTasks /\ ~drawer)
             \/ (x.kind \in {"load", "switch", "login", "logout"} /\ "opens" \notin x.how)
  BY <1>1, <1>4
<1> QED BY <1>2, <1>5, <1>6, <1>7, BaseStep DEF Safe, Fine

\* What is current and goes beyond the session has a drawer.
LEMMA Mounted ==
  ASSUME Base, NEW t \in InTasks, t.fresh,
         t.at \notin {"session", "access", "change", "answer"} \/ t.kind \in {"older", "send"}
             \/ "opens" \in t.how
  PROVE  drawer
BY DEF Base, Unmounted, Shape
LEMMA Known ==
  ASSUME Base, NEW t \in InTasks
  PROVE  /\ t \in Task /\ Shape(t) /\ HostIdentity \in Tenants \cup {Nobody}
         /\ view \in Views /\ cursor \in Nat /\ drawer \in BOOLEAN /\ timer \in BOOLEAN
         /\ \A c \in Conversations : sent[c] \in Nat
BY WhoAnswers DEF Base, Shape, Shown, Typed

\* Goes() and Reads() keep the kind of a task and what it was begun with.
LEMMA GoesShape ==
  ASSUME Base, NEW t \in InTasks,
         NEW at \in {"access", "list", "roster"}, t.kind \in {"load", "poll"},
         at \in {"access", "list"} => t.kind = "load", at # "access" /\ t.kind = "load" => "opens" \in t.how
  PROVE  LET u == [t EXCEPT !.at = at, !.owner = HostIdentity] IN
         /\ Shape(u) /\ u.kind = t.kind /\ u.how = t.how /\ u.fresh = t.fresh /\ u.at = at
         /\ u.owner = HostIdentity
<1> DEFINE u == [t EXCEPT !.at = at, !.owner = HostIdentity]
<1>1. /\ u \in Task /\ u.kind = t.kind /\ u.how = t.how /\ u.fresh = t.fresh /\ u.at = at
      /\ u.owner = HostIdentity /\ u.visit = t.visit /\ u.conv = t.conv
  BY Known DEF Task
<1>2. Shape(t) BY Known
<1> HIDE DEF u
<1>3. Shape(u) BY <1>1, <1>2 DEF Shape
<1> QED BY <1>1, <1>3 DEF u

LEMMA ReadsShape ==
  ASSUME Base, NEW t \in InTasks, NEW c \in Conversations \ {NoConversation}, NEW at, Reads(t, at, c),
         \/ at = "history" /\ t.kind = "poll"
         \/ at = "history" /\ t.kind = "load" /\ "opens" \in t.how
         \/ at = "remote" /\ t.kind = "select"
  PROVE  \E u : /\ Becomes(t, u)
               /\ Shape(u) /\ u.kind = t.kind /\ u.how = t.how /\ u.fresh = t.fresh /\ u.at = at
               /\ u.owner = HostIdentity
<1> DEFINE u == [t EXCEPT !.at = at, !.owner = HostIdentity, !.conv = c, !.floor = sent[c]]
<1>1. /\ u \in Task /\ u.kind = t.kind /\ u.how = t.how /\ u.fresh = t.fresh /\ u.at = at
      /\ u.owner = HostIdentity /\ u.visit = t.visit /\ u.conv = c
  BY Known DEF Task
<1>2. Shape(t) BY Known
<1>3. Becomes(t, u) BY DEF Reads
<1> HIDE DEF u
<1>4. Shape(u) BY <1>1, <1>2 DEF Shape
<1> QED BY <1>1, <1>3, <1>4

\* The same task further on, without another request.
Further(t, u) ==
  /\ u \in Task /\ u.kind = t.kind /\ u.how = t.how /\ u.fresh = t.fresh /\ u.visit = t.visit
  /\ u.owner = t.owner /\ u.conv = t.conv

LEMMA NextShape ==
  ASSUME Base, NEW t \in InTasks, NEW u, Further(t, u),
         \/ t.at = "history" /\ u.at = "profiles"
         \/ t.kind = "select" /\ u.at = "committed"
         \/ t.kind \in {"send", "switch", "login", "logout"} /\ u.at = "answer"
  PROVE  Shape(u)
BY Known DEF Shape, Further

LEMMA LoadAnswersSafe ==
  ASSUME Base, NEW t \in InTasks, LoadAnswers(t)
  PROVE  Safe
<1>1. /\ Is(t, "load", "session") /\ UNCHANGED <<remote, drawer>> /\ cursor' = cursor
  BY DEF LoadAnswers
<1>2. cursor' \in Nat /\ view \in Views /\ t \in Task BY <1>1, Known
<1>3. CASE ~t.fresh /\ Ends(t) /\ UNCHANGED <<view, timer>>
  <2>1. Fine BY <1>2, <1>3, SeenSame
  <2> QED BY <1>1, <1>2, <1>3, <2>1, EndsStep
<1>4. ASSUME t.fresh, NEW who \in Identities(t), Goes(t, "access"), UNCHANGED timer,
             LET session == IF who = Nobody THEN "signed-out" ELSE "active"
                 same == "keeps" \in t.how /\ view.identity = who /\ view.session = session
             IN view' = [(IF same THEN view ELSE InitialView) EXCEPT
                          !.status = "ready", !.session = session, !.identity = who]
      PROVE  Safe
  <2>1. who \in Tenants \cup {Nobody} BY WhoAnswers
  <2> DEFINE session == IF who = Nobody THEN "signed-out" ELSE "active"
             v == IF "keeps" \in t.how /\ view.identity = who /\ view.session = session
                  THEN view ELSE InitialView
  <2>2. view' = [v EXCEPT !.status = "ready", !.session = session, !.identity = who] BY <1>4
  <2>3. v \in {view, InitialView} /\ v \in Views BY <1>2, BlankView
  <2>4. session \in {"signed-out", "active"} OBVIOUS
  <2> HIDE DEF v, session
  <2>5. /\ view' \in Views /\ view'.rows = v.rows /\ view'.roster = v.roster
        /\ view'.selected = v.selected
    BY <2>1, <2>2, <2>3, <2>4 DEF Views
  <2>6. Fine
    <3>1. CASE v = view BY <3>1, <2>5, SeenSame
    <3>2. CASE v = InitialView BY <3>2, <2>5, BlankView, SeenBlank
    <3> QED BY <2>3, <3>1, <3>2
  <2> DEFINE u == [t EXCEPT !.at = "access", !.owner = HostIdentity]
  <2>7. Shape(u) /\ u.kind = "load" /\ u.how = t.how /\ Becomes(t, u)
    BY <1>1, <1>4, GoesShape DEF Is, Goes
  <2>8. drawer \/ "opens" \notin u.how BY <2>7, <1>4, Mounted
  <2>9. host' = host /\ sent' = sent BY <1>1 DEF remote
  <2>10. drawer' = drawer /\ timer' = timer /\ drawer' \in BOOLEAN /\ timer' \in BOOLEAN
    BY <1>1, <1>4, Known
  <2>11. Typed' BY <1>2, <2>9, <2>10, TypedStep
  <2> HIDE DEF u
  <2> QED BY <2>6, <2>7, <2>8, <2>10, <2>11, BecomesStep
<1>5. ASSUME t.fresh, view' = [view EXCEPT !.status = IF @ = "loading" THEN "error" ELSE @],
             IF GoesOnWithout(t) THEN Opened(t) ELSE Ends(t) /\ UNCHANGED timer
      PROVE  Safe
  <2>1. view' \in Views /\ view'.rows = view.rows /\ view'.roster = view.roster
        /\ view'.selected = view.selected
    BY <1>2, <1>5 DEF Views
  <2>2. Fine BY <2>1, SeenSame
  <2>3. Ends(t) /\ (timer' = timer \/ timer' = (timer \/ (t.fresh /\ drawer))) BY <1>5 DEF Opened
  <2> QED BY <1>1, <1>2, <2>2, <2>3, EndsStep
<1> QED BY <1>3, <1>4, <1>5 DEF LoadAnswers

LEMMA LoadReadySafe ==
  ASSUME Base, NEW t \in InTasks, LoadReady(t)
  PROVE  Safe
<1>1. /\ Is(t, "load", "access") /\ UNCHANGED <<remote, drawer>> /\ cursor' = cursor /\ view' = view
  BY DEF LoadReady
<1>2. cursor' \in Nat /\ view \in Views /\ t \in Task BY <1>1, Known
<1>3. Fine BY <1>1, <1>2, SeenSame
<1>4. CASE Ends(t) /\ UNCHANGED timer BY <1>1, <1>2, <1>3, <1>4, EndsStep
<1>5. CASE Opened(t) BY <1>1, <1>2, <1>3, <1>5, EndsStep DEF Opened
<1>6. CASE drawer /\ "opens" \in t.how /\ Goes(t, "list") /\ UNCHANGED timer
  <2> DEFINE u == [t EXCEPT !.at = "list", !.owner = HostIdentity]
  <2>1. Shape(u) /\ Becomes(t, u) BY <1>1, <1>6, GoesShape DEF Is, Goes
  <2>2. host' = host /\ sent' = sent BY <1>1 DEF remote
  <2>3. drawer' = drawer /\ timer' = timer /\ drawer' \in BOOLEAN /\ timer' \in BOOLEAN
    BY <1>1, <1>6, Known
  <2>4. Typed' BY <1>2, <2>2, <2>3, TypedStep
  <2> HIDE DEF u
  <2> QED BY <1>3, <1>6, <2>1, <2>3, <2>4, BecomesStep
<1> QED BY <1>4, <1>5, <1>6 DEF LoadReady
LEMMA BlocksSafe ==
  ASSUME Base, NEW t \in InTasks, Blocks(t), UNCHANGED remote
  PROVE  Safe
<1>1. CASE /\ Ends(t) /\ UNCHANGED <<view, cursor, drawer, timer>>
  <2>1. Fine BY <1>1, Known, SeenSame
  <2> QED BY <1>1, <2>1, Known, EndsStep
<1>2. CASE /\ Closes(Others(t), [InitialView EXCEPT !.status = "ready", !.session = "blocked",
                                                   !.identity = view.identity])
           /\ cursor' = 0
  <2>1. view' = [InitialView EXCEPT !.status = "ready", !.session = "blocked",
                                    !.identity = view.identity]
    BY <1>2 DEF Closes
  <2>2. view.identity \in Tenants \cup {Nobody} BY Known DEF Views
  <2>3. /\ view' \in Views /\ view'.rows = <<>> /\ view'.roster = {}
        /\ view'.selected = NoConversation
    BY <2>1, <2>2, BlankView DEF Views
  <2>4. Fine BY <2>3, SeenBlank
  <2>5. BagToSet(Others(t)) \subseteq InTasks BY Removing DEF Others, InTasks
  <2> QED BY <1>2, <2>4, <2>5, ClosesStep
<1> QED BY <1>1, <1>2 DEF Blocks

\* A roster that is listed has a drawer.
LEMMA ListsFine ==
  ASSUME Base, NEW t \in InTasks, t.at \in {"list", "roster"}, Lists(t)
  PROVE  Fine
<1>1. view \in Views /\ t \in Task BY Known
<1>2. ASSUME t.fresh, NEW who \in Identities(t),
             view' = [view EXCEPT !.roster = Mail[who] \cup @], who # Nobody
      PROVE  Fine
  <2>1. drawer BY <1>2, Mounted
  <2>2. MailOf(who) = Mail[who] /\ MailOf(who) \subseteq Conversations
    BY <1>2, WhoAnswers, MailType DEF MailOf
  <2>3. /\ view' \in Views /\ view'.rows = view.rows /\ view'.selected = view.selected
        /\ view.roster \subseteq view'.roster
    BY <1>1, <1>2, <2>2 DEF Views
  <2> QED BY <2>1, <2>3, SeenSame
<1>3. CASE UNCHANGED view BY <1>1, <1>3, SeenSame
<1> QED BY <1>2, <1>3 DEF Lists

LEMMA LoadListSafe ==
  ASSUME Base, NEW t \in InTasks, LoadList(t)
  PROVE  Safe
<1>1. Is(t, "load", "list") /\ UNCHANGED remote BY DEF LoadList
<1>2. CASE Blocks(t) BY <1>1, <1>2, BlocksSafe
<1>3. CASE /\ Lists(t) /\ UNCHANGED <<cursor, drawer>>
           /\ Goes(t, "roster") /\ UNCHANGED timer
  <2> DEFINE u == [t EXCEPT !.at = "roster", !.owner = HostIdentity]
  <2>1. t \in Task /\ Shape(t) /\ drawer \in BOOLEAN /\ timer \in BOOLEAN /\ cursor \in Nat BY Known
  <2>2. "opens" \in t.how BY <1>1, <2>1 DEF Is, Shape
  <2>3. Shape(u) /\ u.fresh = t.fresh /\ Becomes(t, u) BY <1>1, <1>3, <2>2, GoesShape DEF Is, Goes
  <2>4. Fine BY <1>1, <1>3, ListsFine DEF Is
  <2>5. drawer \/ ~u.fresh BY <2>2, <2>3, Mounted
  <2>6. host' = host /\ sent' = sent BY <1>1 DEF remote
  <2>7. Typed' BY <1>3, <2>1, <2>6, TypedStep
  <2> HIDE DEF u
  <2> QED BY <1>3, <2>3, <2>4, <2>5, <2>7, BecomesStep
<1>4. CASE Lists(t) /\ UNCHANGED <<cursor, drawer>> /\ Opened(t)
  <2>1. Fine BY <1>1, <1>4, ListsFine DEF Is
  <2> QED BY <1>1, <1>4, <2>1, Known, EndsStep DEF Opened
<1> QED BY <1>2, <1>3, <1>4 DEF LoadList

LEMMA PolledStep ==
  ASSUME Base, NEW t \in InTasks, Polled(t), Fine, UNCHANGED <<remote, drawer>>, cursor' = cursor
  PROVE  Safe
<1>1. Ends(t) /\ (timer' = timer \/ timer' = (timer \/ (t.fresh /\ drawer)))
  BY DEF Polled, Opened
<1> QED BY <1>1, Known, EndsStep

\* poll() belongs to the interval, or to a load that opens the drawer.
LEMMA Polling ==
  ASSUME Base, NEW t \in InTasks, t.at \in {"roster", "history", "profiles"}
  PROVE  /\ t.kind = "poll" \/ (t.kind = "load" /\ "opens" \in t.how)
         /\ t.at # "roster" => t.conv \in Conversations \ {NoConversation}
         /\ t.fresh => drawer
BY Known, Mounted DEF Shape, Task

LEMMA PollRosterSafe ==
  ASSUME Base, NEW t \in InTasks, PollRoster(t)
  PROVE  Safe
<1>1. t.at = "roster" /\ UNCHANGED remote BY DEF PollRoster
<1>2. CASE Blocks(t) BY <1>1, <1>2, BlocksSafe
<1>3. CASE /\ Lists(t) /\ UNCHANGED <<cursor, drawer>>
           /\ view.selected # NoConversation
           /\ Reads(t, "history", view.selected) /\ UNCHANGED timer
  <2>1. drawer \in BOOLEAN /\ timer \in BOOLEAN /\ cursor \in Nat BY Known
  <2>2. view.selected \in Conversations \ {NoConversation} BY <1>3, Known DEF Views
  <2>8. t.kind = "poll" \/ (t.kind = "load" /\ "opens" \in t.how) BY <1>1, Polling
  <2>3. PICK u : Becomes(t, u) /\ Shape(u) /\ u.fresh = t.fresh BY <1>3, <2>2, <2>8, ReadsShape
  <2>4. Fine BY <1>1, <1>3, ListsFine
  <2>5. drawer \/ ~u.fresh BY <1>1, <2>3, Polling
  <2>6. host' = host /\ sent' = sent BY <1>1 DEF remote
  <2>7. Typed' BY <1>3, <2>1, <2>6, TypedStep
  <2> QED BY <1>3, <2>3, <2>4, <2>5, <2>7, BecomesStep
<1>4. CASE Lists(t) /\ UNCHANGED <<cursor, drawer>> /\ Polled(t)
  <2>1. Fine BY <1>1, <1>4, ListsFine
  <2> QED BY <1>1, <1>4, <2>1, PolledStep
<1> QED BY <1>2, <1>3, <1>4 DEF PollRoster

\* A page, and the lengths it may show.
LEMMA Answered ==
  ASSUME Base, NEW t \in InTasks, t.conv \in Conversations
  PROVE  /\ Lengths(t) \subseteq Nat /\ t.top \in Nat /\ t.floor \in Nat
         /\ \A n \in Nat : /\ Page(t.conv, n) \in Seq(Conversations \X Nat)
                           /\ \A r \in ToSet(Page(t.conv, n)) : r[1] = t.conv
                           /\ NextCursor(n) \in Nat
<1>1. t.floor \in Nat /\ t.top \in Nat BY Known DEF Task
<1>2. sent[t.conv] \in Nat BY Known
<1>3. Lengths(t) \subseteq Nat BY <1>1, <1>2 DEF Lengths
<1>4. \A n \in Nat : /\ Page(t.conv, n) \in Seq(Conversations \X Nat)
                     /\ \A r \in ToSet(Page(t.conv, n)) : r[1] = t.conv
                     /\ NextCursor(n) \in Nat
  BY Paged
<1> QED BY <1>1, <1>3, <1>4

\* The rows of a page of the selected conversation are merged into the view.
LEMMA PageFine ==
  ASSUME Base, NEW t \in InTasks, drawer, StillSelected(t), t.conv \in Conversations \ {NoConversation},
         NEW n \in Nat, view' \in Views, view'.selected = view.selected, view'.roster = view.roster,
         view'.rows \in {MergeLatest(view.rows, Page(t.conv, n)), MergeOlder(view.rows, Page(t.conv, n))}
  PROVE  Fine
<1>1. view.selected = t.conv /\ view.rows \in Seq(Conversations \X Nat)
  BY Known DEF StillSelected, Views
<1>2. /\ Page(t.conv, n) \in Seq(Conversations \X Nat)
      /\ \A r \in ToSet(Page(t.conv, n)) : r[1] = t.conv
  BY Answered
<1>3. ToSet(view'.rows) = ToSet(view.rows) \cup ToSet(Page(t.conv, n)) BY <1>1, <1>2, Merged
<1> QED BY <1>1, <1>2, <1>3, SeenRows

LEMMA MergedRows ==
  ASSUME Base, NEW t \in InTasks, t.conv \in Conversations, NEW n \in Nat
  PROVE  /\ MergeLatest(view.rows, Page(t.conv, n)) \in Seq(Conversations \X Nat)
         /\ MergeOlder(view.rows, Page(t.conv, n)) \in Seq(Conversations \X Nat)
<1>1. view.rows \in Seq(Conversations \X Nat) BY Known DEF Views
<1>2. Page(t.conv, n) \in Seq(Conversations \X Nat) BY Answered
<1> QED BY <1>1, <1>2, Merged

LEMMA PollHistorySafe ==
  ASSUME Base, NEW t \in InTasks, PollHistory(t)
  PROVE  Safe
<1>1. t.at = "history" /\ UNCHANGED remote /\ cursor' = cursor /\ drawer' = drawer BY DEF PollHistory
<1>2. t.conv \in Conversations \ {NoConversation} /\ view \in Views /\ t \in Task
  BY <1>1, Polling, Known
<1>3. ASSUME StillSelected(t), NEW n \in Lengths(t), view.rows = <<>>,
             view' = [view EXCEPT !.rows = Page(t.conv, n)], Polled(t)
      PROVE  Safe
  <2>1. n \in Nat /\ Page(t.conv, n) \in Seq(Conversations \X Nat)
        /\ \A r \in ToSet(Page(t.conv, n)) : r[1] = t.conv
    BY <1>2, Answered
  <2>2. drawer /\ view.selected = t.conv BY <1>1, <1>3, Polling DEF StillSelected
  <2>3. /\ view' \in Views /\ view'.selected = view.selected /\ view'.roster = view.roster
        /\ view'.rows = Page(t.conv, n)
    BY <1>2, <1>3, <2>1 DEF Views
  <2>4. ToSet(view'.rows) = ToSet(view.rows) \cup ToSet(Page(t.conv, n))
    BY <1>3, <2>3, EmptySet
  <2>5. Fine BY <1>2, <2>1, <2>2, <2>3, <2>4, SeenRows
  <2> QED BY <1>1, <1>3, <2>5, PolledStep
<1>4. ASSUME StillSelected(t), NEW n \in Lengths(t), UNCHANGED <<view, timer>>,
             Becomes(t, [t EXCEPT !.at = "profiles", !.top = n])
      PROVE  Safe
  <2> DEFINE u == [t EXCEPT !.at = "profiles", !.top = n]
  <2>1. n \in Nat BY <1>2, Answered
  <2>8. Further(t, u) /\ u.at = "profiles" BY <1>2, <2>1 DEF Task, Further
  <2>9. Becomes(t, u) BY <1>4
  <2> HIDE DEF u
  <2>2. Shape(u) BY <1>1, <2>8, NextShape
  <2>3. Fine BY <1>2, <1>4, SeenSame
  <2>4. drawer BY <1>1, <1>4, Polling DEF StillSelected
  <2>5. host' = host /\ sent' = sent BY <1>1 DEF remote
  <2>6. cursor' \in Nat /\ drawer' \in BOOLEAN /\ timer' \in BOOLEAN BY <1>1, <1>4, Known
  <2>7. Typed' BY <2>5, <2>6, TypedStep
  <2> QED BY <1>1, <1>4, <2>2, <2>9, <2>3, <2>4, <2>7, BecomesStep
<1>5. CASE Polled(t) /\ UNCHANGED view
  <2>1. Fine BY <1>2, <1>5, SeenSame
  <2> QED BY <1>1, <1>5, <2>1, PolledStep
<1> QED BY <1>3, <1>4, <1>5 DEF PollHistory

LEMMA PollProfilesSafe ==
  ASSUME Base, NEW t \in InTasks, PollProfiles(t)
  PROVE  Safe
<1>1. t.at = "profiles" /\ UNCHANGED remote /\ cursor' = cursor /\ drawer' = drawer /\ Polled(t)
  BY DEF PollProfiles
<1>2. t.conv \in Conversations \ {NoConversation} /\ view \in Views /\ t.top \in Nat
  BY <1>1, Polling, Known, Answered
<1>3. CASE StillSelected(t)
  <2>1. view' = [view EXCEPT !.rows = MergeLatest(@, Page(t.conv, t.top))]
    BY <1>3 DEF PollProfiles
  <2>2. /\ view' \in Views /\ view'.selected = view.selected /\ view'.roster = view.roster
        /\ view'.rows = MergeLatest(view.rows, Page(t.conv, t.top))
    BY <1>2, <2>1, MergedRows DEF Views
  <2>3. drawer BY <1>1, <1>3, Polling DEF StillSelected
  <2>4. Fine BY <1>2, <1>3, <2>2, <2>3, PageFine
  <2> QED BY <1>1, <2>4, PolledStep
<1>4. CASE ~StillSelected(t)
  <2>1. Fine BY <1>2, <1>4, SeenSame DEF PollProfiles
  <2> QED BY <1>1, <2>1, PolledStep
<1> QED BY <1>3, <1>4
-----------------------------------------------------------------------------
(* The steps of a selected conversation. *)

LEMMA SelectSafe ==
  ASSUME Base, NEW c \in view.roster \cup {NoConversation}, Select(c)
  PROVE  Safe
<1>1. /\ drawer /\ UNCHANGED <<remote, drawer, timer>> /\ cursor' = 0
      /\ view' = [view EXCEPT !.selected = c, !.more = FALSE,
                              !.busy = IF c = NoConversation THEN "no" ELSE "local",
                              !.rows = IF c = view.selected THEN @ ELSE <<>>]
  BY DEF Select
<1>2. view \in Views /\ view.roster \subseteq Conversations BY DEF Base, Shown, Views
<1> DEFINE rows == IF c = view.selected THEN view.rows ELSE <<>>
           busy == IF c = NoConversation THEN "no" ELSE "local"
<1>3. rows \in Seq(Conversations \X Nat) /\ busy \in {"no", "local", "remote"}
  BY <1>2, BlankView DEF Views
<1>4. view' = [view EXCEPT !.selected = c, !.more = FALSE, !.busy = busy, !.rows = rows]
  BY <1>1, <1>2 DEF Views
<1> HIDE DEF rows, busy
<1>5. view' \in Views /\ view'.roster = view.roster /\ view'.selected = c /\ view'.rows = rows
  BY <1>2, <1>3, <1>4 DEF Views
<1>6. Fine BY <1>1, <1>5, SeenChoice DEF rows
<1>7. \A x \in InTasks' : Shape(x)
  <2>1. \A x \in BagToSet(Left(tasks)) : Shape(x) BY Leaving DEF Base, InTasks
  <2>2. CASE tasks' = Left(tasks) BY <2>1, <2>2 DEF InTasks
  <2>3. CASE c # NoConversation /\ tasks' = BagAdd(Left(tasks), NewFor("select", "local", c, sent[c]))
    <3> DEFINE u == NewFor("select", "local", c, sent[c])
    <3>1. c \in Conversations /\ sent[c] \in Nat BY <1>2, <2>3 DEF Base, Typed
    <3>2. HostIdentity \in Tenants \cup {Nobody} BY WhoAnswers
    <3>3. Shape(u) BY <2>3, <3>1, <3>2 DEF NewFor, New, Shape, Task
    <3> HIDE DEF u
    <3>4. InTasks' = BagToSet(Left(tasks)) \cup {u} BY <2>3, Adding DEF InTasks, u
    <3> QED BY <2>1, <3>3, <3>4
  <2> QED BY <2>2, <2>3 DEF Select
<1>8. host' = host /\ sent' = sent BY <1>1 DEF remote
<1>9. drawer' \in BOOLEAN /\ timer' \in BOOLEAN /\ cursor' \in Nat /\ drawer' BY <1>1 DEF Base, Typed
<1>10. Typed' BY <1>8, <1>9, TypedStep
<1> QED BY <1>6, <1>7, <1>9, <1>10, BaseStep DEF Safe, Fine

\* The reads of selectConversation() and the requests of withPending() know their conversation.
LEMMA Selecting ==
  ASSUME Base, NEW t \in InTasks, t.kind \in {"select", "older", "send"}
  PROVE  /\ t.conv \in Conversations \ {NoConversation}
         /\ t.fresh => drawer
<1>1. Shape(t) BY Known
<1>2. t.conv \in Conversations \ {NoConversation} BY <1>1 DEF Shape
<1>3. t.fresh => drawer BY Mounted, <1>1 DEF Shape
<1> QED BY <1>2, <1>3

LEMMA MovesOn ==
  ASSUME Base, NEW t \in InTasks, t.kind \in {"select", "send"}, t.fresh,
         NEW u, Becomes(t, u), Shape(u), Fine,
         UNCHANGED <<host, drawer, timer>>, sent' \in [Conversations -> Nat], cursor' \in Nat
  PROVE  Safe
<1>1. Typed' BY DEF Base, Typed
<1>2. drawer BY Selecting
<1> QED BY <1>1, <1>2, BecomesStep

LEMMA LocalAnswersSafe ==
  ASSUME Base, NEW t \in InTasks, LocalAnswers(t)
  PROVE  Safe
<1>1. Is(t, "select", "local") /\ UNCHANGED <<remote, cursor, drawer, timer>> BY DEF LocalAnswers
<1>2. /\ t.kind = "select" /\ t.conv \in Conversations \ {NoConversation} /\ view \in Views
      /\ cursor' \in Nat /\ sent' \in [Conversations -> Nat] /\ host' = host
  BY <1>1, Known, Selecting DEF Is, remote, Base, Typed
<1>3. CASE Ends(t) /\ UNCHANGED view
  <2>1. Fine BY <1>2, <1>3, SeenSame
  <2> QED BY <1>1, <1>2, <1>3, <2>1, EndsStep
<1>4. ASSUME CurrentVisit(t), Fine, Reads(t, "remote", t.conv) PROVE Safe
  <2>1. PICK u : Becomes(t, u) /\ Shape(u) BY <1>2, <1>4, ReadsShape
  <2> QED BY <1>1, <1>2, <1>4, <2>1, MovesOn DEF CurrentVisit, StillSelected
<1>5. ASSUME CurrentVisit(t), NEW n \in Lengths(t),
             view' = [view EXCEPT !.rows = MergeLatest(@, Page(t.conv, n)), !.busy = "remote"]
      PROVE  Fine
  <2>1. n \in Nat BY <1>2, Answered
  <2>2. MergeLatest(view.rows, Page(t.conv, n)) \in Seq(Conversations \X Nat)
    BY <1>2, <2>1, MergedRows
  <2>3. /\ view' \in Views /\ view'.selected = view.selected /\ view'.roster = view.roster
        /\ view'.rows = MergeLatest(view.rows, Page(t.conv, n))
    BY <1>2, <1>5, <2>2 DEF Views
  <2>4. drawer /\ StillSelected(t) BY <1>2, <1>5, Selecting DEF CurrentVisit, StillSelected
  <2> QED BY <1>2, <2>1, <2>3, <2>4, PageFine
<1>6. ASSUME view' = [view EXCEPT !.busy = "remote"] PROVE Fine
  <2>1. /\ view' \in Views /\ view'.selected = view.selected /\ view'.roster = view.roster
        /\ view'.rows = view.rows
    BY <1>2, <1>6 DEF Views
  <2> QED BY <2>1, SeenSame
<1> QED BY <1>3, <1>4, <1>5, <1>6 DEF LocalAnswers, Abandons

LEMMA RemoteAnswersSafe ==
  ASSUME Base, NEW t \in InTasks, RemoteAnswers(t)
  PROVE  Safe
<1>1. Is(t, "select", "remote") /\ UNCHANGED <<remote, drawer, timer>> BY DEF RemoteAnswers
<1>2. /\ t.kind = "select" /\ t.conv \in Conversations \ {NoConversation} /\ view \in Views
      /\ sent' \in [Conversations -> Nat] /\ host' = host /\ cursor \in Nat /\ t \in Task
      /\ sent[t.conv] \in Nat
  BY <1>1, Known, Selecting DEF Is, remote, Base, Typed
<1>3. CASE Ends(t) /\ UNCHANGED <<view, cursor>>
  <2>1. Fine BY <1>2, <1>3, SeenSame
  <2> QED BY <1>1, <1>2, <1>3, <2>1, EndsStep
<1>4. ASSUME CurrentVisit(t), NEW n \in Lengths(t), cursor' = NextCursor(n), UNCHANGED view,
             Becomes(t, [t EXCEPT !.at = "committed", !.floor = sent[t.conv], !.top = n])
      PROVE  Safe
  <2>1. n \in Nat BY <1>2, Answered
  <2>2. cursor' \in Nat BY <1>2, <1>4, <2>1, Answered
  <2> DEFINE u == [t EXCEPT !.at = "committed", !.floor = sent[t.conv], !.top = n]
  <2>4. Becomes(t, u) /\ Further(t, u) /\ u.at = "committed"
    BY <1>2, <1>4, <2>1 DEF Task, Further
  <2> HIDE DEF u
  <2>3. Shape(u) BY <1>2, <2>4, NextShape
  <2>5. Fine BY <1>2, <1>4, SeenSame
  <2> QED BY <1>1, <1>2, <1>4, <2>2, <2>3, <2>4, <2>5, MovesOn DEF CurrentVisit, StillSelected
<1>5. CASE view' = [view EXCEPT !.busy = "no"] /\ Ends(t) /\ UNCHANGED cursor
  <2>1. /\ view' \in Views /\ view'.selected = view.selected /\ view'.roster = view.roster
        /\ view'.rows = view.rows
    BY <1>2, <1>5 DEF Views
  <2>2. Fine BY <2>1, SeenSame
  <2> QED BY <1>1, <1>2, <1>5, <2>2, EndsStep
<1> QED BY <1>3, <1>4, <1>5 DEF RemoteAnswers, Abandons

LEMMA CommittedAnswersSafe ==
  ASSUME Base, NEW t \in InTasks, CommittedAnswers(t)
  PROVE  Safe
<1>1. Is(t, "select", "committed") /\ UNCHANGED <<remote, cursor, drawer, timer>> /\ Ends(t)
  BY DEF CommittedAnswers, Abandons
<1>2. /\ t.kind = "select" /\ t.conv \in Conversations \ {NoConversation} /\ view \in Views
      /\ cursor' \in Nat
  BY <1>1, Known, Selecting DEF Is
<1>3. ASSUME UNCHANGED view PROVE Fine BY <1>2, <1>3, SeenSame
<1>4. ASSUME CurrentVisit(t), NEW n \in Lengths(t),
             view' = [view EXCEPT !.rows = MergeLatest(@, Page(t.conv, n)),
                                  !.more = NextCursor(t.top) # 0, !.busy = "no"]
      PROVE  Fine
  <2>1. n \in Nat BY <1>2, Answered
  <2>2. MergeLatest(view.rows, Page(t.conv, n)) \in Seq(Conversations \X Nat)
    BY <1>2, <2>1, MergedRows
  <2>3. (NextCursor(t.top) # 0) \in BOOLEAN OBVIOUS
  <2>4. /\ view' \in Views /\ view'.selected = view.selected /\ view'.roster = view.roster
        /\ view'.rows = MergeLatest(view.rows, Page(t.conv, n))
    BY <1>2, <1>4, <2>2, <2>3 DEF Views
  <2>5. drawer /\ StillSelected(t) BY <1>2, <1>4, Selecting DEF CurrentVisit, StillSelected
  <2> QED BY <1>2, <2>1, <2>4, <2>5, PageFine
<1>5. ASSUME view' = [view EXCEPT !.busy = "no"] PROVE Fine
  <2>1. /\ view' \in Views /\ view'.selected = view.selected /\ view'.roster = view.roster
        /\ view'.rows = view.rows
    BY <1>2, <1>5 DEF Views
  <2> QED BY <2>1, SeenSame
<1>6. Fine BY <1>3, <1>4, <1>5 DEF CommittedAnswers
<1> QED BY <1>1, <1>2, <1>6, EndsStep
\* withPending(): a request for the selected conversation.
LEMMA ActsSafe ==
  ASSUME Base, NEW u, Acts(u), Shape(u)
  PROVE  Safe
<1>1. /\ drawer /\ tasks' = BagAdd(tasks, u)
      /\ UNCHANGED <<remote, view, drawer, timer>> /\ cursor' = cursor
  BY DEF Acts
<1>2. view \in Views /\ cursor' \in Nat BY <1>1 DEF Base, Shown, Typed
<1>3. Fine BY <1>1, <1>2, SeenSame
<1> QED BY <1>1, <1>2, <1>3, BeginsStep

LEMMA RequestShape ==
  ASSUME Base, view.selected # NoConversation
  PROVE  /\ Shape([NewFor("older", "answer", view.selected, sent[view.selected])
                     EXCEPT !.top = cursor])
         /\ Shape(NewFor("send", "change", view.selected, 0))
<1>1. view.selected \in Conversations \ {NoConversation} BY DEF Base, Shown, Views
<1>2. HostIdentity \in Tenants \cup {Nobody} BY WhoAnswers
<1>3. sent[view.selected] \in Nat /\ cursor \in Nat BY <1>1 DEF Base, Typed
<1> QED BY <1>1, <1>2, <1>3 DEF NewFor, New, Shape, Task

LEMMA LoadOlderSafe ==
  ASSUME Base, LoadOlder
  PROVE  Safe
<1> DEFINE u == [NewFor("older", "answer", view.selected, sent[view.selected]) EXCEPT !.top = cursor]
<1>1. Acts(u) BY DEF LoadOlder
<1>2. view.selected # NoConversation BY <1>1 DEF Acts
<1>3. Shape(u) BY <1>2, RequestShape
<1> HIDE DEF u
<1> QED BY <1>1, <1>3, ActsSafe

LEMMA SendTextSafe ==
  ASSUME Base, SendText
  PROVE  Safe
<1> DEFINE u == NewFor("send", "change", view.selected, 0)
<1>1. Acts(u) BY DEF SendText
<1>2. view.selected # NoConversation BY <1>1 DEF Acts
<1>3. Shape(u) BY <1>2, RequestShape
<1> HIDE DEF u
<1> QED BY <1>1, <1>3, ActsSafe

LEMMA OlderAnswersSafe ==
  ASSUME Base, NEW t \in InTasks, OlderAnswers(t)
  PROVE  Safe
<1>1. t.kind = "older" /\ Ends(t) /\ UNCHANGED <<remote, drawer, timer>> BY DEF OlderAnswers
<1>2. /\ t.conv \in Conversations \ {NoConversation} /\ view \in Views
      /\ cursor \in Nat /\ t.top \in Nat
  BY <1>1, Known, Selecting, Answered
<1>3. ASSUME StillSelected(t), NEW n \in IF t.top = 0 THEN Lengths(t) ELSE {t.top - 1},
             cursor' = NextCursor(n),
             view' = [view EXCEPT !.rows = MergeOlder(@, Page(t.conv, n)),
                                  !.more = NextCursor(n) # 0]
      PROVE  Safe
  <2>1. n \in Nat
    <3>1. CASE t.top = 0 BY <1>2, <3>1, Answered
    <3>2. CASE t.top # 0 BY <1>2, <3>2
    <3> QED BY <3>1, <3>2
  <2>2. MergeOlder(view.rows, Page(t.conv, n)) \in Seq(Conversations \X Nat)
    BY <1>2, <2>1, MergedRows
  <2>3. (NextCursor(n) # 0) \in BOOLEAN OBVIOUS
  <2>4. /\ view' \in Views /\ view'.selected = view.selected /\ view'.roster = view.roster
        /\ view'.rows = MergeOlder(view.rows, Page(t.conv, n))
    BY <1>2, <1>3, <2>2, <2>3 DEF Views
  <2>5. drawer BY <1>1, <1>3, Selecting DEF StillSelected
  <2>6. Fine BY <1>2, <1>3, <2>1, <2>4, <2>5, PageFine
  <2>7. cursor' \in Nat BY <1>2, <1>3, <2>1, Answered
  <2> QED BY <1>1, <2>6, <2>7, EndsStep
<1>4. CASE UNCHANGED <<view, cursor>>
  <2>1. Fine BY <1>2, <1>4, SeenSame
  <2> QED BY <1>1, <1>2, <1>4, <2>1, EndsStep
<1> QED BY <1>3, <1>4 DEF OlderAnswers

LEMMA AcceptsSafe ==
  ASSUME Base, NEW t \in InTasks, Accepts(t)
  PROVE  Safe
<1>1. /\ t.kind = "send" /\ UNCHANGED <<host, view, drawer, timer>> /\ cursor' = cursor
      /\ sent' = [sent EXCEPT ![t.conv] = @ + 1]
      /\ Becomes(t, [t EXCEPT !.at = "answer", !.top = sent[t.conv] + 1])
  BY DEF Accepts, Is
<1>2. /\ t.conv \in Conversations /\ view \in Views /\ cursor' \in Nat /\ t \in Task
      /\ t.floor \in Nat /\ sent[t.conv] \in Nat
  BY <1>1, Known, Selecting, Answered
<1>3. sent' \in [Conversations -> Nat] BY <1>1, <1>2 DEF Base, Typed
<1>4. Fine BY <1>1, <1>2, SeenSame
<1> DEFINE n == sent[t.conv] + 1
           u == [t EXCEPT !.at = "answer", !.top = n]
<1>7. Becomes(t, u) BY <1>1
<1>10. n \in Nat BY <1>2
<1> HIDE DEF n
<1>5. Further(t, u) /\ u.at = "answer" BY <1>2, <1>10 DEF Task, Further
<1> HIDE DEF u
<1>6. Shape(u) /\ u.fresh = t.fresh BY <1>1, <1>5, NextShape DEF Further
<1>8. drawer \/ ~u.fresh BY <1>1, <1>6, Selecting
<1>9. Typed' BY <1>1, <1>2, <1>3 DEF Base, Typed
<1> QED BY <1>1, <1>4, <1>6, <1>7, <1>8, <1>9, BecomesStep

LEMMA SendAnswersSafe ==
  ASSUME Base, NEW t \in InTasks, SendAnswers(t)
  PROVE  Safe
<1>1. t.kind = "send" /\ Ends(t) /\ UNCHANGED <<remote, drawer, timer>> /\ cursor' = cursor
  BY DEF SendAnswers
<1>2. /\ t.conv \in Conversations \ {NoConversation} /\ view \in Views
      /\ cursor' \in Nat /\ t.top \in Nat
  BY <1>1, Known, Selecting, Answered
<1>3. CASE StillSelected(t) /\ view' = [view EXCEPT !.rows = AppendRow(@, <<t.conv, t.top>>)]
  <2> DEFINE row == <<t.conv, t.top>>
  <2>1. row \in Conversations \X Nat /\ row[1] = t.conv BY <1>2
  <2> HIDE DEF row
  <2>2. view.rows \in Seq(Conversations \X Nat) BY <1>2 DEF Views
  <2>3. /\ AppendRow(view.rows, row) \in Seq(Conversations \X Nat)
        /\ ToSet(AppendRow(view.rows, row)) = ToSet(view.rows) \cup {row}
    BY <2>1, <2>2, Appended
  <2>4. view' = [view EXCEPT !.rows = AppendRow(view.rows, row)] BY <1>3 DEF row
  <2>5. /\ view' \in Views /\ view'.selected = view.selected /\ view'.roster = view.roster
        /\ view'.rows = AppendRow(view.rows, row)
    BY <1>2, <2>3, <2>4 DEF Views
  <2>6. drawer /\ view.selected = t.conv BY <1>1, <1>3, Selecting DEF StillSelected
  <2>7. Fine BY <1>2, <2>1, <2>3, <2>5, <2>6, SeenRows
  <2> QED BY <1>1, <1>2, <2>7, EndsStep
<1>4. CASE UNCHANGED view
  <2>1. Fine BY <1>2, <1>4, SeenSame
  <2> QED BY <1>1, <1>2, <2>1, EndsStep
<1> QED BY <1>3, <1>4 DEF SendAnswers

-----------------------------------------------------------------------------
(* The steps of an account, of a switch, and of the service. *)

LEMMA AsksSafe ==
  ASSUME Base, NEW kind \in {"login", "logout"}, Asks(kind)
  PROVE  Safe
<1> DEFINE u == New(kind, "change")
<1>1. /\ drawer /\ tasks' = BagAdd(tasks, u)
      /\ UNCHANGED <<remote, view, drawer, timer>> /\ cursor' = cursor
  BY DEF Asks
<1>2. Shape(u) BY NewShape
<1> HIDE DEF u
<1>4. view \in Views /\ cursor' \in Nat BY <1>1 DEF Base, Shown, Typed
<1>5. Fine BY <1>1, <1>4, SeenSame
<1> QED BY <1>1, <1>2, <1>4, <1>5, BeginsStep

LEMMA SwitchTenantSafe ==
  ASSUME Base, NEW tenant \in Tenants, SwitchTenant(tenant)
  PROVE  Safe
<1> DEFINE s == [New("switch", "change") EXCEPT !.owner = tenant]
<1>1. /\ tasks' = BagAdd(Fenced(tasks), s) /\ timer' = FALSE /\ cursor' = 0
      /\ view' = [InitialView EXCEPT !.status = "loading"] /\ UNCHANGED <<remote, drawer>>
  BY DEF SwitchTenant
<1>2. Shape(s) /\ s.kind = "switch" /\ s.how = {} BY DEF New, Shape, Task
<1> HIDE DEF s
<1>3. InTasks' = BagToSet(Fenced(tasks)) \cup {s} BY <1>1, Adding DEF InTasks
<1>4. \A u \in BagToSet(Fenced(tasks)) : ~u.fresh /\ Shape(u) BY Fencing DEF Base, InTasks
<1>5. Fine BY <1>1, LoadingView, SeenBlank
<1>6. host' = host /\ sent' = sent BY <1>1 DEF remote
<1>7. drawer' \in BOOLEAN /\ cursor' \in Nat /\ timer' \in BOOLEAN BY <1>1 DEF Base, Typed
<1>8. Typed' BY <1>6, <1>7, TypedStep
<1> QED BY <1>1, <1>2, <1>3, <1>4, <1>5, <1>8, BaseStep DEF Safe, Fine

LEMMA HostChangesSafe ==
  ASSUME Base, NEW t \in InTasks, HostChanges(t)
  PROVE  Safe
<1>1. /\ t.kind \in {"login", "logout", "switch"} /\ sent' = sent /\ view' = view
      /\ cursor' = cursor /\ drawer' = drawer /\ timer' = timer
  BY DEF HostChanges
<1>2. /\ view \in Views /\ cursor \in Nat /\ drawer \in BOOLEAN /\ timer \in BOOLEAN
      /\ t \in Task /\ t.floor \in Nat /\ t.top \in Nat /\ Shape(t)
  BY Known DEF Task
<1>3. Fine BY <1>1, <1>2, SeenSame
<1>4. host' \in [tenant : Tenants, active : BOOLEAN, revoked : SUBSET Tenants]
  <2>1. host \in [tenant : Tenants, active : BOOLEAN, revoked : SUBSET Tenants] BY DEF Base, Typed
  <2>2. CASE \E b \in BOOLEAN : host' = [host EXCEPT !.active = b] BY <2>1, <2>2
  <2>3. CASE t.kind = "switch" /\ \E b \in BOOLEAN : host' = [host EXCEPT !.tenant = t.owner, !.active = b]
    <3>1. t.owner \in Tenants BY <1>2, <2>3 DEF Shape
    <3> QED BY <2>1, <2>3, <3>1
  <2>4. CASE host' = host BY <2>1, <2>4
  <2> QED BY <2>2, <2>3, <2>4 DEF HostChanges
<1>5. Typed' BY <1>1, <1>4 DEF Base, Typed
<1>6. CASE Becomes(t, [t EXCEPT !.at = "answer"])
  <2> DEFINE u == [t EXCEPT !.at = "answer"]
  <2>1. Further(t, u) /\ u.at = "answer" BY <1>2 DEF Task, Further
  <2>3. Becomes(t, u) BY <1>6
  <2> HIDE DEF u
  <2>2. Shape(u) /\ u.kind = t.kind /\ u.how = t.how /\ u.fresh = t.fresh
    BY <1>1, <2>1, NextShape DEF Further
  <2>4. drawer \/ ~u.fresh \/ "opens" \notin u.how BY <2>2, Mounted
  <2> QED BY <1>1, <1>3, <1>5, <2>2, <2>3, <2>4, BecomesStep
<1>7. CASE Ends(t)
  <2>1. InTasks' \subseteq InTasks BY <1>7, Ended
  <2>2. \A x \in InTasks' : Shape(x) BY <2>1 DEF Base
  <2>3. timer' => drawer' \/ (timer /\ ~drawer) BY <1>1, <1>2
  <2>4. \A x \in InTasks' : drawer' \/ (x \in InTasks /\ ~drawer) BY <2>1, <1>1, <1>2
  <2> QED BY <1>3, <1>5, <2>2, <2>3, <2>4, BaseStep DEF Safe, Fine
<1> QED BY <1>6, <1>7 DEF HostChanges

LEMMA OthersIn ==
  ASSUME NEW t \in InTasks
  PROVE  BagToSet(Others(t)) \subseteq InTasks
BY Removing DEF Others, InTasks

LEMMA ChangeAnswersSafe ==
  ASSUME Base, NEW t \in InTasks, ChangeAnswers(t)
  PROVE  Safe
<1>1. UNCHANGED remote BY DEF ChangeAnswers
<1>2. CASE Opens(Others(t)) /\ UNCHANGED cursor BY <1>1, <1>2, OthersIn, OpensStep
<1>3. CASE drawer' = FALSE /\ cursor' = 0 /\ Loads(Others(t), {})
  BY <1>1, <1>3, OthersIn, LoadsStep DEF Safe
<1>4. CASE /\ Loads(Others(t), {"switches"} \cup IF drawer THEN {"opens"} \cup Keeping ELSE {})
           /\ UNCHANGED <<cursor, drawer>>
  <2> DEFINE how == {"switches"} \cup IF drawer THEN {"opens"} \cup Keeping ELSE {}
  <2>1. how \in SUBSET {"opens", "keeps", "switches"} /\ ("opens" \in how => drawer) BY DEF Keeping
  <2>2. Loads(Others(t), how) BY <1>4
  <2> HIDE DEF how
  <2>3. drawer' \in BOOLEAN /\ drawer' = drawer BY <1>4 DEF Base, Typed
  <2> QED BY <1>1, <1>4, <2>1, <2>2, <2>3, OthersIn, LoadsStep DEF Safe
<1> QED BY <1>2, <1>3, <1>4 DEF ChangeAnswers

LEMMA TimerFiresSafe ==
  ASSUME Base, TimerFires
  PROVE  Safe
<1> DEFINE u == New("poll", "roster")
<1>1. /\ timer /\ tasks' = BagAdd(tasks, u)
      /\ UNCHANGED <<remote, view, drawer, timer>> /\ cursor' = cursor
  BY DEF TimerFires
<1>2. Shape(u) BY NewShape
<1> HIDE DEF u
<1>4. view \in Views /\ cursor' \in Nat BY <1>1 DEF Base, Shown, Typed
<1>5. Fine BY <1>1, <1>4, SeenSame
<1>6. drawer BY <1>1 DEF Base, Unmounted
<1> QED BY <1>1, <1>2, <1>4, <1>5, <1>6, BeginsStep

\* The drawer has no part in what arrives and what is revoked.
LEMMA AwaySafe ==
  ASSUME Base, UNCHANGED <<view, cursor, drawer, timer, tasks>>,
         host' \in [tenant : Tenants, active : BOOLEAN, revoked : SUBSET Tenants],
         sent' \in [Conversations -> Nat]
  PROVE  Safe
<1>1. Typed' BY DEF Base, Typed
<1>2. view \in Views /\ view' = view BY DEF Base, Shown
<1>3. Fine BY <1>2, SeenSame
<1>4. InTasks' = InTasks BY DEF InTasks
<1>5. Unmounted' BY <1>4 DEF Base, Unmounted
<1>6. \A x \in InTasks' : Shape(x) BY <1>4 DEF Base
<1> QED BY <1>1, <1>3, <1>5, <1>6 DEF Safe, Fine, Base

LEMMA Start == Init => Base
<1> SUFFICES ASSUME Init PROVE Base OBVIOUS
<1>1. InTasks = {} BY DEF Init, InTasks, BagToSet, EmptyBag, SetToBag
<1>2. Typed BY DEF Init, Typed
<1>3. Shown(view) BY BlankView, EmptySet DEF Init, Shown
<1> QED BY <1>1, <1>2, <1>3 DEF Base, Unmounted, Init

LEMMA NextSafe == Base /\ [Next]_vars => Safe
<1> SUFFICES ASSUME Base, [Next]_vars PROVE Safe OBVIOUS
<1>1. CASE Open BY <1>1, OpensStep DEF Open, InTasks
<1>2. CASE Close
  <2>1. Closes(tasks, view) /\ UNCHANGED <<remote, cursor>> BY <1>2 DEF Close
  <2>2. Fine BY <2>1, SeenSame DEF Closes, Base, Shown
  <2> QED BY <2>1, <2>2, ClosesStep DEF InTasks
<1>3. CASE \E c \in view.roster \cup {NoConversation} : Select(c) BY <1>3, SelectSafe
<1>4. CASE \E t \in Tenants : SwitchTenant(t) BY <1>4, SwitchTenantSafe
<1>5. CASE Login \/ Logout BY <1>5, AsksSafe DEF Login, Logout
<1>6. CASE \E c \in Conversations : Arrive(c)
  <2>1. PICK c \in Conversations : Arrive(c) BY <1>6
  <2>2. sent' \in [Conversations -> Nat] BY <2>1 DEF Arrive, Base, Typed
  <2>3. host' \in [tenant : Tenants, active : BOOLEAN, revoked : SUBSET Tenants]
    BY <2>1 DEF Arrive, Base, Typed
  <2> QED BY <2>1, <2>2, <2>3, AwaySafe DEF Arrive
<1>7. CASE \E t \in Tenants : Revoke(t)
  <2>1. PICK t \in Tenants : Revoke(t) BY <1>7
  <2>2. sent' \in [Conversations -> Nat] BY <2>1 DEF Revoke, Base, Typed
  <2>3. host' \in [tenant : Tenants, active : BOOLEAN, revoked : SUBSET Tenants]
    BY <2>1 DEF Revoke, Base, Typed
  <2> QED BY <2>1, <2>2, <2>3, AwaySafe DEF Revoke
<1>8. CASE \E t \in BagToSet(tasks) : Continue(t)
  BY <1>8, LoadAnswersSafe, LoadReadySafe, LoadListSafe, PollRosterSafe, PollHistorySafe,
     PollProfilesSafe, LocalAnswersSafe, RemoteAnswersSafe, CommittedAnswersSafe, OlderAnswersSafe,
     AcceptsSafe, SendAnswersSafe, HostChangesSafe, ChangeAnswersSafe DEF Continue, InTasks
<1>9. CASE UNCHANGED vars
  <2>1. UNCHANGED <<host, sent, view, cursor, drawer, timer, tasks>> BY <1>9 DEF vars, remote
  <2> QED BY <2>1, AwaySafe DEF Base, Typed
<1> QED BY <1>1, <1>2, <1>3, <1>4, <1>5, <1>6, <1>7, <1>8, <1>9,
           LoadOlderSafe, SendTextSafe, TimerFiresSafe DEF Next, User

-----------------------------------------------------------------------------
(* The roster: who lists it, and for whom. *)

LEMMA EndsOne ==
  ASSUME Base, RosterInv, NEW t \in InTasks, Ends(t), t.kind # "switch",
         drawer' = drawer, host'.tenant = host.tenant,
         timer' = timer \/ (t.kind = "load" /\ timer' = (timer \/ (t.fresh /\ drawer))),
         view'.status = view.status \/ Loading(t),
         view'.identity = view.identity, view'.roster \subseteq MailOf(view.identity)
  PROVE  RosterInv'
<1>1. /\ InTasks' \subseteq InTasks /\ InTasks \ {t} \subseteq InTasks'
      /\ tasks[t] = 1 => t \notin InTasks'
      /\ \A x \in InTasks' \ {t} : tasks'[x] = tasks[x]
  BY Ended
<1>2. Moving' <=> Moving BY <1>1 DEF Moving
<1>3. OneSwitch' BY <1>1 DEF RosterInv, OneSwitch
<1>4. t.kind = "load" /\ t.fresh => \A x \in InTasks' : ~Loading(x)
  BY <1>1 DEF RosterInv, OneLoad
<1>5. ~(t.kind = "load" /\ t.fresh) => timer' = timer BY Known
<1>6. OneLoad'
  <2> SUFFICES ASSUME NEW l \in InTasks', l.kind = "load", l.fresh
               PROVE  /\ tasks'[l] = 1 /\ ~timer' /\ \A x \in InTasks' : Loading(x) => x = l
    BY DEF OneLoad, Loading
  <2>1. ~(t.kind = "load" /\ t.fresh) /\ l # t BY <1>4 DEF Loading
  <2>2. tasks[l] = 1 /\ ~timer /\ \A x \in InTasks : Loading(x) => x = l
    BY <1>1 DEF RosterInv, OneLoad
  <2> QED BY <1>1, <1>5, <2>1, <2>2
<1>7. Quiet'
  <2> SUFFICES ASSUME Moving
               PROVE  /\ ~timer' /\ (drawer' => view'.status = "loading")
                      /\ \A x \in InTasks' : x.kind # "login"
                      /\ \A x \in InTasks' : Loading(x) => ~drawer' /\ x.kind = "load" /\ "opens" \notin x.how
    BY <1>2 DEF Quiet, Loading
  <2>1. /\ ~timer /\ (drawer => view.status = "loading")
        /\ \A x \in InTasks : x.kind # "login"
        /\ \A x \in InTasks : Loading(x) => ~drawer /\ x.kind = "load" /\ "opens" \notin x.how
    BY DEF RosterInv, Quiet
  <2>2. t.fresh /\ t.kind = "load" => ~drawer BY <2>1 DEF Loading
  <2>3. ~timer' BY <2>1, <2>2
  <2>4. drawer' => view'.status = "loading" BY <2>1
  <2> QED BY <1>1, <2>1, <2>3, <2>4
<1>8. Steady' BY <1>1, <1>2 DEF RosterInv, Steady, Loading
<1>9. Listing' BY <1>1 DEF RosterInv, Listing
<1>10. view'.roster \subseteq MailOf(view'.identity) OBVIOUS
<1> QED BY <1>3, <1>6, <1>7, <1>8, <1>9, <1>10 DEF RosterInv, MailOf

\* A task goes on; a current load stays the only one.
LEMMA BecomesOne ==
  ASSUME Base, RosterInv, NEW t \in InTasks, NEW u, Becomes(t, u),
         u.kind = t.kind, u.how = t.how, u.fresh = t.fresh, u.at # t.at,
         u.owner \in {t.owner, HostIdentity}, drawer' = drawer, timer' = timer,
         view'.status = view.status \/ Loading(t),
         ~Moving => host'.tenant = host.tenant /\ view'.identity \in {Nobody, host.tenant},
         \A x \in InTasks' : x.fresh /\ x.at \in {"list", "roster"} => view'.identity # Nobody,
         view'.roster \subseteq MailOf(view'.identity)
  PROVE  RosterInv'
<1>1. /\ InTasks' \subseteq InTasks \cup {u} /\ InTasks \ {t} \subseteq InTasks' /\ u \in InTasks'
      /\ tasks[t] = 1 => t \notin InTasks'
      /\ u \notin InTasks => tasks'[u] = 1
      /\ \A x \in InTasks' \ {t, u} : tasks'[x] = tasks[x]
      /\ u # t
  BY Became
<1>2. Moving' <=> Moving BY <1>1 DEF Moving
<1>3. OneSwitch'
  <2> SUFFICES ASSUME NEW s \in InTasks', s.kind = "switch"
               PROVE  tasks'[s] = 1 /\ \A x \in InTasks' : x.kind = "switch" => x = s
    BY DEF OneSwitch
  <2>1. \A x \in InTasks : x.kind = "switch" =>
          tasks[x] = 1 /\ \A y \in InTasks : y.kind = "switch" => y = x
    BY DEF RosterInv, OneSwitch
  <2>2. CASE t.kind = "switch"
    <3>1. \A x \in InTasks' : x.kind = "switch" => x = u BY <1>1, <2>1, <2>2
    <3>2. u \notin InTasks BY <1>1, <2>1, <2>2
    <3> QED BY <1>1, <3>1, <3>2
  <2>3. CASE t.kind # "switch" BY <1>1, <2>1, <2>3
  <2> QED BY <2>2, <2>3
<1>4. OneLoad'
  <2> SUFFICES ASSUME NEW l \in InTasks', l.kind = "load", l.fresh
               PROVE  /\ tasks'[l] = 1 /\ ~timer' /\ \A x \in InTasks' : Loading(x) => x = l
    BY DEF OneLoad, Loading
  <2>1. \A x \in InTasks : x.kind = "load" /\ x.fresh =>
          tasks[x] = 1 /\ ~timer /\ \A y \in InTasks : Loading(y) => y = x
    BY DEF RosterInv, OneLoad
  <2>2. CASE t.kind = "load" /\ t.fresh
    <3>1. \A x \in InTasks' : Loading(x) => x = u BY <1>1, <2>1, <2>2
    <3>2. u \notin InTasks BY <1>1, <2>1, <2>2 DEF Loading
    <3>3. l = u BY <3>1 DEF Loading
    <3> QED BY <1>1, <2>1, <2>2, <3>1, <3>2, <3>3
  <2>3. CASE ~(t.kind = "load" /\ t.fresh)
    <3>1. l # u /\ l # t /\ l \in InTasks BY <1>1, <2>3
    <3>2. ~Loading(t) BY <2>1, <3>1
    <3> QED BY <1>1, <2>1, <3>1, <3>2 DEF Loading
  <2> QED BY <2>2, <2>3
<1>5. Quiet'
  <2> SUFFICES ASSUME Moving
               PROVE  /\ ~timer' /\ (drawer' => view'.status = "loading")
                      /\ \A x \in InTasks' : x.kind # "login"
                      /\ \A x \in InTasks' : Loading(x) => ~drawer' /\ x.kind = "load" /\ "opens" \notin x.how
    BY <1>2 DEF Quiet, Loading
  <2>1. /\ ~timer /\ (drawer => view.status = "loading")
        /\ \A x \in InTasks : x.kind # "login"
        /\ \A x \in InTasks : Loading(x) => ~drawer /\ x.kind = "load" /\ "opens" \notin x.how
    BY DEF RosterInv, Quiet
  <2>2. Loading(u) <=> Loading(t) BY DEF Loading
  <2>3. ~timer' BY <2>1
  <2>4. drawer' => view'.status = "loading" BY <2>1
  <2> QED BY <1>1, <2>1, <2>2, <2>3, <2>4
<1>6. Steady'
  <2> SUFFICES ASSUME ~Moving
               PROVE  /\ view'.identity \in {Nobody, host'.tenant}
                      /\ \A x \in InTasks' : Loading(x) => x.owner \in {Nobody, host'.tenant}
    BY <1>2 DEF Steady, Loading
  <2>1. \A x \in InTasks : Loading(x) => x.owner \in {Nobody, host.tenant} BY DEF RosterInv, Steady
  <2>2. HostIdentity \in {Nobody, host.tenant} BY WhoAnswers
  <2>3. Loading(u) => u.owner \in {Nobody, host.tenant} BY <2>1, <2>2 DEF Loading
  <2> QED BY <1>1, <2>1, <2>3
<1>7. Listing' BY DEF Listing
<1> QED BY <1>3, <1>4, <1>5, <1>6, <1>7 DEF RosterInv, MailOf

LEMMA BeginsOne ==
  ASSUME Base, RosterInv, NEW u, tasks' = BagAdd(tasks, u),
         host' = host, view' = view, drawer' = drawer, timer' = timer,
         u.kind # "switch", u.kind = "login" => ~Moving,
         Loading(u) => timer /\ u.kind = "poll" /\ u.owner = HostIdentity,
         u.fresh /\ u.at \in {"list", "roster"} => view.identity # Nobody
  PROVE  RosterInv'
<1>1. /\ InTasks' = InTasks \cup {u}
      /\ \A x \in InTasks \ {u} : tasks'[x] = tasks[x]
  BY Begun
<1>2. Moving' <=> Moving BY <1>1 DEF Moving
<1>3. OneSwitch' BY <1>1 DEF RosterInv, OneSwitch
<1>4. OneLoad'
  <2> SUFFICES ASSUME NEW l \in InTasks', l.kind = "load", l.fresh
               PROVE  /\ tasks'[l] = 1 /\ ~timer' /\ \A x \in InTasks' : Loading(x) => x = l
    BY DEF OneLoad, Loading
  <2>1. l # u /\ l \in InTasks BY <1>1 DEF Loading
  <2>2. tasks[l] = 1 /\ ~timer /\ \A y \in InTasks : Loading(y) => y = l
    BY <2>1 DEF RosterInv, OneLoad
  <2> QED BY <1>1, <2>1, <2>2
<1>5. Quiet' BY <1>1, <1>2 DEF RosterInv, Quiet, Loading
<1>6. Steady' BY <1>1, <1>2, WhoAnswers DEF RosterInv, Steady, Loading
<1>7. Listing' BY <1>1 DEF RosterInv, Listing
<1> QED BY <1>3, <1>4, <1>5, <1>6, <1>7 DEF RosterInv, MailOf

\* Fencing keeps the switch of tenants, alone as it was.
LEMMA FencedSwitch ==
  ASSUME Base, RosterInv, NEW ts, BagToSet(ts) \subseteq InTasks,
         \A x \in BagToSet(ts) : x.kind = "switch" => ts[x] = 1
  PROVE  /\ \A u \in BagToSet(Fenced(ts)) : u.kind = "switch" =>
              /\ Fenced(ts)[u] = 1
              /\ \A v \in BagToSet(Fenced(ts)) : v.kind = "switch" => v = u
         /\ \A u \in BagToSet(Fenced(ts)) : ~u.fresh /\ \E t \in BagToSet(ts) : u.kind = t.kind
         /\ \A t \in BagToSet(ts) : \E u \in BagToSet(Fenced(ts)) : u.kind = t.kind
<1>1. \A t \in BagToSet(ts) : Shape(t) /\ t \in Task BY DEF Base, Shape
<1>2. \A u \in BagToSet(Fenced(ts)) :
        ~u.fresh /\ \E t \in BagToSet(ts) : u = Fence(t) /\ u.kind = t.kind
  BY <1>1, Fencing DEF Like
<1>3. \A t \in BagToSet(ts) : Fence(t).kind = t.kind BY <1>1 DEF Fence, Task
<1>4. \A s, t \in BagToSet(ts) : s.kind = "switch" /\ t.kind = "switch" => s = t
  BY DEF RosterInv, OneSwitch
<1>5. ASSUME NEW u \in BagToSet(Fenced(ts)), u.kind = "switch"
      PROVE  /\ Fenced(ts)[u] = 1
             /\ \A v \in BagToSet(Fenced(ts)) : v.kind = "switch" => v = u
  <2>1. PICK s \in BagToSet(ts) : u = Fence(s) /\ s.kind = "switch" BY <1>2, <1>5
  <2>2. \A t \in BagToSet(ts) : Fence(t) = Fence(s) => t = s BY <1>3, <1>4, <2>1
  <2>3. ts[s] = 1 BY <2>1
  <2>4. Fenced(ts)[Fence(s)] = 1 BY <1>1, <2>2, <2>3, FencedAlone
  <2>5. \A v \in BagToSet(Fenced(ts)) : v.kind = "switch" => v = u BY <1>2, <1>4, <2>1
  <2> QED BY <2>1, <2>4, <2>5
<1>6. \A t \in BagToSet(ts) : Fence(t) \in BagToSet(Fenced(ts)) BY DEF Fenced, BagToSet
<1> QED BY <1>2, <1>3, <1>5, <1>6
\* loadSession(): one load is left, and a switch only beside one without a drawer.
LEMMA LoadsOne ==
  ASSUME Base, RosterInv, NEW ts, BagToSet(ts) \subseteq InTasks,
         \A x \in BagToSet(ts) : x.kind = "switch" => ts[x] = 1,
         NEW how \in SUBSET {"opens", "keeps", "switches"}, "opens" \in how => drawer',
         Loads(ts, how), UNCHANGED remote, cursor' \in {cursor, 0}, drawer' \in BOOLEAN,
         "keeps" \in how => view.identity \in {Nobody, host.tenant},
         \A x \in BagToSet(ts) : x.kind = "switch" => ~drawer' /\ how = {}
  PROVE  RosterInv'
<1> DEFINE l == NewLoad(how)
           F == Fenced(ts)
<1>1. /\ InTasks' = BagToSet(F) \cup {l} /\ l \notin BagToSet(F) /\ tasks'[l] = 1
      /\ l.kind = "load" /\ l.how = how /\ l.fresh /\ l.owner = HostIdentity /\ l.at = "session"
  BY LoadsStep
<1>2. /\ tasks' = BagAdd(F, l) /\ timer' = FALSE
      /\ view' = IF "keeps" \in how THEN view ELSE [InitialView EXCEPT !.status = "loading"]
  BY DEF Loads
<1>3. /\ \A u \in BagToSet(F) : u.kind = "switch" =>
           F[u] = 1 /\ \A v \in BagToSet(F) : v.kind = "switch" => v = u
      /\ \A u \in BagToSet(F) : ~u.fresh /\ \E t \in BagToSet(ts) : u.kind = t.kind
  BY FencedSwitch
<1> HIDE DEF l, F
<1>4. \A x \in BagToSet(F) : tasks'[x] = F[x] BY <1>1, <1>2, Adding
<1>5. host' = host BY DEF remote
<1>6. OneSwitch' BY <1>1, <1>3, <1>4 DEF OneSwitch
<1>7. \A x \in InTasks' : x.fresh => x = l BY <1>1, <1>3
<1>8. OneLoad' BY <1>1, <1>2, <1>7 DEF OneLoad, Loading
<1>9. Moving' => ~drawer' /\ how = {} /\ Moving
  <2> SUFFICES ASSUME NEW s \in InTasks', s.kind = "switch" PROVE ~drawer' /\ how = {} /\ Moving
    BY DEF Moving
  <2>1. s \in BagToSet(F) BY <1>1
  <2> QED BY <2>1, <1>3 DEF Moving
<1>10. Quiet'
  <2> SUFFICES ASSUME Moving'
               PROVE  /\ ~timer' /\ (drawer' => view'.status = "loading")
                      /\ \A x \in InTasks' : x.kind # "login"
                      /\ \A x \in InTasks' : Loading(x) => ~drawer' /\ x.kind = "load" /\ "opens" \notin x.how
    BY DEF Quiet, Loading
  <2>1. \A x \in InTasks : x.kind # "login" BY <1>9 DEF RosterInv, Quiet
  <2>2. \A x \in InTasks' : x.kind # "login" BY <2>1, <1>1, <1>3
  <2>3. \A x \in InTasks' : Loading(x) => ~drawer' /\ x.kind = "load" /\ "opens" \notin x.how
    BY <1>1, <1>7, <1>9 DEF Loading
  <2> QED BY <1>2, <1>9, <2>2, <2>3
<1>11. \/ "keeps" \in how /\ view' = view
       \/ view'.identity = Nobody /\ view'.roster = {}
  BY <1>2, LoadingView
<1>12. Steady'
  <2>1. view'.identity \in {Nobody, host'.tenant} BY <1>5, <1>11
  <2>2. HostIdentity \in {Nobody, host.tenant} BY WhoAnswers
  <2> QED BY <2>1, <2>2, <1>1, <1>5, <1>7 DEF Steady, Loading
<1>13. Listing' BY <1>1, <1>7 DEF Listing
<1>14. view'.roster \subseteq MailOf(view'.identity) BY <1>11 DEF RosterInv
<1> QED BY <1>6, <1>8, <1>10, <1>12, <1>13, <1>14 DEF RosterInv, MailOf

\* close(): nothing current is left.
LEMMA ClosesOne ==
  ASSUME Base, RosterInv, NEW ts, NEW v, Closes(ts, v), host' = host,
         BagToSet(ts) \subseteq InTasks, \A x \in InTasks : x.kind = "switch" => x \in BagToSet(ts),
         \A x \in BagToSet(ts) : x.kind = "switch" => ts[x] = 1,
         v.identity = view.identity, v.roster \subseteq MailOf(view.identity)
  PROVE  RosterInv'
<1> DEFINE F == Fenced(ts)
<1>1. tasks' = F /\ drawer' = FALSE /\ timer' = FALSE /\ view' = v BY DEF Closes
<1>2. /\ \A u \in BagToSet(F) : u.kind = "switch" =>
           F[u] = 1 /\ \A w \in BagToSet(F) : w.kind = "switch" => w = u
      /\ \A u \in BagToSet(F) : ~u.fresh /\ \E t \in BagToSet(ts) : u.kind = t.kind
      /\ \A t \in BagToSet(ts) : \E u \in BagToSet(F) : u.kind = t.kind
  BY FencedSwitch
<1> HIDE DEF F
<1>3. InTasks' = BagToSet(F) BY <1>1 DEF InTasks
<1>4. Moving' <=> Moving
  <2>1. ASSUME Moving PROVE Moving'
    <3>1. PICK s \in InTasks : s.kind = "switch" BY <2>1 DEF Moving
    <3>2. PICK u \in BagToSet(F) : u.kind = s.kind BY <3>1, <1>2
    <3> QED BY <3>1, <3>2, <1>3 DEF Moving
  <2>2. ASSUME Moving' PROVE Moving
    <3>1. PICK u \in InTasks' : u.kind = "switch" BY <2>2 DEF Moving
    <3>2. PICK t \in BagToSet(ts) : u.kind = t.kind BY <3>1, <1>2, <1>3
    <3> QED BY <3>1, <3>2 DEF Moving
  <2> QED BY <2>1, <2>2
<1>5. OneSwitch' BY <1>1, <1>2, <1>3 DEF OneSwitch
<1>6. \A x \in InTasks' : ~x.fresh BY <1>2, <1>3
<1>7. OneLoad' /\ Listing' BY <1>6 DEF OneLoad, Listing
<1>8. Quiet'
  <2>1. Moving' => \A x \in InTasks' : x.kind # "login" BY <1>2, <1>3, <1>4 DEF RosterInv, Quiet
  <2> QED BY <2>1, <1>1, <1>6 DEF Quiet, Loading
<1>9. Steady' BY <1>1, <1>4, <1>6 DEF RosterInv, Steady, Loading
<1>10. view'.roster \subseteq MailOf(view'.identity) BY <1>1
<1> QED BY <1>5, <1>7, <1>8, <1>9, <1>10 DEF RosterInv, MailOf

\* A task that is not the switch leaves it as it is.
LEMMA OthersSwitch ==
  ASSUME Base, RosterInv, NEW t \in InTasks
  PROVE  /\ BagToSet(Others(t)) \subseteq InTasks
         /\ \A x \in BagToSet(Others(t)) : x.kind = "switch" => Others(t)[x] = 1 /\ t.kind # "switch"
         /\ t.kind # "switch" => \A x \in InTasks : x.kind = "switch" => x \in BagToSet(Others(t))
<1>1. /\ BagToSet(Others(t)) \subseteq InTasks /\ InTasks \ {t} \subseteq BagToSet(Others(t))
      /\ tasks[t] = 1 => t \notin BagToSet(Others(t))
      /\ \A x \in BagToSet(Others(t)) \ {t} : Others(t)[x] = tasks[x]
  BY Removing DEF Others, InTasks
<1>2. \A x \in InTasks : x.kind = "switch" =>
        tasks[x] = 1 /\ \A y \in InTasks : y.kind = "switch" => y = x
  BY DEF RosterInv, OneSwitch
<1> QED BY <1>1, <1>2

LEMMA Unmoved ==
  ASSUME Base, ~Switching PROVE ~Moving
BY DEF Switching, Moving, InTasks
LEMMA OpensOne ==
  ASSUME Base, RosterInv, ~Moving, NEW ts, BagToSet(ts) \subseteq InTasks,
         \A x \in BagToSet(ts) : Loading(x) => ts[x] = tasks[x],
         Opens(ts), UNCHANGED remote, cursor' = cursor
  PROVE  RosterInv'
<1>1. drawer' = TRUE /\ host' = host BY DEF Opens, remote
<1>2. view.identity \in {Nobody, host.tenant} BY DEF RosterInv, Steady
<1>3. \A x \in BagToSet(ts) : x.kind # "switch" BY DEF Moving
<1>4. CASE Switching \/ Opening
  <2>1. tasks' = ts /\ view' = view /\ timer' = timer BY <1>4 DEF Opens
  <2>2. InTasks' = BagToSet(ts) BY <2>1 DEF InTasks
  <2>3. ~Moving' BY <1>3, <2>2 DEF Moving
  <2>4. OneSwitch' BY <2>3 DEF OneSwitch, Moving
  <2>5. OneLoad' BY <2>1, <2>2 DEF RosterInv, OneLoad, Loading
  <2>6. Quiet' BY <2>3 DEF Quiet
  <2>7. Steady' BY <1>1, <2>1, <2>2 DEF RosterInv, Steady, Loading
  <2>8. Listing' BY <2>1, <2>2 DEF RosterInv, Listing
  <2> QED BY <2>1, <2>4, <2>5, <2>6, <2>7, <2>8 DEF RosterInv, MailOf
<1>5. CASE ~(Switching \/ Opening)
  <2> DEFINE how == {"opens"} \cup Keeping
  <2>1. Loads(ts, how) BY <1>5 DEF Opens
  <2>2. how \in SUBSET {"opens", "keeps", "switches"} BY DEF Keeping
  <2> HIDE DEF how
  <2> QED BY <1>1, <1>2, <1>3, <2>1, <2>2, LoadsOne
<1> QED BY <1>4, <1>5

LEMMA SwitchTenantOne ==
  ASSUME PatientUser, Base, RosterInv, NEW tenant \in Tenants, SwitchTenant(tenant)
  PROVE  RosterInv'
<1> DEFINE s == [New("switch", "change") EXCEPT !.owner = tenant]
           F == Fenced(tasks)
<1>1. /\ tasks' = BagAdd(F, s) /\ timer' = FALSE /\ ~Switching /\ ~InFlight({"login"})
      /\ view' = [InitialView EXCEPT !.status = "loading"] /\ UNCHANGED <<remote, drawer>>
  BY DEF SwitchTenant
<1>2. s.kind = "switch" /\ s.how = {} /\ s.fresh /\ s.at = "change" BY DEF New
<1>3. ~Moving BY <1>1, Unmoved
<1>4. \A u \in BagToSet(F) : ~u.fresh /\ \E t \in InTasks : u.kind = t.kind
  BY <1>3, FencedSwitch DEF Moving, InTasks
<1> HIDE DEF s, F
<1>5. InTasks' = BagToSet(F) \cup {s} /\ tasks'[s] = 1 BY <1>1, <1>2, <1>4, Adding DEF InTasks
<1>6. \A x \in BagToSet(F) : x.kind \notin {"switch", "login"}
  BY <1>1, <1>3, <1>4 DEF Moving, InFlight, InTasks
<1>7. OneSwitch' BY <1>2, <1>5, <1>6 DEF OneSwitch
<1>8. \A x \in InTasks' : ~Loading(x) BY <1>2, <1>4, <1>5 DEF Loading
<1>9. OneLoad' BY <1>8 DEF OneLoad, Loading
<1>10. view'.status = "loading" /\ view'.identity = Nobody /\ view'.roster = {}
  BY <1>1, LoadingView
<1>11. Quiet' BY <1>1, <1>2, <1>5, <1>6, <1>8, <1>10 DEF Quiet, Loading
<1>12. Moving' BY <1>2, <1>5 DEF Moving
<1>13. Steady' BY <1>12 DEF Steady
<1>14. Listing' BY <1>2, <1>4, <1>5 DEF Listing
<1> QED BY <1>7, <1>9, <1>10, <1>11, <1>13, <1>14 DEF RosterInv

LEMMA SelectOne ==
  ASSUME Base, RosterInv, NEW c \in view.roster \cup {NoConversation}, Select(c)
  PROVE  RosterInv'
<1> DEFINE L == Left(tasks)
           n == NewFor("select", "local", c, sent[c])
<1>1. /\ drawer /\ view.status = "ready" /\ UNCHANGED <<remote, drawer, timer>>
      /\ tasks' = L \/ tasks' = BagAdd(L, n)
      /\ view' = [view EXCEPT !.selected = c, !.more = FALSE,
                              !.busy = IF c = NoConversation THEN "no" ELSE "local",
                              !.rows = IF c = view.selected THEN @ ELSE <<>>]
  BY DEF Select
<1>2. view'.identity = view.identity /\ view'.roster = view.roster
  BY <1>1 DEF Base, Shown, Views
<1>3. n.kind = "select" /\ n.at = "local" BY DEF NewFor, New
<1>4. \A u \in BagToSet(L) :
        \E t \in InTasks : u = Leave(t) /\ Like(u, t) /\ u.fresh = t.fresh
  BY Leaving DEF Base, InTasks
<1> HIDE DEF n, L
<1>5. /\ InTasks' \subseteq BagToSet(L) \cup {n}
      /\ \A x \in BagToSet(L) \ {n} : tasks'[x] = L[x]
  BY <1>1, Adding DEF InTasks
<1>6. ~Moving BY <1>1 DEF RosterInv, Quiet
<1>7. ~Moving' BY <1>3, <1>4, <1>5, <1>6 DEF Moving, Like
<1>8. OneSwitch' /\ Quiet' BY <1>7 DEF OneSwitch, Quiet, Moving
<1>9. OneLoad'
  <2> SUFFICES ASSUME NEW u \in InTasks', u.kind = "load", u.fresh
               PROVE  tasks'[u] = 1 /\ ~timer' /\ \A x \in InTasks' : Loading(x) => x = u
    BY DEF OneLoad, Loading
  <2>1. u \in BagToSet(L) \ {n} BY <1>3, <1>5
  <2>2. PICK l \in InTasks : u = Leave(l) /\ l.kind = "load" /\ l.fresh BY <1>4, <2>1 DEF Like
  <2>3. tasks[l] = 1 /\ ~timer /\ \A y \in InTasks : Loading(y) => y = l
    BY <2>2 DEF RosterInv, OneLoad
  <2>4. \A y \in InTasks : Leave(y) = Leave(l) => y = l
    <3> SUFFICES ASSUME NEW y \in InTasks, Leave(y) = Leave(l) PROVE y = l OBVIOUS
    <3>1. y \in Task /\ l \in Task BY Known
    <3>2. y.kind = l.kind /\ y.fresh = l.fresh BY <3>1 DEF Leave, Task
    <3> QED BY <2>2, <2>3, <3>2 DEF Loading
  <2>5. L[u] = 1
    <3>1. \A y \in InTasks : Shape(y) BY DEF Base
    <3> QED BY <2>2, <2>3, <2>4, <3>1, LeftAlone DEF L, InTasks
  <2>6. ASSUME NEW x \in InTasks', Loading(x) PROVE x = u
    <3>1. x \in BagToSet(L) BY <1>3, <1>5, <2>6 DEF Loading
    <3>2. PICK y \in InTasks : x = Leave(y) /\ Loading(y) BY <1>4, <2>6, <3>1 DEF Like, Loading
    <3> QED BY <2>2, <2>3, <3>2
  <2> QED BY <1>1, <1>5, <2>1, <2>3, <2>5, <2>6
<1>10. host' = host BY <1>1 DEF remote
<1>11. Steady' BY <1>2, <1>3, <1>4, <1>5, <1>6, <1>10 DEF RosterInv, Steady, Loading, Like
<1>12. Listing' BY <1>2, <1>3, <1>4, <1>5 DEF RosterInv, Listing, Like
<1> QED BY <1>2, <1>8, <1>9, <1>11, <1>12 DEF RosterInv, MailOf

\* The session answers: the view becomes that of the identity the load is for.
LEMMA LoadAnswersOne ==
  ASSUME Base, RosterInv, NEW t \in InTasks, LoadAnswers(t)
  PROVE  RosterInv'
<1>1. /\ t.kind = "load" /\ t.at = "session" /\ UNCHANGED <<remote, drawer>>
  BY DEF LoadAnswers, Is
<1>2. view \in Views /\ view.roster \subseteq MailOf(view.identity) /\ host' = host
  BY <1>1, Known DEF RosterInv, remote
<1>3. CASE ~t.fresh /\ Ends(t) /\ UNCHANGED <<view, timer>> BY <1>1, <1>2, <1>3, EndsOne
<1>4. ASSUME t.fresh, NEW who \in Identities(t), Goes(t, "access"), UNCHANGED timer,
             LET session == IF who = Nobody THEN "signed-out" ELSE "active"
                 same == "keeps" \in t.how /\ view.identity = who /\ view.session = session
             IN view' = [(IF same THEN view ELSE InitialView) EXCEPT
                          !.status = "ready", !.session = session, !.identity = who]
      PROVE  RosterInv'
  <2> DEFINE session == IF who = Nobody THEN "signed-out" ELSE "active"
             v == IF "keeps" \in t.how /\ view.identity = who /\ view.session = session
                  THEN view ELSE InitialView
             u == [t EXCEPT !.at = "access", !.owner = HostIdentity]
  <2>1. view' = [v EXCEPT !.status = "ready", !.session = session, !.identity = who] BY <1>4
  <2>2. (v = view /\ view.identity = who) \/ v = InitialView OBVIOUS
  <2>3. v \in Views BY <1>2, BlankView
  <2> HIDE DEF v, session
  <2>4. view'.identity = who /\ view'.roster = v.roster BY <2>1, <2>3 DEF Views
  <2>5. view'.roster \subseteq MailOf(view'.identity) BY <1>2, <2>2, <2>4, BlankView
  <2>6. /\ u.kind = t.kind /\ u.how = t.how /\ u.fresh = t.fresh /\ u.at = "access"
        /\ u.owner = HostIdentity /\ Becomes(t, u)
    BY <1>1, <1>4, GoesShape DEF Goes
  <2> HIDE DEF u
  <2>7. Loading(t) BY <1>1, <1>4 DEF Loading
  <2>8. tasks[t] = 1 /\ \A y \in InTasks : Loading(y) => y = t
    BY <1>1, <1>4 DEF RosterInv, OneLoad
  <2>9. ~Moving => view'.identity \in {Nobody, host.tenant}
    BY <2>4, <2>7, WhoAnswers DEF RosterInv, Steady, Identities
  <2>10. \A x \in InTasks' : x.fresh => x.at \notin {"list", "roster"}
    <3> SUFFICES ASSUME NEW x \in InTasks', x.fresh, x.at \in {"list", "roster"} PROVE FALSE
      OBVIOUS
    <3>1. x \in InTasks /\ x # t BY <1>1, <2>6, Became
    <3>2. x.kind \in {"load", "poll"} BY <3>1, Known DEF Shape, Task
    <3> QED BY <2>8, <3>1, <3>2 DEF Loading
  <2> QED BY <1>1, <1>2, <1>4, <2>5, <2>6, <2>7, <2>9, <2>10, BecomesOne
<1>5. ASSUME t.fresh, view' = [view EXCEPT !.status = IF @ = "loading" THEN "error" ELSE @],
             IF GoesOnWithout(t) THEN Opened(t) ELSE Ends(t) /\ UNCHANGED timer
      PROVE  RosterInv'
  <2>1. view'.roster = view.roster /\ view'.identity = view.identity BY <1>2, <1>5 DEF Views
  <2>2. Ends(t) /\ (timer' = timer \/ timer' = (timer \/ (t.fresh /\ drawer))) BY <1>5 DEF Opened
  <2>3. Loading(t) BY <1>1, <1>5 DEF Loading
  <2> QED BY <1>1, <1>2, <2>1, <2>2, <2>3, EndsOne
<1> QED BY <1>3, <1>4, <1>5 DEF LoadAnswers
LEMMA LoadReadyOne ==
  ASSUME Base, RosterInv, NEW t \in InTasks, LoadReady(t)
  PROVE  RosterInv'
<1>1. /\ t.kind = "load" /\ t.at = "access" /\ host' = host /\ drawer' = drawer /\ view' = view
  BY DEF LoadReady, Is, remote
<1>2. view.roster \subseteq MailOf(view.identity) BY DEF RosterInv
<1>3. CASE Ends(t) /\ UNCHANGED timer BY <1>1, <1>2, <1>3, EndsOne
<1>4. CASE Opened(t) BY <1>1, <1>2, <1>4, EndsOne DEF Opened
<1>5. CASE /\ t.fresh /\ drawer /\ "opens" \in t.how /\ view.identity # Nobody
           /\ Goes(t, "list") /\ UNCHANGED timer
  <2> DEFINE u == [t EXCEPT !.at = "list", !.owner = HostIdentity]
  <2>1. /\ u.kind = t.kind /\ u.how = t.how /\ u.fresh = t.fresh /\ u.at = "list"
        /\ u.owner = HostIdentity /\ Becomes(t, u)
    BY <1>1, <1>5, GoesShape DEF Goes
  <2> HIDE DEF u
  <2>2. ~Moving => view.identity \in {Nobody, host.tenant} BY DEF RosterInv, Steady
  <2> QED BY <1>1, <1>2, <1>5, <2>1, <2>2, BecomesOne
<1> QED BY <1>3, <1>4, <1>5 DEF LoadReady

LEMMA BlocksOne ==
  ASSUME Base, RosterInv, NEW t \in InTasks, t.kind # "switch", Blocks(t), UNCHANGED remote
  PROVE  RosterInv'
<1>1. host' = host /\ view.roster \subseteq MailOf(view.identity) BY DEF RosterInv, remote
<1>2. CASE Ends(t) /\ UNCHANGED <<view, cursor, drawer, timer>> BY <1>1, <1>2, EndsOne
<1>3. CASE Closes(Others(t), [InitialView EXCEPT !.status = "ready", !.session = "blocked",
                                                 !.identity = view.identity])
  <2> DEFINE v == [InitialView EXCEPT !.status = "ready", !.session = "blocked",
                                      !.identity = view.identity]
  <2>1. v.identity = view.identity /\ v.roster = {} BY DEF InitialView
  <2>2. Closes(Others(t), v) BY <1>3
  <2> HIDE DEF v
  <2> QED BY <1>1, <2>1, <2>2, OthersSwitch, ClosesOne
<1> QED BY <1>2, <1>3 DEF Blocks

\* A roster that is listed is that of the identity the view shows.
LEMMA ListsOne ==
  ASSUME Base, RosterInv, NEW t \in InTasks, t.kind \in {"load", "poll"},
         t.at \in {"list", "roster"}, Lists(t)
  PROVE  /\ view'.identity = view.identity /\ view'.status = view.status
         /\ view'.roster \subseteq MailOf(view.identity)
<1>1. view \in Views /\ view.roster \subseteq MailOf(view.identity) BY Known DEF RosterInv
<1>2. ASSUME t.fresh, NEW who \in Identities(t), who # Nobody,
             view' = [view EXCEPT !.roster = Mail[who] \cup @]
      PROVE  /\ view'.identity = view.identity /\ view'.status = view.status
             /\ view'.roster \subseteq MailOf(view.identity)
  <2>1. /\ view'.identity = view.identity /\ view'.status = view.status
        /\ view'.roster = Mail[who] \cup view.roster
    BY <1>1, <1>2 DEF Views
  <2>2. Loading(t) /\ drawer BY <1>2, Mounted DEF Loading
  <2>3. ~Moving BY <2>2 DEF RosterInv, Quiet
  <2>4. view.identity \in {Nobody, host.tenant} /\ t.owner \in {Nobody, host.tenant}
    BY <2>2, <2>3 DEF RosterInv, Steady
  <2>5. view.identity # Nobody BY <1>2 DEF RosterInv, Listing
  <2>6. who = view.identity BY <1>2, <2>4, <2>5, WhoAnswers DEF Identities
  <2>7. MailOf(view.identity) = Mail[who] BY <2>5, <2>6 DEF MailOf
  <2> QED BY <1>1, <2>1, <2>7
<1>3. CASE UNCHANGED view BY <1>1, <1>3
<1> QED BY <1>2, <1>3 DEF Lists

LEMMA LoadListOne ==
  ASSUME Base, RosterInv, NEW t \in InTasks, LoadList(t)
  PROVE  RosterInv'
<1>1. t.kind = "load" /\ t.at = "list" /\ UNCHANGED remote /\ host' = host
  BY DEF LoadList, Is, remote
<1>2. CASE Blocks(t) BY <1>1, <1>2, BlocksOne
<1>3. CASE Lists(t) /\ UNCHANGED drawer /\ t.fresh /\ Goes(t, "roster") /\ UNCHANGED timer
  <2> DEFINE u == [t EXCEPT !.at = "roster", !.owner = HostIdentity]
  <2>1. "opens" \in t.how BY <1>1, Known DEF Shape
  <2>2. /\ u.kind = t.kind /\ u.how = t.how /\ u.fresh = t.fresh /\ u.at = "roster"
        /\ u.owner = HostIdentity /\ Becomes(t, u)
    BY <1>1, <1>3, <2>1, GoesShape DEF Goes
  <2> HIDE DEF u
  <2>3. /\ view'.identity = view.identity /\ view'.status = view.status
        /\ view'.roster \subseteq MailOf(view.identity)
    BY <1>1, <1>3, ListsOne
  <2>4. view.identity # Nobody BY <1>1, <1>3 DEF RosterInv, Listing
  <2>5. ~Moving => view.identity \in {Nobody, host.tenant} BY DEF RosterInv, Steady
  <2> QED BY <1>1, <1>3, <2>2, <2>3, <2>4, <2>5, BecomesOne
<1>4. CASE Lists(t) /\ UNCHANGED drawer /\ Opened(t)
  <2>1. /\ view'.identity = view.identity /\ view'.status = view.status
        /\ view'.roster \subseteq MailOf(view.identity)
    BY <1>1, <1>4, ListsOne
  <2> QED BY <1>1, <1>4, <2>1, EndsOne DEF Opened
<1> QED BY <1>2, <1>3, <1>4 DEF LoadList

\* The finally block of poll(), in a step that leaves whose view it is.
LEMMA PolledOne ==
  ASSUME Base, RosterInv, NEW t \in InTasks, t.kind \in {"load", "poll"}, Polled(t),
         UNCHANGED <<remote, drawer>>, view'.status = view.status,
         view'.identity = view.identity, view'.roster \subseteq MailOf(view.identity)
  PROVE  RosterInv'
<1>1. host' = host BY DEF remote
<1>2. CASE t.kind = "load" BY <1>1, <1>2, EndsOne DEF Polled, Opened
<1>3. CASE t.kind # "load" BY <1>1, <1>3, EndsOne DEF Polled
<1> QED BY <1>2, <1>3

LEMMA PollRosterOne ==
  ASSUME Base, RosterInv, NEW t \in InTasks, PollRoster(t)
  PROVE  RosterInv'
<1>1. t.at = "roster" /\ UNCHANGED remote /\ host' = host BY DEF PollRoster, remote
<1>2. t.kind = "poll" \/ (t.kind = "load" /\ "opens" \in t.how) BY <1>1, Polling
<1>3. CASE Blocks(t) BY <1>1, <1>2, <1>3, BlocksOne
<1>4. ASSUME Lists(t)
      PROVE  /\ view'.identity = view.identity /\ view'.status = view.status
             /\ view'.roster \subseteq MailOf(view.identity)
  BY <1>1, <1>2, <1>4, ListsOne
<1>5. CASE /\ Lists(t) /\ UNCHANGED drawer /\ t.fresh /\ view.selected # NoConversation
           /\ Reads(t, "history", view.selected) /\ UNCHANGED timer
  <2>1. view.selected \in Conversations \ {NoConversation} BY <1>5, Known DEF Views
  <2> DEFINE c == view.selected
  <2> HIDE DEF c
  <2>6. c \in Conversations \ {NoConversation} /\ Reads(t, "history", c) BY <1>5, <2>1 DEF c
  <2>2. PICK u : /\ Becomes(t, u)
                 /\ Shape(u) /\ u.kind = t.kind /\ u.how = t.how /\ u.fresh = t.fresh
                 /\ u.at = "history" /\ u.owner = HostIdentity
    BY <1>2, <2>6, ReadsShape
  <2>3. view.identity # Nobody BY <1>1, <1>5 DEF RosterInv, Listing
  <2>4. ~Moving => view.identity \in {Nobody, host.tenant} BY DEF RosterInv, Steady
  <2> QED BY <1>1, <1>4, <1>5, <2>2, <2>3, <2>4, BecomesOne
<1>6. CASE Lists(t) /\ UNCHANGED drawer /\ Polled(t) BY <1>1, <1>2, <1>4, <1>6, PolledOne
<1> QED BY <1>3, <1>5, <1>6 DEF PollRoster
\* What else answers leaves whose view it is, and asks for no roster.
LEMMA StaysOne ==
  ASSUME Base, RosterInv, NEW t \in InTasks, NEW u, Becomes(t, u),
         u.kind = t.kind, u.how = t.how, u.fresh = t.fresh, u.at # t.at,
         u.at \notin {"list", "roster"}, u.owner \in {t.owner, HostIdentity},
         drawer' = drawer, timer' = timer, ~Moving => host'.tenant = host.tenant,
         view'.status = view.status, view'.identity = view.identity, view'.roster = view.roster
  PROVE  RosterInv'
<1>1. \A x \in InTasks' : x.fresh /\ x.at \in {"list", "roster"} => view'.identity # Nobody
  <2>1. InTasks' \subseteq InTasks \cup {u} BY Became
  <2> QED BY <2>1 DEF RosterInv, Listing
<1>2. ~Moving => view'.identity \in {Nobody, host.tenant} BY DEF RosterInv, Steady
<1>3. view'.roster \subseteq MailOf(view'.identity) BY DEF RosterInv
<1> QED BY <1>1, <1>2, <1>3, BecomesOne

LEMMA EndsStill ==
  ASSUME Base, RosterInv, NEW t \in InTasks, Ends(t), t.kind # "switch",
         drawer' = drawer, timer' = timer, host' = host,
         view'.status = view.status, view'.identity = view.identity, view'.roster = view.roster
  PROVE  RosterInv'
<1>1. view'.roster \subseteq MailOf(view.identity) BY DEF RosterInv
<1> QED BY <1>1, EndsOne

\* Nothing but what the view shows of the conversation changes.
Same == view'.status = view.status /\ view'.identity = view.identity /\ view'.roster = view.roster

LEMMA SameRows ==
  ASSUME Base,
         \/ view' = view
         \/ \E r : view' = [view EXCEPT !.rows = r]
         \/ \E b : view' = [view EXCEPT !.busy = b]
         \/ \E r, b : view' = [view EXCEPT !.rows = r, !.busy = b]
         \/ \E r, m : view' = [view EXCEPT !.rows = r, !.more = m]
         \/ \E r, m, b : view' = [view EXCEPT !.rows = r, !.more = m, !.busy = b]
  PROVE  Same
<1>1. view \in Views BY DEF Base, Shown
<1> QED BY <1>1 DEF Views, Same

LEMMA PollHistoryOne ==
  ASSUME Base, RosterInv, NEW t \in InTasks, PollHistory(t)
  PROVE  RosterInv'
<1>1. t.at = "history" /\ UNCHANGED remote /\ drawer' = drawer /\ host' = host
  BY DEF PollHistory, remote
<1>2. t.kind \in {"load", "poll"} BY <1>1, Polling
<1>3. Same BY SameRows DEF PollHistory
<1>4. CASE Polled(t)
  <2>1. view'.roster \subseteq MailOf(view.identity) BY <1>3 DEF Same, RosterInv
  <2> QED BY <1>1, <1>2, <1>3, <1>4, <2>1, PolledOne DEF Same
<1>5. ASSUME NEW n, Becomes(t, [t EXCEPT !.at = "profiles", !.top = n]), UNCHANGED timer
      PROVE  RosterInv'
  <2> DEFINE u == [t EXCEPT !.at = "profiles", !.top = n]
  <2>1. /\ u.kind = t.kind /\ u.how = t.how /\ u.fresh = t.fresh /\ u.at = "profiles"
        /\ u.owner = t.owner
    BY Known DEF Task
  <2>2. Becomes(t, u) BY <1>5
  <2> HIDE DEF u
  <2> QED BY <1>1, <1>3, <1>5, <2>1, <2>2, StaysOne DEF Same
<1> QED BY <1>4, <1>5 DEF PollHistory

LEMMA PollProfilesOne ==
  ASSUME Base, RosterInv, NEW t \in InTasks, PollProfiles(t)
  PROVE  RosterInv'
<1>1. t.at = "profiles" /\ UNCHANGED <<remote, drawer>> /\ Polled(t) BY DEF PollProfiles
<1>2. t.kind \in {"load", "poll"} BY <1>1, Polling
<1>3. Same BY SameRows DEF PollProfiles
<1>4. view'.roster \subseteq MailOf(view.identity) BY <1>3 DEF Same, RosterInv
<1> QED BY <1>1, <1>2, <1>3, <1>4, PolledOne DEF Same

LEMMA SelectingOne ==
  ASSUME Base, RosterInv, NEW t \in InTasks,
         LocalAnswers(t) \/ RemoteAnswers(t) \/ CommittedAnswers(t)
  PROVE  RosterInv'
<1>1. t.kind = "select" /\ UNCHANGED <<remote, drawer, timer>>
  BY DEF LocalAnswers, RemoteAnswers, CommittedAnswers, Is
<1>2. host' = host /\ drawer' = drawer /\ timer' = timer BY <1>1 DEF remote
<1>3. CASE Ends(t) /\ Same BY <1>1, <1>2, <1>3, EndsStill DEF Same
<1>4. CASE Reads(t, "remote", t.conv) /\ t.at = "local" /\ Same
  <2>1. t.conv \in Conversations \ {NoConversation} BY <1>1, Selecting
  <2> DEFINE c == t.conv
  <2> HIDE DEF c
  <2>2. c \in Conversations \ {NoConversation} /\ Reads(t, "remote", c) BY <1>4, <2>1 DEF c
  <2>3. PICK u : /\ Becomes(t, u)
                 /\ Shape(u) /\ u.kind = t.kind /\ u.how = t.how /\ u.fresh = t.fresh
                 /\ u.at = "remote" /\ u.owner = HostIdentity
    BY <1>1, <2>2, ReadsShape
  <2> QED BY <1>2, <1>4, <2>3, StaysOne DEF Same
<1>5. ASSUME NEW n, Same, t.at = "remote",
             Becomes(t, [t EXCEPT !.at = "committed", !.floor = sent[t.conv], !.top = n])
      PROVE  RosterInv'
  <2> DEFINE u == [t EXCEPT !.at = "committed", !.floor = sent[t.conv], !.top = n]
  <2>1. /\ u.kind = t.kind /\ u.how = t.how /\ u.fresh = t.fresh /\ u.at = "committed"
        /\ u.owner = t.owner
    BY Known DEF Task
  <2>2. Becomes(t, u) BY <1>5
  <2> HIDE DEF u
  <2> QED BY <1>2, <1>5, <2>1, <2>2, StaysOne DEF Same
<1>6. CASE LocalAnswers(t)
  <2>1. Same BY <1>6, SameRows DEF LocalAnswers
  <2> QED BY <1>3, <1>4, <1>6, <2>1 DEF LocalAnswers, Abandons, Is
<1>7. CASE RemoteAnswers(t)
  <2>1. Same BY <1>7, SameRows DEF RemoteAnswers
  <2> QED BY <1>3, <1>5, <1>7, <2>1 DEF RemoteAnswers, Abandons, Is
<1>8. CASE CommittedAnswers(t)
  <2> DEFINE b == NextCursor(t.top) # 0
             rows(n) == MergeLatest(view.rows, Page(t.conv, n))
  <2> HIDE DEF b, rows
  <2>2. \/ view' = view
        \/ \E n \in Lengths(t) : view' = [view EXCEPT !.rows = rows(n), !.more = b, !.busy = "no"]
        \/ view' = [view EXCEPT !.busy = "no"]
    BY <1>8 DEF CommittedAnswers, rows, b
  <2>1. Same BY <2>2, SameRows
  <2> QED BY <1>3, <1>8, <2>1 DEF CommittedAnswers, Abandons
<1> QED BY <1>6, <1>7, <1>8

LEMMA RequestsOne ==
  ASSUME Base, RosterInv, NEW t \in InTasks, OlderAnswers(t) \/ SendAnswers(t) \/ Accepts(t)
  PROVE  RosterInv'
<1>1. /\ t.kind \in {"older", "send"} /\ drawer' = drawer /\ timer' = timer /\ host' = host
  BY DEF OlderAnswers, SendAnswers, Accepts, Is, remote
<1>2. CASE OlderAnswers(t)
  <2>1. Same BY <1>2, SameRows DEF OlderAnswers
  <2> QED BY <1>1, <1>2, <2>1, EndsStill DEF OlderAnswers, Same
<1>3. CASE SendAnswers(t)
  <2>1. Same BY <1>3, SameRows DEF SendAnswers
  <2> QED BY <1>1, <1>3, <2>1, EndsStill DEF SendAnswers, Same
<1>4. CASE Accepts(t)
  <2>1. Same BY <1>4, SameRows DEF Accepts
  <2> DEFINE n == sent[t.conv] + 1
             u == [t EXCEPT !.at = "answer", !.top = n]
  <2>2. Becomes(t, u) /\ t.at = "change" BY <1>4 DEF Accepts, Is
  <2> HIDE DEF n
  <2>3. /\ u.kind = t.kind /\ u.how = t.how /\ u.fresh = t.fresh /\ u.at = "answer"
        /\ u.owner = t.owner
    BY Known DEF Task
  <2> HIDE DEF u
  <2> QED BY <1>1, <2>1, <2>2, <2>3, StaysOne DEF Same
<1> QED BY <1>2, <1>3, <1>4

LEMMA HostChangesOne ==
  ASSUME Base, RosterInv, NEW t \in InTasks, HostChanges(t)
  PROVE  RosterInv'
<1>1. /\ t.kind \in {"login", "logout", "switch"} /\ t.at = "change"
      /\ view' = view /\ drawer' = drawer /\ timer' = timer
  BY DEF HostChanges
<1>2. t.kind # "switch" => host'.tenant = host.tenant
  <2>1. host \in [tenant : Tenants, active : BOOLEAN, revoked : SUBSET Tenants] BY DEF Base, Typed
  <2> QED BY <2>1 DEF HostChanges
<1>3. CASE Becomes(t, [t EXCEPT !.at = "answer"])
  <2> DEFINE u == [t EXCEPT !.at = "answer"]
  <2>1. /\ u.kind = t.kind /\ u.how = t.how /\ u.fresh = t.fresh /\ u.at = "answer"
        /\ u.owner = t.owner
    BY Known DEF Task
  <2>2. Becomes(t, u) BY <1>3
  <2> HIDE DEF u
  <2>3. ~Moving => host'.tenant = host.tenant BY <1>1, <1>2 DEF Moving
  <2> QED BY <1>1, <2>1, <2>2, <2>3, StaysOne
<1>4. CASE Ends(t) /\ t.kind # "switch" /\ host' = host BY <1>1, <1>4, EndsStill
<1> QED BY <1>3, <1>4 DEF HostChanges

\* Without a drawer there is nothing to keep when a switch of tenants has been answered.
LEMMA ChangeAnswersOne ==
  ASSUME Base, RosterInv, NEW t \in InTasks, ChangeAnswers(t)
  PROVE  RosterInv'
<1>1. UNCHANGED remote BY DEF ChangeAnswers
<1>2. /\ BagToSet(Others(t)) \subseteq InTasks
      /\ \A x \in BagToSet(Others(t)) : x.kind = "switch" => Others(t)[x] = 1 /\ t.kind # "switch"
  BY OthersSwitch
<1>3. CASE t.kind = "login" /\ Opens(Others(t)) /\ UNCHANGED cursor
  <2>1. ~Moving BY <1>3 DEF RosterInv, Quiet
  <2>2. \A x \in BagToSet(Others(t)) : Loading(x) => Others(t)[x] = tasks[x]
    BY <1>3, Removing DEF Others, InTasks, Loading
  <2> QED BY <1>1, <1>2, <1>3, <2>1, <2>2, OpensOne
<1>4. CASE drawer' = FALSE /\ cursor' = 0 /\ Loads(Others(t), {})
  BY <1>1, <1>2, <1>4, LoadsOne
<1>5. CASE /\ t.kind = "switch" /\ UNCHANGED <<cursor, drawer>>
           /\ Loads(Others(t), {"switches"} \cup IF drawer THEN {"opens"} \cup Keeping ELSE {})
  <2> DEFINE how == {"switches"} \cup IF drawer THEN {"opens"} \cup Keeping ELSE {}
  <2>1. drawer => view.status = "loading" BY <1>5 DEF RosterInv, Quiet, Moving
  <2>2. /\ how \in SUBSET {"opens", "keeps", "switches"} /\ ("opens" \in how => drawer)
        /\ "keeps" \notin how
    BY <2>1 DEF Keeping
  <2>3. Loads(Others(t), how) BY <1>5
  <2> HIDE DEF how
  <2>4. drawer' \in BOOLEAN /\ drawer' = drawer BY <1>5 DEF Base, Typed
  <2> QED BY <1>1, <1>2, <1>5, <2>2, <2>3, <2>4, LoadsOne
<1> QED BY <1>3, <1>4, <1>5 DEF ChangeAnswers
LEMMA AsideOne ==
  ASSUME Base, RosterInv, UNCHANGED <<view, drawer, timer, tasks>>, host'.tenant = host.tenant
  PROVE  RosterInv'
<1>1. InTasks' = InTasks BY DEF InTasks
<1>2. Moving' <=> Moving BY <1>1 DEF Moving
<1>3. OneSwitch' /\ OneLoad' BY <1>1 DEF RosterInv, OneSwitch, OneLoad, Loading
<1>4. Quiet' BY <1>1, <1>2 DEF RosterInv, Quiet, Loading
<1>5. Steady' /\ Listing' BY <1>1, <1>2 DEF RosterInv, Steady, Listing, Loading
<1> QED BY <1>3, <1>4, <1>5 DEF RosterInv, MailOf

LEMMA UserOne ==
  ASSUME PatientUser, Base, RosterInv, User
  PROVE  RosterInv'
<1>1. CASE Open
  <2>1. ~Moving BY <1>1, Unmoved DEF Open, Patient
  <2> QED BY <1>1, <2>1, OpensOne DEF Open, InTasks
<1>2. CASE Close
  <2>1. Closes(tasks, view) /\ host' = host BY <1>2 DEF Close, remote
  <2>2. \A x \in InTasks : x.kind = "switch" => tasks[x] = 1 BY DEF RosterInv, OneSwitch
  <2>3. view.roster \subseteq MailOf(view.identity) BY DEF RosterInv
  <2> QED BY <2>1, <2>2, <2>3, ClosesOne DEF InTasks
<1>3. ASSUME NEW u, Acts(u), u.kind \in {"older", "send"}, u.at \in {"answer", "change"}
      PROVE  RosterInv'
  <2>1. /\ tasks' = BagAdd(tasks, u) /\ host' = host
        /\ view' = view /\ drawer' = drawer /\ timer' = timer
    BY <1>3 DEF Acts, remote
  <2> QED BY <1>3, <2>1, BeginsOne DEF Loading
<1>4. CASE LoadOlder
  <2> DEFINE u == [NewFor("older", "answer", view.selected, sent[view.selected])
                     EXCEPT !.top = cursor]
  <2>1. Acts(u) /\ u.kind = "older" /\ u.at = "answer" BY <1>4 DEF LoadOlder, NewFor, New
  <2> HIDE DEF u
  <2> QED BY <1>3, <2>1
<1>5. CASE SendText
  <2> DEFINE u == NewFor("send", "change", view.selected, 0)
  <2>1. Acts(u) /\ u.kind = "send" /\ u.at = "change" BY <1>5 DEF SendText, NewFor, New
  <2> HIDE DEF u
  <2> QED BY <1>3, <2>1
<1>6. ASSUME NEW kind \in {"login", "logout"}, Asks(kind) PROVE RosterInv'
  <2> DEFINE u == New(kind, "change")
  <2>1. /\ tasks' = BagAdd(tasks, u) /\ host' = host
        /\ view' = view /\ drawer' = drawer /\ timer' = timer
    BY <1>6 DEF Asks, remote
  <2>2. u.kind = kind /\ u.at = "change" BY DEF New
  <2>3. ~Moving BY <1>6, Unmoved DEF Asks, Patient
  <2> HIDE DEF u
  <2> QED BY <2>1, <2>2, <2>3, BeginsOne DEF Loading
<1>7. CASE Login \/ Logout BY <1>6, <1>7 DEF Login, Logout
<1>8. CASE \E c \in view.roster \cup {NoConversation} : Select(c) BY <1>8, SelectOne
<1>9. CASE \E t \in Tenants : SwitchTenant(t) BY <1>9, SwitchTenantOne
<1> QED BY <1>1, <1>2, <1>4, <1>5, <1>7, <1>8, <1>9 DEF User

LEMMA TimerFiresOne ==
  ASSUME Base, RosterInv, TimerFires
  PROVE  RosterInv'
<1> DEFINE u == New("poll", "roster")
<1>1. /\ tasks' = BagAdd(tasks, u) /\ host' = host /\ timer /\ view.identity # Nobody
      /\ view' = view /\ drawer' = drawer /\ timer' = timer
  BY DEF TimerFires, remote
<1>2. u.kind = "poll" /\ u.at = "roster" /\ u.owner = HostIdentity BY DEF New
<1> HIDE DEF u
<1> QED BY <1>1, <1>2, BeginsOne

LEMMA StartOne == Init => RosterInv
<1> SUFFICES ASSUME Init PROVE RosterInv OBVIOUS
<1>1. InTasks = {} BY DEF Init, InTasks, BagToSet, EmptyBag, SetToBag
<1>2. view.identity = Nobody /\ view.roster = {} BY BlankView DEF Init
<1> QED BY <1>1, <1>2 DEF RosterInv, OneSwitch, OneLoad, Quiet, Steady, Listing, Moving

LEMMA NextOne ==
  ASSUME PatientUser, Base, RosterInv, [Next]_vars
  PROVE  RosterInv'
<1>1. CASE \E c \in Conversations : Arrive(c) BY <1>1, AsideOne DEF Arrive
<1>2. CASE \E t \in Tenants : Revoke(t)
  <2>1. host'.tenant = host.tenant BY <1>2 DEF Revoke, Base, Typed
  <2> QED BY <1>2, <2>1, AsideOne DEF Revoke
<1>3. CASE \E t \in BagToSet(tasks) : Continue(t)
  BY <1>3, LoadAnswersOne, LoadReadyOne, LoadListOne, PollRosterOne, PollHistoryOne,
     PollProfilesOne, SelectingOne, RequestsOne, HostChangesOne, ChangeAnswersOne
  DEF Continue, InTasks
<1>4. CASE UNCHANGED vars
  <2>1. UNCHANGED <<view, drawer, timer, tasks>> /\ host' = host BY <1>4 DEF vars, remote
  <2> QED BY <2>1, AsideOne
<1> QED BY <1>1, <1>2, <1>3, <1>4, UserOne, TimerFiresOne DEF Next

-----------------------------------------------------------------------------
(* Where the rows come from. *)

\* What a step may do to the rows.
RowsStay == view'.rows \in {view.rows, <<>>}
FromPage(c, n) ==
  view'.rows \in {Page(c, n), MergeLatest(view.rows, Page(c, n)), MergeOlder(view.rows, Page(c, n))}
Sourced ==
  \/ RowsStay
  \/ \E c \in Conversations, n \in Nat : FromPage(c, n)
  \/ \E row \in Conversations \X Nat : view'.rows = AppendRow(view.rows, row)

LEMMA RowsOnceKept ==
  ASSUME Base, RowsOnce, Sourced
  PROVE  RowsOnce'
<1>1. view.rows \in Seq(Conversations \X Nat) /\ IsInjective(view.rows)
  BY DEF Base, Shown, Views, RowsOnce
<1>2. CASE view'.rows \in {view.rows, <<>>}
  <2>1. IsInjective(<<>>) BY DEF IsInjective
  <2> QED BY <1>1, <1>2, <2>1 DEF RowsOnce, IsInjective
<1>3. ASSUME NEW c \in Conversations, NEW n \in Nat,
             view'.rows \in {Page(c, n), MergeLatest(view.rows, Page(c, n)),
                             MergeOlder(view.rows, Page(c, n))}
      PROVE  IsInjective(view'.rows)
  <2>1. Page(c, n) \in Seq(Conversations \X Nat) /\ IsInjective(Page(c, n)) BY Paged
  <2>2. IsInjective(MergeLatest(view.rows, Page(c, n))) /\ IsInjective(MergeOlder(view.rows, Page(c, n)))
    BY <1>1, <2>1, MergedOnce
  <2> QED BY <1>3, <2>1, <2>2
<1>4. ASSUME NEW row \in Conversations \X Nat, view'.rows = AppendRow(view.rows, row)
      PROVE  IsInjective(view'.rows)
  BY <1>1, <1>4, AppendedOnce
<1> QED BY <1>2, <1>3, <1>4 DEF RowsOnce, IsInjective, Sourced, RowsStay, FromPage

LEMMA UserSourced == ASSUME Base, User PROVE RowsStay
<1>1. view \in Views BY DEF Base, Shown
<1>2. CASE Open
  BY <1>1, <1>2, BlankView, LoadingView DEF Open, Opens, Loads, RowsStay
<1>3. CASE Close \/ LoadOlder \/ SendText \/ Login \/ Logout
  BY <1>3 DEF Close, Closes, LoadOlder, SendText, Login, Logout, Acts, Asks, RowsStay
<1>4. CASE \E c \in view.roster \cup {NoConversation} : Select(c)
  <2>1. PICK c \in view.roster \cup {NoConversation} : Select(c) BY <1>4
  <2>2. view'.rows = IF c = view.selected THEN view.rows ELSE <<>>
    BY <1>1, <2>1 DEF Select, Views
  <2> QED BY <2>2 DEF RowsStay
<1>5. CASE \E t \in Tenants : SwitchTenant(t)
  BY <1>5, LoadingView DEF SwitchTenant, RowsStay
<1> QED BY <1>2, <1>3, <1>4, <1>5 DEF User

LEMMA LoadingSourced ==
  ASSUME Base, NEW t \in InTasks,
         \/ LoadAnswers(t) \/ LoadReady(t) \/ LoadList(t) \/ PollRoster(t)
         \/ Accepts(t) \/ HostChanges(t) \/ ChangeAnswers(t)
  PROVE  RowsStay
<1>1. view \in Views BY Known
<1>2. ASSUME NEW v \in {view, InitialView}, NEW status, NEW session, NEW who,
             view' = [v EXCEPT !.status = status, !.session = session, !.identity = who]
      PROVE  RowsStay
  BY <1>1, <1>2, BlankView DEF RowsStay, Views
<1>3. CASE LoadAnswers(t)
  <2>1. CASE UNCHANGED view BY <2>1 DEF RowsStay
  <2>2. CASE view' = [view EXCEPT !.status = IF @ = "loading" THEN "error" ELSE @]
    BY <1>1, <2>2 DEF RowsStay, Views
  <2>3. ASSUME NEW who \in Identities(t), NEW session, NEW same \in BOOLEAN,
               view' = [(IF same THEN view ELSE InitialView) EXCEPT
                          !.status = "ready", !.session = session, !.identity = who]
        PROVE  RowsStay
    <3> DEFINE v == IF same THEN view ELSE InitialView
    <3>1. v \in {view, InitialView} OBVIOUS
    <3> HIDE DEF v
    <3> QED BY <1>2, <2>3, <3>1 DEF v
  <2> QED BY <1>3, <2>1, <2>2, <2>3 DEF LoadAnswers
<1>4. ASSUME Blocks(t) PROVE RowsStay
  BY <1>2, <1>4 DEF Blocks, Closes, RowsStay
<1>5. ASSUME Lists(t) PROVE RowsStay
  BY <1>1, <1>5 DEF Lists, RowsStay, Views
<1>6. CASE LoadReady(t) \/ Accepts(t) \/ HostChanges(t)
  BY <1>6 DEF LoadReady, Accepts, HostChanges, RowsStay
<1>7. CASE LoadList(t) \/ PollRoster(t) BY <1>4, <1>5, <1>7 DEF LoadList, PollRoster
<1>8. CASE ChangeAnswers(t)
  BY <1>8, LoadingView DEF ChangeAnswers, Opens, Loads, RowsStay
<1> QED BY <1>3, <1>6, <1>7, <1>8

LEMMA AnswersSourced ==
  ASSUME Base, NEW t \in InTasks,
         \/ PollHistory(t) \/ PollProfiles(t)
         \/ LocalAnswers(t) \/ RemoteAnswers(t) \/ CommittedAnswers(t)
         \/ OlderAnswers(t) \/ SendAnswers(t)
  PROVE  Sourced
<1>1. /\ view \in Views /\ t.conv \in Conversations /\ t.top \in Nat
      /\ Lengths(t) \subseteq Nat
  <2>1. t.conv \in Conversations
    BY Polling, Selecting DEF PollHistory, PollProfiles, LocalAnswers, RemoteAnswers,
       CommittedAnswers, OlderAnswers, SendAnswers, Is
  <2> QED BY <2>1, Known, Answered
<1>2. ASSUME UNCHANGED view PROVE Sourced BY <1>2 DEF Sourced, RowsStay
<1>3. ASSUME NEW busy, view' = [view EXCEPT !.busy = busy] PROVE Sourced
  BY <1>1, <1>3 DEF Sourced, RowsStay, Views
<1>4. ASSUME NEW n \in Nat, view'.rows \in {Page(t.conv, n), MergeLatest(view.rows, Page(t.conv, n)),
                                            MergeOlder(view.rows, Page(t.conv, n))}
      PROVE  Sourced
  BY <1>1, <1>4 DEF Sourced, FromPage
<1>5. CASE PollHistory(t)
  <2>1. ASSUME NEW n \in Lengths(t), view' = [view EXCEPT !.rows = Page(t.conv, n)] PROVE Sourced
    <3>1. view'.rows = Page(t.conv, n) BY <1>1, <2>1 DEF Views
    <3> QED BY <1>1, <1>4, <3>1
  <2> QED BY <1>2, <1>5, <2>1 DEF PollHistory
<1>6. CASE PollProfiles(t)
  <2>1. CASE view' = [view EXCEPT !.rows = MergeLatest(@, Page(t.conv, t.top))]
    <3>1. view'.rows = MergeLatest(view.rows, Page(t.conv, t.top)) BY <1>1, <2>1 DEF Views
    <3> QED BY <1>1, <1>4, <3>1
  <2> QED BY <1>2, <1>6, <2>1 DEF PollProfiles
<1>7. CASE LocalAnswers(t) \/ CommittedAnswers(t)
  <2>1. ASSUME NEW n \in Lengths(t),
               \/ view' = [view EXCEPT !.rows = MergeLatest(@, Page(t.conv, n)), !.busy = "remote"]
               \/ view' = [view EXCEPT !.rows = MergeLatest(@, Page(t.conv, n)),
                                       !.more = NextCursor(t.top) # 0, !.busy = "no"]
        PROVE  Sourced
    <3>1. view'.rows = MergeLatest(view.rows, Page(t.conv, n)) BY <1>1, <2>1 DEF Views
    <3> QED BY <1>1, <1>4, <3>1
  <2> QED BY <1>2, <1>3, <1>7, <2>1 DEF LocalAnswers, CommittedAnswers
<1>8. CASE RemoteAnswers(t) BY <1>2, <1>3, <1>8 DEF RemoteAnswers
<1>9. CASE OlderAnswers(t)
  <2>1. ASSUME NEW n \in IF t.top = 0 THEN Lengths(t) ELSE {t.top - 1},
               view' = [view EXCEPT !.rows = MergeOlder(@, Page(t.conv, n)),
                                    !.more = NextCursor(n) # 0]
        PROVE  Sourced
    <3>1. n \in Nat
      <4>1. CASE t.top = 0 BY <1>1, <2>1, <4>1
      <4>2. CASE t.top # 0 BY <1>1, <2>1, <4>2
      <4> QED BY <4>1, <4>2
    <3>2. view'.rows = MergeOlder(view.rows, Page(t.conv, n)) BY <1>1, <2>1 DEF Views
    <3> QED BY <1>4, <3>1, <3>2
  <2> QED BY <1>2, <1>9, <2>1 DEF OlderAnswers
<1>10. CASE SendAnswers(t)
  <2>1. CASE view' = [view EXCEPT !.rows = AppendRow(@, <<t.conv, t.top>>)]
    <3>1. view'.rows = AppendRow(view.rows, <<t.conv, t.top>>) BY <1>1, <2>1 DEF Views
    <3>2. <<t.conv, t.top>> \in Conversations \X Nat BY <1>1
    <3> QED BY <3>1, <3>2 DEF Sourced
  <2> QED BY <1>2, <1>10, <2>1 DEF SendAnswers
<1> QED BY <1>5, <1>6, <1>7, <1>8, <1>9, <1>10

LEMMA NextSourced == ASSUME Base, [Next]_vars PROVE Sourced
<1>1. ASSUME UNCHANGED view PROVE Sourced BY <1>1 DEF Sourced, RowsStay
<1>2. CASE User BY <1>2, UserSourced DEF Sourced
<1>3. CASE \E t \in BagToSet(tasks) : Continue(t)
  BY <1>3, LoadingSourced, AnswersSourced DEF Continue, InTasks, Sourced
<1>4. CASE TimerFires BY <1>1, <1>4 DEF TimerFires
<1>5. CASE \E c \in Conversations : Arrive(c) BY <1>1, <1>5 DEF Arrive
<1>6. CASE \E t \in Tenants : Revoke(t) BY <1>1, <1>6 DEF Revoke
<1>7. CASE UNCHANGED vars BY <1>1, <1>7 DEF vars
<1> QED BY <1>2, <1>3, <1>4, <1>5, <1>6, <1>7 DEF Next

-----------------------------------------------------------------------------
(* The theorems. *)

LEMMA AlwaysBase == Spec => []Base
<1>1. Base /\ [Next]_vars => Base' BY NextSafe DEF Safe
<1> QED BY <1>1, Start, PTL DEF Spec

\* As long as a conversation stays selected, no refresh, page or answer takes a row away
\* that has been shown (controller.ts:2866).
THEOREM NoRowIsLost == Spec => RowsKept
<1>1. Base /\ [Next]_vars => [view'.selected = view.selected
                                => ToSet(view.rows) \subseteq ToSet(view'.rows)]_vars
  BY NextSafe DEF Safe, Kept
<1> QED BY <1>1, AlwaysBase, PTL DEF Spec, RowsKept

\* A row is shown once, whichever of the poll, the pages and the answer to a send brings it
\* (controller.ts:660).
THEOREM RowsAreOnce == Spec => []RowsOnce
<1>1. Init => Base /\ RowsOnce
  <2>1. IsInjective(<<>>) BY DEF IsInjective
  <2> QED BY <2>1, Start, BlankView DEF Init, RowsOnce
<1>2. Base /\ RowsOnce /\ [Next]_vars => Base' /\ RowsOnce'
  BY NextSafe, NextSourced, RowsOnceKept DEF Safe
<1> QED BY <1>1, <1>2, PTL DEF Spec

\* No late answer adds rows or a roster to a drawer that is closed (controller.ts:2756).
THEOREM ClosedStaysQuiet == Spec => ClosedIsQuiet
<1>1. Base /\ [Next]_vars => [~drawer /\ ~drawer' => view'.rows \in {view.rows, <<>>}
                                                   /\ view'.roster \subseteq view.roster]_vars
  BY NextSafe DEF Safe, Calm
<1> QED BY <1>1, AlwaysBase, PTL DEF Spec, ClosedIsQuiet

\* The roster and the rows belong to the identity and the conversation the view shows, if the
\* user waits for a switch of tenants to end (controller.ts:998).
THEOREM RowsAreOfSelection == ASSUME PatientUser PROVE Spec => []RowsOfSelection
<1>1. Base /\ RosterInv /\ [Next]_vars => (Base /\ RosterInv)' BY NextSafe, NextOne DEF Safe
<1>2. Init => Base /\ RosterInv BY Start, StartOne
<1>3. Base /\ RosterInv => RowsOfSelection BY DEF Base, Shown, RosterInv, RowsOfSelection
<1> QED BY <1>1, <1>2, <1>3, PTL DEF Spec

=============================================================================
