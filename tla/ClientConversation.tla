--------------------------- MODULE ClientConversation ---------------------------
(***************************************************************************)
(* The drawer of the browser (src/client/controller.ts): the session it    *)
(* shows, its roster, the selected conversation with its rows, and the     *)
(* poll that refreshes them, against a Host that answers late, in any      *)
(* order or not at all.                                                    *)
(*                                                                         *)
(* A task is an async method suspended at an await.  Where the code        *)
(* compares generation and selectionRevision with the values it captured,  *)
(* a task carries fresh and visit, which become FALSE when the code        *)
(* advances the counters.  An answer reports what the Host held at some    *)
(* moment between the request and the continuation.                        *)
(*                                                                         *)
(* A row is a conversation and a position in it.  Conversations are        *)
(* direct; the identity of a tenant stands for the tenant.  The local      *)
(* history and the remote one are read alike: Core commits what arrives.   *)
(***************************************************************************)
EXTENDS Naturals, FiniteSets, FiniteSetsExt, BagsExt, SequencesExt

CONSTANTS
  Tenants,          \* the environments, each with one identity
  Nobody,           \* no identity
  Mail,             \* the conversations of each identity
  NoConversation,
  PageSize,         \* messages per page of history
  MaxTasks,         \* bound: async methods in flight, besides one poll
  MaxMessages,      \* bound: messages that arrive or are sent
  MaxOps,           \* bound: times the user opens, closes, selects, logs in or out, or switches
  MaxFaults,        \* bound: calls that fail and credentials that are revoked
  PatientUser       \* neither opens, closes nor signs in while tenants are switched

ASSUME NobodyAssumption == Nobody \notin Tenants
ASSUME BoundsAssumption ==
  /\ {PageSize, MaxTasks, MaxMessages, MaxOps, MaxFaults} \subseteq Nat /\ PageSize > 0
  /\ PatientUser \in BOOLEAN

Conversations == UNION {Mail[t] : t \in Tenants}
Rows == Conversations \X (1..MaxMessages)

VARIABLES
  host,      \* Host: the tenant in force, whether it is signed in, credentials revoked
  sent,      \* Core: messages of each conversation
  view,      \* the published view
  cursor,    \* historyCursor: the first row of the oldest page, 0 if undefined
  drawer,    \* drawerOpen
  timer,     \* the poll interval is running
  polling,   \* this.polling
  tasks,     \* the bag of the async methods in flight
  ops,       \* user operations so far
  faults     \* failures so far

remote == <<host, sent>>
bounds == <<ops, faults>>
vars   == <<remote, view, cursor, drawer, timer, polling, tasks, bounds>>

View == [status : {"cold", "loading", "ready", "error"},
         session : {"unregistered", "signed-out", "active", "blocked"},
         identity : Tenants \cup {Nobody},
         roster : SUBSET Conversations,
         selected : Conversations \cup {NoConversation},
         rows : Seq(Rows), more : BOOLEAN,
         busy : {"no", "local", "remote"}]

\* how: the load opens the drawer, keeps the view (preserveView), ends a switch of tenants.
Task == [kind : {"load", "switch", "login", "logout", "poll", "select", "older", "send"},
         at : {"change", "answer", "session", "access", "list", "roster", "history",
               "profiles", "local", "remote", "committed"},
         how : SUBSET {"opens", "keeps", "switches"},
         fresh : BOOLEAN, visit : BOOLEAN, owner : Tenants \cup {Nobody},
         conv : Conversations \cup {NoConversation}, floor : Nat, top : Nat]

TypeOK ==
  /\ host \in [tenant : Tenants, active : BOOLEAN, revoked : SUBSET Tenants]
  /\ sent \in [Conversations -> 0..MaxMessages]
  /\ view \in View
  /\ cursor \in 0..MaxMessages
  /\ {drawer, timer, polling} \subseteq BOOLEAN
  /\ IsABag(tasks) /\ BagToSet(tasks) \subseteq Task
  /\ ops \in 0..MaxOps /\ faults \in 0..MaxFaults

-----------------------------------------------------------------------------
(* Pages and rows. *)

\* One page of the conversation c: the PageSize positions up to top, in order.
Page(c, top) ==
  LET first == IF top > PageSize THEN top - PageSize + 1 ELSE 1 IN
  [i \in 1..(top + 1 - first) |-> <<c, first + i - 1>>]

\* nextCursor of that page: its first row, if there is an older one.
NextCursor(top) == IF top > PageSize THEN top - PageSize + 1 ELSE 0

\* mergeLatestMessages, mergeOlderMessages, appendMessageById.
Without(rows, page) ==                           \* the other rows, in their order
  LET others == {i \in DOMAIN rows : rows[i] \notin ToSet(page)}
      Rank(i) == Cardinality({j \in others : j <= i})
  IN [n \in 1..Cardinality(others) |-> rows[CHOOSE i \in others : Rank(i) = n]]
ShowLatest(rows, page) == page                   \* mutant: the older rows are dropped
MergeLatest(rows, page) == Without(rows, page) \o page
MergeOlder(rows, page) == page \o Without(rows, page)
AppendRow(rows, row) == IF row \in ToSet(rows) THEN rows ELSE Append(rows, row)

-----------------------------------------------------------------------------
(* Tasks. *)

\* Who the Host answers for.
HostIdentity == IF host.active THEN host.tenant ELSE Nobody
MailOf(who) == IF who = Nobody THEN {} ELSE Mail[who]

New(kind, at) ==
  [kind |-> kind, at |-> at, how |-> {}, fresh |-> TRUE, visit |-> TRUE,
   owner |-> HostIdentity, conv |-> NoConversation, floor |-> 0, top |-> 0]
NewFor(kind, at, c, floor) == [New(kind, at) EXCEPT !.conv = c, !.floor = floor]
NewLoad(how) == [New("load", "session") EXCEPT !.how = how]

\* The generation advances, or only the selection: what is in flight is not current any more.
\* Tasks that differed in this are alike now.
Copies(t, ts) == IF t \in BagToSet(ts) THEN ts[t] ELSE 0
Fence(t) == [t EXCEPT !.fresh = FALSE, !.visit = FALSE]
Leave(t) == [t EXCEPT !.visit = FALSE]
Left(ts) ==
  [u \in {Leave(t) : t \in BagToSet(ts)} |-> Copies(u, ts) + Copies([u EXCEPT !.visit = TRUE], ts)]
Fenced(ts) ==
  [u \in {Fence(t) : t \in BagToSet(ts)} |->
     Copies(u, Left(ts)) + Copies([u EXCEPT !.fresh = TRUE], Left(ts))]

Others(t) == BagRemove(tasks, t)
Ends(t) == tasks' = Others(t)
Becomes(t, u) == tasks' = BagAdd(Others(t), u)
Goes(t, at) == Becomes(t, [t EXCEPT !.at = at, !.owner = HostIdentity])
Reads(t, at, c) == Becomes(t, [t EXCEPT !.at = at, !.owner = HostIdentity,
                                        !.conv = c, !.floor = sent[c]])

Is(t, kind, at) == t.kind = kind /\ t.at = at
InFlight(kinds) == \E t \in BagToSet(tasks) : t.kind \in kinds

\* current() with the conversation, currentSelection().
FreshOnly(t) == t.fresh                          \* mutant: another conversation may be selected
StillSelected(t) == t.fresh /\ view.selected = t.conv
CurrentVisit(t) == StillSelected(t) /\ t.visit

\* What the Host has held since the request: an identity, a length of the conversation.
Identities(t) == {t.owner, HostIdentity}
Serves(t) == \E who \in Identities(t) : t.conv \in MailOf(who)
Lengths(t) == t.floor .. sent[t.conv]

Fails == faults < MaxFaults /\ faults' = faults + 1
Works == UNCHANGED faults
Refused(t) == IF \A who \in Identities(t) : t.conv \in MailOf(who) THEN Fails ELSE Works

\* this.tenantTransition, this.opening.
Switching == \E t \in BagToSet(tasks) : t.kind = "switch" \/ "switches" \in t.how
Opening == \E t \in BagToSet(tasks) : t.kind = "load" /\ "opens" \in t.how /\ t.fresh

Uses == ops < MaxOps /\ ops' = ops + 1
Room == BagCardinality(tasks) < MaxTasks
Patient == PatientUser => ~Switching

-----------------------------------------------------------------------------
(* Initially the drawer is closed and the Host serves a tenant. *)

InitialView == [status |-> "cold", session |-> "unregistered", identity |-> Nobody,
                roster |-> {}, selected |-> NoConversation, rows |-> <<>>,
                more |-> FALSE, busy |-> "no"]
Init ==
  /\ host \in [tenant : Tenants, active : {TRUE}, revoked : {{}}]
  /\ sent = [c \in Conversations |-> 0]
  /\ view = InitialView
  /\ cursor = 0
  /\ drawer = FALSE /\ timer = FALSE /\ polling = FALSE
  /\ tasks = EmptyBag
  /\ ops = 0 /\ faults = 0

-----------------------------------------------------------------------------
(* Opening, closing and loading the session. *)

\* loadSession(): stops the polling lifecycle and requests configuration and session.
Loads(ts, how) ==
  /\ tasks' = BagAdd(Fenced(ts), NewLoad(how))
  /\ timer' = FALSE /\ polling' = FALSE
  /\ view' = IF "keeps" \in how THEN view ELSE [InitialView EXCEPT !.status = "loading"]

Keeping == IF view.status = "ready" THEN {"keeps"} ELSE {}

\* open(): joins a transition or an opening, else openOnce().
Opens(ts) ==
  /\ drawer' = TRUE
  /\ IF Switching \/ Opening
     THEN tasks' = ts /\ UNCHANGED <<view, timer, polling>>
     ELSE Loads(ts, {"opens"} \cup Keeping)

Open ==
  /\ Patient /\ Uses /\ Room
  /\ Opens(tasks)
  /\ UNCHANGED <<remote, cursor, faults>>

\* close() with the tasks and the view it leaves.
ClosesUnfenced(ts, v) ==                         \* mutant: the generation does not advance
  /\ drawer' = FALSE
  /\ tasks' = ts
  /\ timer' = FALSE /\ polling' = FALSE
  /\ view' = v
Closes(ts, v) ==
  /\ drawer' = FALSE
  /\ tasks' = Fenced(ts)
  /\ timer' = FALSE /\ polling' = FALSE
  /\ view' = v

Close ==
  /\ drawer /\ Patient /\ Uses
  /\ Closes(tasks, view)
  /\ UNCHANGED <<remote, cursor, faults>>

\* The last lines of openOnce(): the poll interval starts.
Opened(t) ==
  /\ Ends(t)
  /\ timer' = (timer \/ (t.fresh /\ drawer))

\* Without an answer openOnce() goes on with a view that was ready.
StopsAnyway(t) == FALSE                          \* mutant: it returns
GoesOnWithout(t) == {"opens", "keeps"} \subseteq t.how

\* The session answers; a view of the same owner stays as it is.
LoadAnswers(t) ==
  /\ Is(t, "load", "session")
  /\ UNCHANGED <<remote, cursor, drawer, polling, ops>>
  /\ \/ /\ ~t.fresh /\ Works
        /\ Ends(t)
        /\ UNCHANGED <<view, timer>>
     \/ /\ t.fresh /\ Works
        /\ \E who \in Identities(t) :
             LET session == IF who = Nobody THEN "signed-out" ELSE "active"
                 same == "keeps" \in t.how /\ view.identity = who /\ view.session = session
             IN view' = [(IF same THEN view ELSE InitialView) EXCEPT
                          !.status = "ready", !.session = session, !.identity = who]
        /\ Goes(t, "access")
        /\ UNCHANGED timer
     \/ /\ t.fresh /\ Fails
        /\ view' = [view EXCEPT !.status = IF @ = "loading" THEN "error" ELSE @]
        /\ IF GoesOnWithout(t) THEN Opened(t) ELSE Ends(t) /\ UNCHANGED timer

\* Identity access, preferences and profile have been read.
LoadReady(t) ==
  /\ Is(t, "load", "access")
  /\ \/ /\ ~(t.fresh /\ "opens" \in t.how /\ drawer)
        /\ Ends(t) /\ UNCHANGED timer
     \/ /\ t.fresh /\ "opens" \in t.how /\ drawer
        /\ IF view.identity # Nobody THEN Goes(t, "list") /\ UNCHANGED timer ELSE Opened(t)
  /\ UNCHANGED <<remote, view, cursor, drawer, polling, bounds>>

\* listConversationPage() is refused: enterBlockedIdentityState(), and the caller goes on,
\* no longer current.
Blocks(t) ==
  /\ Identities(t) \cap host.revoked # {}
  /\ IF view.identity = Nobody
     THEN Ends(t) /\ UNCHANGED <<view, cursor, drawer, timer>> /\ polling' = FALSE
     ELSE /\ Closes(Others(t), [InitialView EXCEPT !.status = "ready", !.session = "blocked",
                                                   !.identity = view.identity])
          /\ cursor' = 0

\* refreshConversations(): the roster grows by the page the Host lists.
Lists(t) ==
  \/ /\ t.fresh /\ Works
     /\ \E who \in Identities(t) \ (host.revoked \cup {Nobody}) :
          view' = [view EXCEPT !.roster = Mail[who] \cup @]
  \/ /\ \/ ~t.fresh /\ Works
        \/ t.fresh /\ Nobody \in Identities(t) /\ Works
        \/ t.fresh /\ Fails
     /\ UNCHANGED view

\* openOnce() lists the roster, then polls the selected conversation.
LoadList(t) ==
  /\ Is(t, "load", "list")
  /\ \/ Blocks(t) /\ Works
     \/ /\ Lists(t)
        /\ IF t.fresh /\ view.selected # NoConversation
           THEN Goes(t, "roster") /\ polling' = TRUE /\ UNCHANGED timer
           ELSE Opened(t) /\ UNCHANGED polling
        /\ UNCHANGED <<cursor, drawer>>
  /\ UNCHANGED <<remote, ops>>

-----------------------------------------------------------------------------
(* poll(): roster, history, display profiles of the senders. *)

TimerFires ==
  /\ timer /\ ~polling /\ view.identity # Nobody /\ BagCardinality(tasks) <= MaxTasks
  /\ polling' = TRUE
  /\ tasks' = BagAdd(tasks, New("poll", "roster"))
  /\ UNCHANGED <<remote, view, cursor, drawer, timer, bounds>>

\* The finally block, and what openOnce() does next.
PolledUnlessLeft(t) ==                           \* mutant: an early return skips the finally block
  /\ polling' = (polling /\ t.at = "history" /\ ~StillSelected(t))
  /\ IF t.kind = "load" THEN Opened(t) ELSE Ends(t) /\ UNCHANGED timer
Polled(t) ==
  /\ polling' = FALSE
  /\ IF t.kind = "load" THEN Opened(t) ELSE Ends(t) /\ UNCHANGED timer

PollRoster(t) ==
  /\ t.at = "roster"
  /\ \/ Blocks(t) /\ Works
     \/ /\ Lists(t)
        /\ IF t.fresh /\ view.selected # NoConversation
           THEN Reads(t, "history", view.selected) /\ UNCHANGED <<timer, polling>>
           ELSE Polled(t)
        /\ UNCHANGED <<cursor, drawer>>
  /\ UNCHANGED <<remote, ops>>

\* The latest page answers; without rows there is no sender whose profile to ask for.
PollHistory(t) ==
  /\ t.at = "history"
  /\ \/ /\ StillSelected(t) /\ Serves(t) /\ Works
        /\ \E n \in Lengths(t) :
             IF view.rows = <<>>
             THEN view' = [view EXCEPT !.rows = Page(t.conv, n)] /\ Polled(t)
             ELSE /\ Becomes(t, [t EXCEPT !.at = "profiles", !.top = n])
                  /\ UNCHANGED <<view, timer, polling>>
     \/ /\ IF StillSelected(t) THEN Refused(t) ELSE Works
        /\ Polled(t)
        /\ UNCHANGED view
  /\ UNCHANGED <<remote, cursor, drawer, ops>>

PollProfiles(t) ==
  /\ t.at = "profiles"
  /\ view' = IF StillSelected(t)
             THEN [view EXCEPT !.rows = MergeLatest(@, Page(t.conv, t.top))]
             ELSE view
  /\ Polled(t)
  /\ UNCHANGED <<remote, cursor, drawer, bounds>>

-----------------------------------------------------------------------------
(* selectConversation(): the local page, the remote one, the local one again. *)

Select(c) ==
  /\ drawer /\ view.status = "ready" /\ Uses
  /\ \/ /\ c = NoConversation
        /\ tasks' = Left(tasks)
     \/ /\ c # NoConversation /\ Room
        /\ tasks' = BagAdd(Left(tasks), NewFor("select", "local", c, sent[c]))
  /\ cursor' = 0
  /\ view' = [view EXCEPT !.selected = c, !.more = FALSE,
                          !.busy = IF c = NoConversation THEN "no" ELSE "local",
                          !.rows = IF c = view.selected THEN @ ELSE <<>>]
  /\ UNCHANGED <<remote, drawer, timer, polling, faults>>

\* A fenced read returns.
Abandons(t) == ~CurrentVisit(t) /\ Works /\ Ends(t)

\* A local page appears at once; the remote history is asked for in any case.
LocalAnswers(t) ==
  /\ Is(t, "select", "local")
  /\ \/ Abandons(t) /\ UNCHANGED view
     \/ /\ CurrentVisit(t) /\ Works
        /\ \E n \in Lengths(t) :
             view' = [view EXCEPT !.rows = MergeLatest(@, Page(t.conv, n)), !.busy = "remote"]
        /\ Reads(t, "remote", t.conv)
     \/ /\ CurrentVisit(t) /\ Fails
        /\ view' = [view EXCEPT !.busy = "remote"]
        /\ Reads(t, "remote", t.conv)
  /\ UNCHANGED <<remote, cursor, drawer, timer, polling, ops>>

\* The remote page gives the cursor, and commits its messages locally.
RemoteAnswers(t) ==
  /\ Is(t, "select", "remote")
  /\ \/ Abandons(t) /\ UNCHANGED <<view, cursor>>
     \/ /\ CurrentVisit(t) /\ Serves(t) /\ Works
        /\ \E n \in Lengths(t) :
             /\ cursor' = NextCursor(n)
             /\ Becomes(t, [t EXCEPT !.at = "committed", !.floor = sent[t.conv], !.top = n])
        /\ UNCHANGED view
     \/ /\ CurrentVisit(t)
        /\ Refused(t)
        /\ view' = [view EXCEPT !.busy = "no"]
        /\ Ends(t)
        /\ UNCHANGED cursor
  /\ UNCHANGED <<remote, drawer, timer, polling, ops>>

CommittedAnswers(t) ==
  /\ Is(t, "select", "committed")
  /\ \/ Abandons(t) /\ UNCHANGED view
     \/ /\ CurrentVisit(t) /\ Works /\ Ends(t)
        /\ \E n \in Lengths(t) :
             view' = [view EXCEPT !.rows = MergeLatest(@, Page(t.conv, n)),
                                  !.more = NextCursor(t.top) # 0, !.busy = "no"]
     \/ /\ CurrentVisit(t) /\ Fails /\ Ends(t)
        /\ view' = [view EXCEPT !.busy = "no"]
  /\ UNCHANGED <<remote, cursor, drawer, timer, polling, ops>>

-----------------------------------------------------------------------------
(* withPending(): a request holds the slot until it settles, whatever becomes of the view. *)

Acts(t) ==
  /\ drawer /\ view.selected # NoConversation /\ ~InFlight({"older", "send"}) /\ Room
  /\ tasks' = BagAdd(tasks, t)
  /\ UNCHANGED <<remote, view, cursor, drawer, timer, polling, bounds>>

\* loadOlderHistory(); without a cursor the latest page is asked for.
LoadOlder ==
  /\ view.more
  /\ Acts([NewFor("older", "answer", view.selected, sent[view.selected]) EXCEPT !.top = cursor])

OlderAnswers(t) ==
  /\ t.kind = "older"
  /\ Ends(t)
  /\ \/ /\ StillSelected(t) /\ Serves(t) /\ Works
        /\ \E n \in IF t.top = 0 THEN Lengths(t) ELSE {t.top - 1} :
             /\ cursor' = NextCursor(n)
             /\ view' = [view EXCEPT !.rows = MergeOlder(@, Page(t.conv, n)),
                                     !.more = NextCursor(n) # 0]
     \/ /\ IF StillSelected(t) THEN Refused(t) ELSE Works
        /\ UNCHANGED <<view, cursor>>
  /\ UNCHANGED <<remote, drawer, timer, polling, ops>>

\* The messages there are or will be stay within the bound.
Total == FoldSet(LAMBDA c, n : sent[c] + n, 0, Conversations)
More == Total + Cardinality({t \in BagToSet(tasks) : Is(t, "send", "change")}) < MaxMessages

\* sendText(): the Host commits the message, then the row is appended.
SendText == More /\ Acts(NewFor("send", "change", view.selected, 0))

Accepts(t) ==
  /\ Is(t, "send", "change") /\ Serves(t)
  /\ sent' = [sent EXCEPT ![t.conv] = @ + 1]
  /\ Becomes(t, [t EXCEPT !.at = "answer", !.top = sent[t.conv] + 1])
  /\ UNCHANGED <<host, view, cursor, drawer, timer, polling, bounds>>

SendAnswers(t) ==
  /\ t.kind = "send"
  /\ Ends(t)
  /\ \/ /\ t.at = "answer" /\ Works
        /\ view' = IF StillSelected(t)
                   THEN [view EXCEPT !.rows = AppendRow(@, <<t.conv, t.top>>)]
                   ELSE view
     \/ /\ IF t.at = "change" THEN Refused(t) ELSE Fails
        /\ UNCHANGED view
  /\ UNCHANGED <<remote, cursor, drawer, timer, polling, ops>>

-----------------------------------------------------------------------------
(* login(), logout(), switchTenant(): the Host changes, then the view follows. *)

Asks(kind) ==
  /\ drawer /\ view.status = "ready" /\ Patient /\ Uses /\ Room
  /\ ~InFlight({"login", "logout"})
  /\ tasks' = BagAdd(tasks, New(kind, "change"))
  /\ UNCHANGED <<remote, view, cursor, drawer, timer, polling, faults>>

Login  == view.session = "signed-out" /\ Asks("login")
Logout == view.session \in {"active", "blocked"} /\ Asks("logout")

\* switchTenant(): everything is fenced before the change is requested.
SwitchTenant(tenant) ==
  /\ ~Switching /\ Uses /\ Room /\ tenant # host.tenant
  /\ PatientUser => ~InFlight({"login"})
  /\ tasks' = BagAdd(Fenced(tasks), [New("switch", "change") EXCEPT !.owner = tenant])
  /\ timer' = FALSE /\ polling' = FALSE /\ cursor' = 0
  /\ view' = [InitialView EXCEPT !.status = "loading"]
  /\ UNCHANGED <<remote, drawer, faults>>

\* The Host; each tenant stays signed in or out as it was left, which is either.
HostChanges(t) ==
  /\ t.at = "change" /\ t.kind \in {"login", "logout", "switch"}
  /\ \/ /\ \/ t.kind = "login" /\ host' = [host EXCEPT !.active = TRUE]
           \/ t.kind = "logout" /\ host' = [host EXCEPT !.active = FALSE]
           \/ /\ t.kind = "switch"
              /\ \E active \in BOOLEAN : host' = [host EXCEPT !.tenant = t.owner, !.active = active]
        /\ Becomes(t, [t EXCEPT !.at = "answer"])
        /\ Works
     \/ /\ Fails
        /\ IF t.kind = "switch" THEN Becomes(t, [t EXCEPT !.at = "answer"]) ELSE Ends(t)
        /\ UNCHANGED host
  /\ UNCHANGED <<sent, view, cursor, drawer, timer, polling, ops>>

\* login() opens; logout() closes the drawer and loads once more; the switch loads what the
\* Host has committed, also after a failure.
ChangeAnswers(t) ==
  /\ t.at = "answer"
  /\ \/ /\ t.kind = "login"
        /\ Opens(Others(t))
        /\ UNCHANGED cursor
     \/ /\ t.kind = "logout"
        /\ drawer' = FALSE /\ cursor' = 0
        /\ Loads(Others(t), {})
     \/ /\ t.kind = "switch"
        /\ Loads(Others(t), {"switches"} \cup IF drawer THEN {"opens"} \cup Keeping ELSE {})
        /\ UNCHANGED <<cursor, drawer>>
  /\ UNCHANGED <<remote, bounds>>

-----------------------------------------------------------------------------
(* The service and Core. *)

Arrive(c) ==
  /\ More
  /\ sent' = [sent EXCEPT ![c] = @ + 1]
  /\ UNCHANGED <<host, view, cursor, drawer, timer, polling, tasks, bounds>>

Revoke(t) ==
  /\ Fails
  /\ host' = [host EXCEPT !.revoked = @ \cup {t}]
  /\ UNCHANGED <<sent, view, cursor, drawer, timer, polling, tasks, ops>>

-----------------------------------------------------------------------------
User ==
  \/ Open \/ Close \/ LoadOlder \/ SendText \/ Login \/ Logout
  \/ \E c \in view.roster \cup {NoConversation} : Select(c)
  \/ \E t \in Tenants : SwitchTenant(t)

Continue(t) ==
  \/ LoadAnswers(t) \/ LoadReady(t) \/ LoadList(t)
  \/ PollRoster(t) \/ PollHistory(t) \/ PollProfiles(t)
  \/ LocalAnswers(t) \/ RemoteAnswers(t) \/ CommittedAnswers(t)
  \/ OlderAnswers(t) \/ Accepts(t) \/ SendAnswers(t)
  \/ HostChanges(t) \/ ChangeAnswers(t)

Next ==
  \/ User \/ TimerFires
  \/ \E c \in Conversations : Arrive(c)
  \/ \E t \in Tenants : Revoke(t)
  \/ \E t \in BagToSet(tasks) : Continue(t)

\* Calls of each kind are answered and the interval fires; nothing says that anyone asks.
Answers(kinds) == \E t \in BagToSet(tasks) : t.kind \in kinds /\ Continue(t)
Fairness ==
  /\ WF_vars(TimerFires)
  /\ WF_vars(Answers({"load"})) /\ WF_vars(Answers({"switch", "login", "logout"}))
  /\ WF_vars(Answers({"poll"})) /\ WF_vars(Answers({"select"})) /\ WF_vars(Answers({"older", "send"}))

Spec == Init /\ [][Next]_vars /\ Fairness

-----------------------------------------------------------------------------
\* The roster and the rows belong to the identity and the conversation the view shows,
\* whatever tenant or conversation an answer in flight was asked for.
RowsOfSelection ==
  /\ view.roster \subseteq MailOf(view.identity)
  /\ \A r \in ToSet(view.rows) : r[1] = view.selected
  /\ view.selected # NoConversation => view.selected \in view.roster

\* A row is shown once, whichever of the poll, the pages and the answer to the send brings it.
RowsOnce == IsInjective(view.rows)

\* As long as a conversation stays selected, a refresh or a page never takes a row away
\* that has been shown.
RowsKept ==
  [][view'.selected = view.selected => ToSet(view.rows) \subseteq ToSet(view'.rows)]_vars

\* An unmounted drawer is quiet: no answer adds rows or a roster to it.
ClosedIsQuiet ==
  [][~drawer /\ ~drawer' => view'.rows \in {view.rows, <<>>} /\ view'.roster \subseteq view.roster]_vars

\* An open drawer leaves the loading state.
OpenSettles == drawer ~> (view.status \in {"ready", "error"} \/ ~drawer)

\* Whoever opens the drawer and leaves it open with a signed-in identity gets a poll.
OpenPolls == <>[](drawer /\ view.session = "active") => <>[]timer

\* A conversation that stays selected ends up with the newest page as its last rows, in
\* order: no stale answer stays below a newer one, and the poll does not stop.
Watched(c) ==
  drawer /\ view.selected = c /\ view.session = "active" /\ HostIdentity = view.identity
CatchesUp ==
  \A c \in Conversations : <>[]Watched(c) => <>[]IsSuffix(Page(c, sent[c]), view.rows)

\* localPending: only while the first local page of the selected conversation is loading.
PendingMeansLoading ==
  view.busy = "local" => \E t \in BagToSet(tasks) : Is(t, "select", "local") /\ CurrentVisit(t)

\* Only a refusal of its own credential blocks an identity.
BlockedIsRevoked == view.session = "blocked" => view.identity \in host.revoked

=============================================================================
