------------------------------ MODULE LocalData ------------------------------
(***************************************************************************)
(* What the Host keeps in files of its own for an identity, and how it is  *)
(* cleared: the cache of image attachments (src/attachment-cache.ts), the  *)
(* conversation preferences (src/conversation-preferences.ts), and the     *)
(* calls of src/index.ts that use them.                                    *)
(*                                                                         *)
(* An image is identified by its message and attachment; its bytes never   *)
(* change.  A cache is the sequence of its files by the time of their last *)
(* use, and a store of preferences holds one file per DID.  A file is      *)
(* written under another name and renamed, so that it is always whole; a   *)
(* temporary file that a crash leaves behind is not followed.  One tenant, *)
(* whose account is not signed out; HostSession has the session.  The      *)
(* registry of the tenants is a file of the Host as well: HostFilesProofs  *)
(* extends both modules, so this one shares no name with TenantRegistry.   *)
(***************************************************************************)
EXTENDS Naturals, FiniteSets, SequencesExt, TLC

CONSTANTS
  Calls,        \* the calls in flight
  Dids,         \* the identities Core creates, one after another
  Images,       \* the images of attachments
  Size,         \* the size of the file of each
  Budget,       \* imageAttachmentCacheMaxBytes
  Chats,        \* the direct conversations
  MaxEntries,   \* MAX_HIDDEN_CONVERSATIONS
  Faulty,     \* may Core and the file system fail, and the Host crash?
  Overlapping   \* may downloads overlap each other?

\* The configuration is refused unless the budget holds an entry of the largest size.
ASSUME BudgetAssumption ==
  Budget \in Nat /\ Size \in [Images -> 1..Budget]
ASSUME LocalDataAssumption ==
  "none" \notin Dids /\ MaxEntries \in Nat /\ Faulty \in BOOLEAN /\ Overlapping \in BOOLEAN

VARIABLES
  identity,   \* what has become of each DID
  active,     \* activeIdentityDid
  files,      \* the files of the cache, the least recently used first
  cacheDir,   \* does the directory of the cache exist?
  book,       \* the files of preferences, by DID
  bookDir,    \* does the directory of the preferences exist?
  queue,      \* the updates that wait for each other in mutation
  calls,      \* the calls, each at the await it is suspended at
  late,       \* ghost: the DIDs something was written for after a clear had passed it
  crowded,    \* ghost: the downloads that have met another one
  left        \* ghost: the files that a download which met no other failed to unlink

localVars ==
  <<identity, active, files, cacheDir, book, bookDir, queue, calls, late, crowded, left>>

None == "none"
Key == [owner : Dids, image : Images]
Preferences ==
  [hidden : {h \in SeqOf(Chats, MaxEntries) : IsInjective(h)},
   encrypted : {e \in SUBSET Chats : Cardinality(e) <= MaxEntries}]
NoPreferences == [hidden |-> <<>>, encrypted |-> {}]
Mutations == [action : {"hide", "restore", "encrypt", "plain"}, chat : Chats]

Idle == [kind |-> "idle"]
Call ==
  {Idle}
  \cup [kind : {"download"}, image : Images, owner : Dids \cup {None}, listed : Seq(Key),
        sent : BOOLEAN,   \* an image this device has sent: nothing to look up
        at : {"cached", "identity", "told", "lookup", "fetch", "ensure", "store", "chmod",
              "list", "stat", "evict"}]
  \cup [kind : {"update"}, mutation : Mutations, owner : Dids \cup {None}, read : Preferences,
        at : {"identity", "told", "load", "ensure", "rename"}]
  \cup [kind : {"clear"}, owner : Dids \cup {None}, after : SUBSET Calls,
        at : {"core", "cache", "cacheDir", "mutation", "book", "bookDir", "marker"}]

\* An update whose owner is known, and which writes or waits for others.
Updates(c) == calls[c].kind = "update" /\ calls[c].at \in {"load", "ensure", "rename"}

\* The files of preferences pass the validation of load(): within the bound, and no chat twice.
\* Whoever waits, waits for calls that are still in flight.
LocalTypeOK ==
  /\ identity \in [Dids -> {"new", "live", "gone", "cleared"}]
  /\ active \in Dids \cup {None}
  /\ files \in Seq(Key) /\ IsInjective(files)
  /\ cacheDir \in BOOLEAN /\ bookDir \in BOOLEAN
  /\ DOMAIN book \subseteq Dids /\ \A d \in DOMAIN book : book[d] \in Preferences
  /\ late \subseteq Dids /\ crowded \subseteq Calls /\ left \in Seq(Key)
  /\ calls \in [Calls -> Call]
  /\ IsInjective(queue) /\ ToSet(queue) = {c \in Calls : Updates(c)}
  /\ \A c \in Calls : calls[c].kind = "clear" => calls[c].after \subseteq ToSet(queue)

Core == IF \E d \in Dids : identity[d] = "live"
        THEN CHOOSE d \in Dids : identity[d] = "live" ELSE None

Stored(d) == IF d \in DOMAIN book THEN book[d] ELSE NoPreferences
NoBook == [d \in {} |-> NoPreferences]
\* The elements of s that are in S, in their order.
Among(s, S) ==
  LET at == {i \in DOMAIN s : s[i] \in S}
      Rank(i) == Cardinality({j \in at : j <= i})
  IN [n \in 1..Cardinality(at) |-> s[CHOOSE i \in at : Rank(i) = n]]

Total(fs) == FoldLeft(LAMBDA n, k : n + Size[k.image], 0, fs)

At(c, kind, at) == calls[c].kind = kind /\ calls[c].at = at
Busy(kind) == \E c \in Calls : calls[c].kind = kind
Goes(c, at) == calls' = [calls EXCEPT ![c].at = at]

\* An update leaves the queue when it ends, and nothing waits for it any more.
Ends(c) ==
  /\ queue' = RemoveFirst(queue, c)
  /\ calls' = [k \in Calls |->
       IF k = c THEN Idle
       ELSE IF calls[k].kind = "clear" THEN [calls[k] EXCEPT !.after = @ \ {c}] ELSE calls[k]]

\* Ghost: c writes for an identity that Core has lost, and the clear of it is not at one of the
\* places before it empties what c writes, nor waits for c.
Late(c, places) ==
  LET d == calls[c].owner IN
  IF \/ identity[d] = "live"
     \/ identity[d] = "gone" /\ \E k \in Calls :
          calls[k].kind = "clear" /\ (calls[k].at \in places \/ c \in calls[k].after)
  THEN late ELSE late \cup {d}

Host == <<identity, active>>
Cache == <<files, cacheDir, crowded, left>>
Book == <<book, bookDir, late>>

-----------------------------------------------------------------------------
LocalInit ==
  /\ identity = [d \in Dids |-> "new"] /\ active = None
  /\ files = <<>> /\ cacheDir = FALSE
  /\ book = NoBook /\ bookDir = FALSE
  /\ queue = <<>> /\ calls = [c \in Calls |-> Idle]
  /\ late = {} /\ crowded = {} /\ left = <<>>

-----------------------------------------------------------------------------
(* The owner of a call: the active DID, or else the answer of Core.  Both downloadAttachment() *)
(* and ownerDid() write it back.                                                               *)

NewCall(c, call) == calls[c] = Idle /\ calls' = [calls EXCEPT ![c] = call]

\* Core answers with its identity of this moment; the answer is on its way.
IdentityAnswers(c) ==
  /\ At(c, "download", "identity") \/ At(c, "update", "identity")
  /\ calls' = [calls EXCEPT ![c].owner = Core, ![c].at = "told"]
  /\ UNCHANGED <<Host, Cache, Book, queue>>

Owner(c) == IF active = None THEN calls[c].owner ELSE active

\* Without an owner the call ends with not-registered, and so does a download without identity.
NotRegistered(c) ==
  /\ \/ (At(c, "download", "told") \/ At(c, "update", "told")) /\ Owner(c) = None
     \/ At(c, "download", "fetch") /\ Core = None
  /\ Ends(c)
  /\ UNCHANGED <<Host, Cache, Book>>

-----------------------------------------------------------------------------
(* downloadAttachment() and AwikiImageAttachmentCache                       *)

\* Ghost: a download that meets another is crowded, and so is the other.
Meets(c) ==
  /\ crowded' = IF Busy("download") THEN {k \in Calls : k = c \/ calls[k].kind = "download"} ELSE {}
  /\ left' = <<>>

\* A file is looked up before anything is asked, if an identity is active.
Download(c, i) ==
  /\ Overlapping \/ ~Busy("download")
  /\ Meets(c)
  /\ NewCall(c, [kind |-> "download", image |-> i, owner |-> active, listed |-> <<>>,
                 sent |-> FALSE, at |-> IF active = None THEN "identity" ELSE "cached"])
  /\ UNCHANGED <<Host, files, cacheDir, Book, queue>>

\* sendAttachment() stores the image that Core has sent.
Send(c, i) ==
  /\ Overlapping \/ ~Busy("download")
  /\ Core # None
  /\ Meets(c)
  /\ NewCall(c, [kind |-> "download", image |-> i, owner |-> active, listed |-> <<>>,
                 sent |-> TRUE, at |-> IF active = None THEN "identity" ELSE "ensure"])
  /\ UNCHANGED <<Host, files, cacheDir, Book, queue>>

Wanted(c) == [owner |-> calls[c].owner, image |-> calls[c].image]

\* read(): a file that is found has its time set, and is the answer.
Hit(c) ==
  /\ At(c, "download", "cached") \/ At(c, "download", "lookup")
  /\ Contains(files, Wanted(c))
  /\ files' = Append(RemoveFirst(files, Wanted(c)), Wanted(c))
  /\ Ends(c)
  /\ UNCHANGED <<Host, cacheDir, crowded, left, Book>>

\* A miss goes on with the owner of now, and then with a second lookup, in run().
Miss(c) ==
  /\ At(c, "download", "cached")
  /\ ~Contains(files, Wanted(c))
  /\ calls' = [calls EXCEPT ![c].owner = active, ![c].at = IF active = None THEN "identity" ELSE "lookup"]
  /\ UNCHANGED <<Host, Cache, Book, queue>>

DownloadOwner(c) ==
  /\ At(c, "download", "told") /\ Owner(c) # None
  /\ active' = Owner(c)
  /\ calls' = [calls EXCEPT ![c].owner = Owner(c),
                            ![c].at = IF calls[c].sent THEN "ensure" ELSE "lookup"]
  /\ UNCHANGED <<identity, Cache, Book, queue>>

SecondMiss(c) ==
  /\ At(c, "download", "lookup")
  /\ ~Contains(files, Wanted(c))
  /\ Goes(c, "fetch")
  /\ UNCHANGED <<Host, Cache, Book, queue>>

\* client.downloadAttachment() needs an identity.
Fetched(c) ==
  /\ At(c, "download", "fetch")
  /\ Core # None
  /\ Goes(c, "ensure")
  /\ UNCHANGED <<Host, Cache, Book, queue>>

\* write(): the directory, the file (under another name first), its mode, and the eviction.
EnsureCache(c) ==
  /\ At(c, "download", "ensure")
  /\ cacheDir' = TRUE
  /\ Goes(c, "store")
  /\ UNCHANGED <<Host, files, crowded, left, Book, queue>>

Store(c) ==
  /\ At(c, "download", "store") /\ cacheDir
  /\ files' = Append(RemoveFirst(files, Wanted(c)), Wanted(c))
  /\ late' = Late(c, {"cache"})
  /\ Goes(c, "chmod")
  /\ UNCHANGED <<Host, cacheDir, crowded, left, book, bookDir, queue>>

Chmod(c) ==
  /\ At(c, "download", "chmod") /\ Contains(files, Wanted(c))
  /\ Goes(c, "list")
  /\ UNCHANGED <<Host, Cache, Book, queue>>

\* prune(): the directory is listed, ...
List(c) ==
  /\ At(c, "download", "list") /\ cacheDir
  /\ calls' = [calls EXCEPT ![c].listed = files, ![c].at = "stat"]
  /\ UNCHANGED <<Host, Cache, Book, queue>>

\* The files of the list.
Listed(c) == ToSet(calls[c].listed)

\* Mutant: the newest files are evicted first.
StatNewestFirst(c) ==
  /\ At(c, "download", "stat") /\ Listed(c) \subseteq ToSet(files)
  /\ calls' = [calls EXCEPT ![c].listed = Reverse(Among(files, Listed(c))),
                            ![c].at = "evict"]
  /\ UNCHANGED <<Host, Cache, Book, queue>>

\* ... every file of the list is looked at, ...
Stat(c) ==
  /\ At(c, "download", "stat") /\ Listed(c) \subseteq ToSet(files)
  /\ calls' = [calls EXCEPT ![c].listed = Among(files, Listed(c)),
                            ![c].at = "evict"]
  /\ UNCHANGED <<Host, Cache, Book, queue>>

\* ... and the oldest are unlinked until the rest of the list is within the budget.  An unlink
\* that fails, of a file that is gone or of one that is there, is as good as any.
Evict(c) ==
  /\ At(c, "download", "evict") /\ Total(calls[c].listed) > Budget
  /\ calls' = [calls EXCEPT ![c].listed = Tail(@)]
  /\ \/ files' = RemoveFirst(files, Head(calls[c].listed)) /\ left' = left
     \/ /\ Faulty /\ files' = files
        /\ left' = IF c \in crowded THEN left ELSE Append(left, Head(calls[c].listed))
  /\ UNCHANGED <<Host, cacheDir, crowded, Book, queue>>

Downloaded(c) ==
  /\ At(c, "download", "evict") /\ Total(calls[c].listed) <= Budget
  /\ Ends(c)
  /\ UNCHANGED <<Host, Cache, Book>>

\* What is gone when it is needed fails the write; the answer is the downloaded image all the same.
WriteFails(c) ==
  /\ \/ At(c, "download", "store") /\ ~cacheDir
     \/ At(c, "download", "chmod") /\ ~Contains(files, Wanted(c))
     \/ At(c, "download", "list") /\ ~cacheDir
     \/ At(c, "download", "stat") /\ ~(Listed(c) \subseteq ToSet(files))
  /\ Ends(c)
  /\ UNCHANGED <<Host, Cache, Book>>

-----------------------------------------------------------------------------
(* updateConversationPreference() and AwikiConversationPreferenceStore      *)

\* The update of one owner's file, once it is known whose; mutation serializes all of them.
Queued(c, owner) == queue' = Append(queue, c) /\ active' = owner

Update(c, m) ==
  /\ NewCall(c, [kind |-> "update", mutation |-> m, owner |-> active, read |-> NoPreferences,
                 at |-> IF active = None THEN "identity" ELSE "load"])
  /\ IF active = None THEN UNCHANGED <<queue, active>> ELSE Queued(c, active)
  /\ UNCHANGED <<identity, Cache, Book>>

UpdateOwner(c) ==
  /\ At(c, "update", "told") /\ Owner(c) # None
  /\ calls' = [calls EXCEPT ![c].owner = Owner(c), ![c].at = "load"]
  /\ Queued(c, Owner(c))
  /\ UNCHANGED <<identity, Cache, Book>>

\* Mutant: the file is read when the update is requested, and not when its turn comes.
LoadEarly(c) ==
  /\ At(c, "update", "load")
  /\ calls' = [calls EXCEPT ![c].read = Stored(calls[c].owner), ![c].at = "ensure"]
  /\ UNCHANGED <<Host, Cache, Book, queue>>

\* load()
Load(c) ==
  /\ At(c, "update", "load") /\ Head(queue) = c
  /\ calls' = [calls EXCEPT ![c].read = Stored(calls[c].owner), ![c].at = "ensure"]
  /\ UNCHANGED <<Host, Cache, Book, queue>>

UpTo(n, s) == IF Len(s) <= n THEN s ELSE SubSeq(s, 1, n)
Without(hidden, chat) == Among(hidden, Chats \ {chat})

\* A chat that is hidden comes first, and the last of too many is dropped.
Changed(p, m) ==
  CASE m.action = "hide" ->
         [p EXCEPT !.hidden = UpTo(MaxEntries, <<m.chat>> \o Without(@, m.chat))]
    [] m.action = "restore" -> [p EXCEPT !.hidden = Without(@, m.chat)]
    [] m.action = "encrypt" -> [p EXCEPT !.encrypted = @ \cup {m.chat}]
    [] m.action = "plain" -> [p EXCEPT !.encrypted = @ \ {m.chat}]

\* write(): the directory is made, ...
EnsureBook(c) ==
  /\ At(c, "update", "ensure") /\ Head(queue) = c
  /\ Cardinality(Changed(calls[c].read, calls[c].mutation).encrypted) <= MaxEntries
  /\ bookDir' = TRUE
  /\ Goes(c, "rename")
  /\ UNCHANGED <<Host, Cache, book, late, queue>>

\* ... and the file replaced.
Rename(c) ==
  LET call == calls[c] IN
  /\ At(c, "update", "rename") /\ Head(queue) = c /\ bookDir
  /\ book' = [d \in DOMAIN book \cup {call.owner} |->
              IF d = call.owner THEN Changed(call.read, call.mutation) ELSE book[d]]
  /\ late' = Late(c, {"cache", "cacheDir"})
  /\ Ends(c)
  /\ UNCHANGED <<Host, Cache, bookDir>>

\* Too many choices are refused, and a directory that was cleared fails the write.
UpdateRefused(c) ==
  /\ \/ /\ At(c, "update", "ensure")
        /\ Cardinality(Changed(calls[c].read, calls[c].mutation).encrypted) > MaxEntries
     \/ At(c, "update", "rename") /\ ~bookDir
  /\ Ends(c)
  /\ UNCHANGED <<Host, Cache, Book>>

-----------------------------------------------------------------------------
(* clearLocalData(), serialized by mutateSession(): Core first, then the files, each emptied    *)
(* before its directory is removed.                                                            *)

Clear(c) ==
  /\ ~Busy("clear")
  /\ NewCall(c, [kind |-> "clear", owner |-> Core, after |-> {}, at |-> "core"])
  /\ UNCHANGED <<Host, Cache, Book, queue>>

ClearCore(c) ==
  /\ At(c, "clear", "core")
  /\ identity' = [d \in Dids |-> IF identity[d] = "live" THEN "gone" ELSE identity[d]]
  /\ Goes(c, "cache")
  /\ UNCHANGED <<active, Cache, Book, queue>>

EmptyCache(c) ==
  /\ At(c, "clear", "cache")
  /\ files' = <<>>
  /\ Goes(c, "cacheDir")
  /\ UNCHANGED <<Host, cacheDir, crowded, left, Book, queue>>

RemoveCache(c) ==
  /\ At(c, "clear", "cacheDir") /\ files = <<>>
  /\ cacheDir' = FALSE
  /\ calls' = [calls EXCEPT ![c].after = ToSet(queue), ![c].at = "mutation"]
  /\ UNCHANGED <<Host, files, crowded, left, Book, queue>>

\* Mutant: clear() of the preferences waits for nobody.
EmptyBookAtOnce(c) ==
  /\ At(c, "clear", "mutation")
  /\ book' = NoBook
  /\ Goes(c, "bookDir")
  /\ UNCHANGED <<Host, Cache, bookDir, late, queue>>

\* clear() of the preferences waits for the updates requested before.
EmptyBook(c) ==
  /\ At(c, "clear", "mutation") /\ calls[c].after = {}
  /\ book' = NoBook
  /\ Goes(c, "bookDir")
  /\ UNCHANGED <<Host, Cache, bookDir, late, queue>>

RemoveBook(c) ==
  /\ At(c, "clear", "bookDir") /\ DOMAIN book = {}
  /\ bookDir' = FALSE
  /\ Goes(c, "marker")
  /\ UNCHANGED <<Host, Cache, book, late, queue>>

\* The marker is removed and the clear answered.  Every DID that Core no longer has is cleared.
Cleared(c) ==
  /\ At(c, "clear", "marker")
  /\ identity' = [d \in Dids |-> IF identity[d] = "gone" THEN "cleared" ELSE identity[d]]
  /\ active' = None
  /\ Ends(c)
  /\ UNCHANGED <<Cache, Book>>

\* A directory that something was written to in the meantime cannot be removed.
NotEmpty(c) ==
  /\ \/ At(c, "clear", "cacheDir") /\ files # <<>>
     \/ At(c, "clear", "bookDir") /\ DOMAIN book # {}
  /\ Ends(c)
  /\ UNCHANGED <<Host, Cache, Book>>

-----------------------------------------------------------------------------
(* Registration, reads of the session, failures and crashes                 *)

\* activateRegisteredIdentity()
Register(d) ==
  /\ Core = None /\ identity[d] = "new"
  /\ identity' = [identity EXCEPT ![d] = "live"]
  /\ active' = d
  /\ UNCHANGED <<Cache, Book, queue, calls>>

\* getSession() and getIdentity(), answered at once.
Reads ==
  /\ active' = Core /\ active' # active
  /\ UNCHANGED <<identity, Cache, Book, queue, calls>>

\* Any call of Core or of the file system may fail, and ends the call it belongs to.
Fails(c) ==
  /\ Faulty /\ calls[c] # Idle
  /\ Ends(c)
  /\ UNCHANGED <<Host, Cache, Book>>

Crash ==
  /\ Faulty
  /\ calls' = [c \in Calls |-> Idle] /\ queue' = <<>> /\ active' = None
  /\ calls' # calls
  /\ UNCHANGED <<identity, Cache, Book>>

-----------------------------------------------------------------------------
CacheStep(c) ==
  \/ Hit(c) \/ Miss(c) \/ DownloadOwner(c) \/ SecondMiss(c) \/ Fetched(c) \/ EnsureCache(c)
  \/ Store(c) \/ Chmod(c) \/ List(c) \/ Stat(c) \/ Evict(c) \/ Downloaded(c) \/ WriteFails(c)

BookStep(c) ==
  UpdateOwner(c) \/ Load(c) \/ EnsureBook(c) \/ Rename(c) \/ UpdateRefused(c)

ClearStep(c) ==
  \/ ClearCore(c) \/ EmptyCache(c) \/ RemoveCache(c) \/ EmptyBook(c) \/ RemoveBook(c)
  \/ Cleared(c) \/ NotEmpty(c)

LocalNext ==
  \/ \E c \in Calls, i \in Images : Download(c, i) \/ Send(c, i)
  \/ \E c \in Calls, m \in Mutations : Update(c, m)
  \/ \E c \in Calls :
       \/ Clear(c) \/ Fails(c) \/ IdentityAnswers(c) \/ NotRegistered(c)
       \/ CacheStep(c) \/ BookStep(c) \/ ClearStep(c)
  \/ \E d \in Dids : Register(d)
  \/ Reads \/ Crash

LocalSpec == LocalInit /\ [][LocalNext]_localVars

-----------------------------------------------------------------------------
(* Properties                                                               *)

\* A download that has stored its image and evicted others, and has met no other download, leaves
\* the cache within its budget and the image in it, unless a clear has emptied it
\* (attachment-cache.ts:160): whatever interrupted writes, abandoned evictions and downloads that
\* overlapped left before.  Excepted are the files whose unlink failed, the oldest of all.
CacheFits ==
  \A c \in Calls \ crowded :
    At(c, "download", "evict") /\ Total(calls[c].listed) <= Budget /\ files # <<>>
      => /\ Contains(files, Wanted(c))
         /\ IsPrefix(left, files)
         /\ Total(SubSeq(files, Len(left) + 1, Len(files))) <= Budget

\* The cache at rest keeps its budget (attachment-cache.ts:70).  An eviction that meets a file
\* which another has unlinked is abandoned, and breaks it, see the README.
Bounded == (\A c \in Calls : calls[c] = Idle) => Total(files) <= Budget

\* No update is lost: what one has read is still what is on disk when it is written back,
\* whoever else asked for an update and whatever failed, unless a clear has removed it
\* (conversation-preferences.ts:188).
NoUpdateLost ==
  \A c \in Calls :
    Updates(c) /\ calls[c].at # "load" =>
      calls[c].owner \notin DOMAIN book \/ book[calls[c].owner] = calls[c].read

NothingLeft(d) == d \notin DOMAIN book /\ \A k \in ToSet(files) : k.owner # d

\* A clear answered with success leaves nothing of the identity, whatever was being written
\* while it ran: neither a file from before nor one of an update it had to wait for
\* (index.ts:2850).  Excepted is what was written behind its back.
ClearedIsGone == \A d \in Dids \ late : identity[d] = "cleared" => NothingLeft(d)

\* The same without the exception, which the code does not satisfy, see the README.
ClearedForGood == \A d \in Dids : identity[d] = "cleared" => NothingLeft(d)
=============================================================================
