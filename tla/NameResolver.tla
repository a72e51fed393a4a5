----------------------------- MODULE NameResolver -----------------------------
(***************************************************************************)
(* From the name in the chat to the osu! user (IrcNameResolver and its     *)
(* callers in IRCBot).  A resolution asks a cache, then the table of       *)
(* names, then osu!, under a semaphore per name.  A mapping that is set by *)
(* hand, or because it was found to be wrong, goes to the table without    *)
(* the semaphore and leaves the cache empty.                               *)
(*                                                                         *)
(* Users of osu! change their names and give them up, so the record of the *)
(* user an id belongs to, which is an hour old at most, is compared with   *)
(* the name in the chat.  Statements on the database, the cache and osu!   *)
(* are steps of their own, and each may fail.                              *)
(***************************************************************************)
CONSTANTS
    Names,       \* in the chat: with underscores for spaces
    Searchable,  \* names that osu! finds the user of; of others it knows the id only
    Users,       \* osu! ids
    Threads,     \* core workers and web requests
    NoUser,      \* the id -1
    Null

ASSUME NamesAssumption ==
    /\ Searchable \subseteq Names
    /\ NoUser \notin Users /\ Null \notin Names \cup Users \cup {NoUser} \cup Threads

Ids == Users \cup {NoUser}
Mapping == [id : Ids, due : BOOLEAN]            \* due: too old to be believed
ApiUser == [id : Users, name : Names]
ASSUME NullsAssumption == Null \notin Mapping \cup ApiUser

VARIABLES
    bearer,            \* who has each name at osu!
    usernames,         \* table of mappings by name
    apiUsers,          \* table of records: what each user was called
    outdated,          \* users whose record is older than an hour
    resolvedIRCNames,  \* the cache
    semaphores,        \* who holds the semaphore of each name
    thread,            \* where each request is and what it holds
    known,             \* history: who has ever had each name
    lately             \* history: who has had each name within the hour

world == <<bearer, known, lately>>
tables == <<usernames, apiUsers, outdated>>
vars == <<world, tables, resolvedIRCNames, semaphores, thread>>

Resolving == {"find", "download", "persist", "replace", "return"}
Checking == {"getUser", "downloadId", "persistId", "redownload", "persistNick",
             "map", "invalidate", "handled"}
Thread == [
    pc : {"idle", "acquire"} \cup Resolving \cup Checking,
    task : {"message", "activity", "welcome", "manual"},
    nick : Names \cup {Null},    \* who writes
    name : Names \cup {Null},    \* that is resolved or mapped
    id : Ids \cup {Null},
    user : ApiUser \cup {Null}]

Idle == [pc |-> "idle", task |-> "activity", nick |-> Null, name |-> Null,
         id |-> Null, user |-> Null]

Init ==
    /\ bearer \in {b \in [Names -> Ids] :
                     \A m, n \in Names : b[m] = b[n] /\ b[m] # NoUser => m = n}
    /\ known = [n \in Names |-> {bearer[n]} \cap Users]
    /\ lately = known
    /\ usernames = [n \in Names |-> Null]
    /\ apiUsers = [u \in Users |-> Null]
    /\ outdated = {}
    /\ resolvedIRCNames = [n \in Names |-> Null]
    /\ semaphores = [n \in Names |-> Null]
    /\ thread = [t \in Threads |-> Idle]

-----------------------------------------------------------------------------
(* Requests.                                                               *)

Set(t, request) == thread' = [thread EXCEPT ![t] = request]
Goto(t, pc) == Set(t, [thread[t] EXCEPT !.pc = pc])
At(t, pc) == thread[t].pc = pc

Resolve(task, nick) ==
    [Idle EXCEPT !.pc = "acquire", !.task = task, !.nick = nick, !.name = nick]

\* When a chat event was handled, well or not, the activity of its sender is
\* registered, which resolves the name once more.
Then(t) ==
    IF thread[t].task = "activity" \/ thread[t].nick = Null
    THEN Idle
    ELSE Resolve("activity", thread[t].nick)

\* getUserOrThrow.
Message(t, nick) ==
    /\ At(t, "idle")
    /\ Set(t, Resolve("message", nick))
    /\ UNCHANGED <<world, tables, resolvedIRCNames, semaphores>>

\* Events that are only registered.
RegisterActivity(t, nick) ==
    /\ At(t, "idle")
    /\ Set(t, Resolve("activity", nick))
    /\ UNCHANGED <<world, tables, resolvedIRCNames, semaphores>>

\* Users who come online; donators are welcomed.
WelcomeIfDonator(t, nick) ==
    /\ At(t, "idle")
    /\ Set(t, Resolve("welcome", nick))
    /\ UNCHANGED <<world, tables, resolvedIRCNames, semaphores>>

\* !fixid in the chat, or a request of the API with nobody's nick.
ResolveManually(t, nick, id) ==
    /\ At(t, "idle")
    /\ Set(t, [Idle EXCEPT !.pc = "getUser", !.task = "manual", !.nick = nick, !.id = id])
    /\ UNCHANGED <<world, tables, resolvedIRCNames, semaphores>>

-----------------------------------------------------------------------------
(* resolveIRCName.                                                         *)

\* Mutant: only a result releases the semaphore, an exception does not.
MutFreed(t) ==
    IF At(t, "return")
    THEN [n \in Names |-> IF semaphores[n] = t THEN Null ELSE semaphores[n]]
    ELSE semaphores
Freed(t) == [n \in Names |-> IF semaphores[n] = t THEN Null ELSE semaphores[n]]

\* What follows when the name is resolved, to nobody perhaps: then the sender of a
\* message is told that the name is confusing.
Resolved(t, id) ==
    IF thread[t].task \in {"message", "welcome"} /\ id \in Users
    THEN [thread[t] EXCEPT !.pc = "getUser", !.id = id, !.user = Null]
    ELSE Then(t)

\* Acquires the semaphore and looks into the cache.
GetIfPresent(t) ==
    LET name == thread[t].name  cached == resolvedIRCNames[name] IN
    /\ At(t, "acquire")
    /\ semaphores[name] = Null
    /\ IF cached = Null
       THEN Goto(t, "find") /\ semaphores' = [semaphores EXCEPT ![name] = t]
       ELSE Set(t, Resolved(t, cached)) /\ UNCHANGED semaphores
    /\ UNCHANGED <<world, tables, resolvedIRCNames>>

Unknown(mapping) == mapping = Null \/ mapping.due

FindByUserName(t) ==
    LET mapping == usernames[thread[t].name] IN
    /\ At(t, "find")
    /\ Set(t, [thread[t] EXCEPT
                 !.pc = IF Unknown(mapping) THEN "download" ELSE "return",
                 !.id = IF mapping = Null THEN NoUser ELSE mapping.id])
    /\ UNCHANGED <<world, tables, resolvedIRCNames, semaphores>>

\* What osu! answers to a name.
Found(name) == IF name \in Searchable THEN bearer[name] ELSE NoUser

DownloadUser(t) ==
    LET id == Found(thread[t].name) IN
    /\ At(t, "download")
    /\ Set(t, IF id = NoUser
              THEN [thread[t] EXCEPT !.pc = "replace", !.id = NoUser]
              ELSE [thread[t] EXCEPT !.pc = "persist", !.id = id,
                                     !.user = [id |-> id, name |-> thread[t].name]])
    /\ UNCHANGED <<world, tables, resolvedIRCNames, semaphores>>

\* After a timeout an old id is better than none.
DownloadTimeout(t) ==
    /\ At(t, "download")
    /\ thread[t].id \in Users
    /\ Goto(t, "return")
    /\ UNCHANGED <<world, tables, resolvedIRCNames, semaphores>>

ReplaceMapping(t) ==
    /\ At(t, "replace")
    /\ usernames' = [usernames EXCEPT ![thread[t].name] = [id |-> thread[t].id, due |-> FALSE]]
    /\ Goto(t, "return")
    /\ UNCHANGED <<world, apiUsers, outdated, resolvedIRCNames, semaphores>>

\* That a name is nobody's is not cached.
Cacheable(id) == id # NoUser

Return(t) ==
    LET id == thread[t].id IN
    /\ At(t, "return")
    /\ resolvedIRCNames' =
         IF Cacheable(id)
         THEN [resolvedIRCNames EXCEPT ![thread[t].name] = id]
         ELSE resolvedIRCNames
    /\ semaphores' = Freed(t)
    /\ Set(t, Resolved(t, id))
    /\ UNCHANGED <<world, tables>>

-----------------------------------------------------------------------------
(* The record of the user (PullThrough, ApiUser.loadOrDownload).           *)

\* The mapping of user's own name to the user.
\* Mutant: it is the name of who writes.
MutOwn(t, user) ==
    [thread[t] EXCEPT !.pc = "map", !.name = IF @ = Null THEN thread[t].nick ELSE user.name,
                      !.id = user.id, !.user = user]
MapOwn(t, user) ==
    [thread[t] EXCEPT !.pc = "map", !.name = user.name, !.id = user.id, !.user = user]

\* getUserOrThrow: the user an id belongs to may have another name by now.
\* Mutant: the name of the record is not looked at.
MutChecked(t, user) == [thread[t] EXCEPT !.pc = "handled", !.user = user]
Checked(t, user) ==
    IF user.name = thread[t].nick
    THEN [thread[t] EXCEPT !.pc = "handled", !.user = user]
    ELSE MapOwn(t, user)

Loaded(t, user) ==
    CASE thread[t].task = "message" -> Checked(t, user)
      [] thread[t].task = "manual" -> MapOwn(t, user)
      [] OTHER -> Then(t)

\* A message is content with a record of the last hour, a welcome with any, a
\* manual mapping with none.
Content(task, u) ==
    apiUsers[u] # Null /\ (task = "welcome" \/ (task = "message" /\ u \notin outdated))

GetUser(t) ==
    LET id == thread[t].id IN
    /\ At(t, "getUser")
    /\ Set(t, IF Content(thread[t].task, id)
              THEN Loaded(t, apiUsers[id])
              ELSE [thread[t] EXCEPT !.pc = "downloadId"])
    /\ UNCHANGED <<world, tables, resolvedIRCNames, semaphores>>

Named(u) == {n \in Names : bearer[n] = u}

\* A user who is banned is not found.
DownloadId(t) ==
    /\ At(t, "downloadId")
    /\ \/ /\ Named(thread[t].id) = {}
          /\ Set(t, Then(t))
       \/ \E n \in Named(thread[t].id) :
            Set(t, [thread[t] EXCEPT !.pc = "persistId",
                                     !.user = [id |-> thread[t].id, name |-> n]])
    /\ UNCHANGED <<world, tables, resolvedIRCNames, semaphores>>

Persisted(t) ==
    CASE At(t, "persist") -> [thread[t] EXCEPT !.pc = "replace"]
      [] At(t, "persistNick") -> [thread[t] EXCEPT !.pc = "map"]
      [] OTHER -> Loaded(t, thread[t].user)

PersistUser(t) ==
    LET user == thread[t].user IN
    /\ thread[t].pc \in {"persist", "persistId", "persistNick"}
    /\ apiUsers' = [apiUsers EXCEPT ![user.id] = user]
    /\ outdated' = outdated \ {user.id}
    /\ Set(t, Persisted(t))
    /\ UNCHANGED <<world, usernames, resolvedIRCNames, semaphores>>

-----------------------------------------------------------------------------
(* setMapping, and what getUserOrThrow does if the name is another one.    *)

MapName(t) ==
    /\ At(t, "map")
    /\ usernames' = [usernames EXCEPT ![thread[t].name] = [id |-> thread[t].id, due |-> FALSE]]
    /\ Goto(t, "invalidate")
    /\ UNCHANGED <<world, apiUsers, outdated, resolvedIRCNames, semaphores>>

\* After its own name, a message has its nick mapped anew, to whom osu! says.
Mapped(t) ==
    LET r == thread[t] IN
    CASE r.task = "manual" -> Then(t)
      [] r.task = "message" /\ r.name # r.nick ->
           [r EXCEPT !.pc = "redownload", !.name = r.nick, !.user = Null]
      [] OTHER -> IF r.user = Null THEN Then(t) ELSE [r EXCEPT !.pc = "handled"]

\* Mutant: a mapping does not touch the cache.
MutInvalidated(name) == resolvedIRCNames
Invalidated(name) == [resolvedIRCNames EXCEPT ![name] = Null]

Invalidate(t) ==
    /\ At(t, "invalidate")
    /\ resolvedIRCNames' = Invalidated(thread[t].name)
    /\ Set(t, Mapped(t))
    /\ UNCHANGED <<world, tables, semaphores>>

RedownloadUser(t) ==
    LET id == Found(thread[t].nick) IN
    /\ At(t, "redownload")
    /\ Set(t, IF id = NoUser
              THEN [thread[t] EXCEPT !.pc = "map", !.id = NoUser, !.user = Null]
              ELSE [thread[t] EXCEPT !.pc = "persistNick", !.id = id,
                                     !.user = [id |-> id, name |-> thread[t].nick]])
    /\ UNCHANGED <<world, tables, resolvedIRCNames, semaphores>>

\* The handler of the message, which has its user.
Handle(t) ==
    /\ At(t, "handled")
    /\ Set(t, Then(t))
    /\ UNCHANGED <<world, tables, resolvedIRCNames, semaphores>>

\* An exception at any statement.
Fail(t) ==
    /\ thread[t].pc \in Resolving \cup Checking
    /\ semaphores' = Freed(t)
    /\ Set(t, Then(t))
    /\ UNCHANGED <<world, tables, resolvedIRCNames>>

-----------------------------------------------------------------------------
(* What happens by itself.                                                 *)

\* A user takes a name that is free, and its old one is free from then on.
Rename(u, name) ==
    /\ bearer[name] = NoUser
    /\ bearer' = [n \in Names |-> IF n = name THEN u
                                  ELSE IF bearer[n] = u THEN NoUser ELSE bearer[n]]
    /\ known' = [known EXCEPT ![name] = @ \cup {u}]
    /\ lately' = [lately EXCEPT ![name] = @ \cup {u}]
    /\ UNCHANGED <<tables, resolvedIRCNames, semaphores, thread>>

\* A user is banned.
Vanish(u) ==
    /\ Named(u) # {}
    /\ bearer' = [n \in Names |-> IF bearer[n] = u THEN NoUser ELSE bearer[n]]
    /\ UNCHANGED <<known, lately, tables, resolvedIRCNames, semaphores, thread>>

\* A mapping gets too old: after 90 days, or if it is of no user, hours.
Age(n) ==
    /\ usernames[n] # Null
    /\ ~usernames[n].due
    /\ usernames' = [usernames EXCEPT ![n].due = TRUE]
    /\ UNCHANGED <<world, apiUsers, outdated, resolvedIRCNames, semaphores, thread>>

\* An hour passes since the record of u was stored.  No request takes as long,
\* because requests to osu! have a timeout.
Hour(u) ==
    /\ \A t \in Threads : thread[t].user # Null => thread[t].user.id # u
    /\ outdated' = outdated \cup ({u} \ {v \in Users : apiUsers[v] = Null})
    /\ lately' = [n \in Names |-> lately[n] \ ({u} \ {bearer[n]})]
    /\ UNCHANGED <<bearer, known, usernames, apiUsers, resolvedIRCNames, semaphores, thread>>

\* The cache has a limit.
Evict(n) ==
    /\ resolvedIRCNames[n] # Null
    /\ resolvedIRCNames' = [resolvedIRCNames EXCEPT ![n] = Null]
    /\ UNCHANGED <<world, tables, semaphores, thread>>

\* The process ends and begins anew.
Restart ==
    /\ thread' = [t \in Threads |-> Idle]
    /\ semaphores' = [n \in Names |-> Null]
    /\ resolvedIRCNames' = [n \in Names |-> Null]
    /\ UNCHANGED <<world, tables>>

-----------------------------------------------------------------------------
\* What a request does when nothing fails.
Work(t) ==
    \/ GetIfPresent(t) \/ FindByUserName(t) \/ DownloadUser(t)
    \/ ReplaceMapping(t) \/ Return(t)
    \/ GetUser(t) \/ DownloadId(t) \/ PersistUser(t)
    \/ MapName(t) \/ Invalidate(t) \/ RedownloadUser(t) \/ Handle(t)

Requests ==
    \E t \in Threads :
        \/ \E nick \in Names :
             Message(t, nick) \/ RegisterActivity(t, nick) \/ WelcomeIfDonator(t, nick)
        \/ \E nick \in Names \cup {Null}, id \in Users : ResolveManually(t, nick, id)

Trouble ==
    \/ \E t \in Threads : DownloadTimeout(t) \/ Fail(t)
    \/ \E u \in Users : Vanish(u)
    \/ \E n \in Names : Evict(n)
    \/ Restart

Time == (\E n \in Names : Age(n)) \/ (\E u \in Users : Hour(u))

Next ==
    \/ Requests \/ Trouble \/ Time
    \/ \E u \in Users, name \in Names : Rename(u, name)
    \/ \E t \in Threads : Work(t)

Spec == Init /\ [][Next]_vars

-----------------------------------------------------------------------------
TypeOK ==
    /\ bearer \in [Names -> Ids]
    /\ known \in [Names -> SUBSET Users] /\ lately \in [Names -> SUBSET Users]
    /\ usernames \in [Names -> Mapping \cup {Null}]
    /\ apiUsers \in [Users -> ApiUser \cup {Null}]
    /\ outdated \subseteq Users
    /\ resolvedIRCNames \in [Names -> Users \cup {Null}]
    /\ semaphores \in [Names -> Threads \cup {Null}]
    /\ thread \in [Threads -> Thread]

(* However requests overlap and users swap their names, whatever is stored *)
(* of a name has been true once: neither the table nor the cache nor a     *)
(* record gives a name to a user who never had it.                         *)
OnceTrue ==
    /\ \A n \in Names : usernames[n] # Null => usernames[n].id \in known[n] \cup {NoUser}
    /\ \A n \in Names : resolvedIRCNames[n] \in known[n] \cup {Null}
    /\ \A u \in Users : apiUsers[u] # Null => apiUsers[u].id = u /\ u \in known[apiUsers[u].name]

(* A message is handled as that of a user who has had its nick within the  *)
(* hour, although mappings are believed for much longer, cached ones for   *)
(* as long as the process runs.                                            *)
HandledAsBearer ==
    \A t \in Threads : At(t, "handled") => thread[t].user.id \in lately[thread[t].nick]

(* Work on a name is not blocked for ever by a request that failed.        *)
NameFreed == \A n \in Names : semaphores[n] # Null ~> semaphores[n] = Null

\* What a request with record r knows of n is older than the mapping to id, and
\* it may yet store it.
Undoes(r, n, id) ==
    /\ r.name = n
    /\ r.pc = "download" \/ (r.pc \in {"persist", "replace", "return", "map"} /\ r.id # id)
MappedTo(n, id) ==
    /\ usernames[n] = [id |-> id, due |-> FALSE]
    /\ \A t \in Threads : ~Undoes(thread[t], n, id)
Settled(n, id) == MappedTo(n, id) /\ resolvedIRCNames[n] \in {Null, id}
MappedAnew(n, id) == \E t \in Threads : At(t, "map") /\ Undoes(thread[t], n, id)

(* setMapping goes without the semaphore.  Yet a mapping during which no    *)
(* request asks osu! for the name or holds another id for it is what the   *)
(* name resolves to from when the cache was emptied, until the mapping is  *)
(* too old or one to another id begins.  Nothing else undoes it: neither   *)
(* resolutions that began before, nor those that fail, nor a restart.      *)
MappingStands ==
    [][\A n \in Names, id \in Ids :
          /\ \A t \in Threads :
               /\ MapName(t) /\ thread[t].name = n /\ thread[t].id = id
               /\ \A s \in Threads : ~Undoes(thread[s], n, id)
               => MappedTo(n, id)'
          /\ \A t \in Threads :
               MappedTo(n, id) /\ Invalidate(t) /\ thread[t].name = n => Settled(n, id)'
          /\ MappedTo(n, id) => MappedTo(n, id)' \/ Age(n) \/ MappedAnew(n, id)'
          /\ Settled(n, id) => Settled(n, id)' \/ Age(n) \/ MappedAnew(n, id)']_vars

(* What a resolution of n believes without asking osu!.                    *)
Believed(n) ==
    IF resolvedIRCNames[n] # Null THEN resolvedIRCNames[n]
    ELSE IF Unknown(usernames[n]) THEN Null ELSE usernames[n].id
=============================================================================
