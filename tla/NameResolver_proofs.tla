-------------------------- MODULE NameResolver_proofs -------------------------
(***************************************************************************)
(* Proofs that the variables of NameResolver have their types, that what   *)
(* is stored of a name has been true once, that messages are handled as    *)
(* those of a user who has had the nick within the hour, that a name is    *)
(* resolved by one request at a time, and what a mapping needs to stand.   *)
(*                                                                         *)
(* The invariant says where what a request holds comes from: an id that is *)
(* going to be stored belongs to the name it is going to be stored for     *)
(* (RequestInv), and a user that was loaded or downloaded had the name in  *)
(* the record within the hour, as had the users whose record in the table  *)
(* is not outdated (RecordsInv).                                           *)
(***************************************************************************)
EXTENDS NameResolver, TLAPS

Once(name, id) == id \in known[name] \cup {NoUser}

RequestInv(r) ==
    /\ r.pc \in {"acquire"} \cup Resolving =>
         r.task # "manual" /\ r.name \in Names /\ r.nick = r.name
    /\ r.pc \in {"download", "replace", "return"} => r.id \in Ids /\ Once(r.name, r.id)
    /\ r.pc \in {"getUser", "downloadId"} => r.id \in Users
    /\ r.pc \in Checking => r.task # "activity"
    /\ r.pc \in Checking /\ r.task = "message" => r.nick \in Names
    /\ r.pc \in {"persist", "persistId", "persistNick", "handled"} => r.user # Null
    /\ r.pc = "persist" => r.user.id = r.id /\ r.user.name = r.name
    /\ r.pc \in {"map", "invalidate"} => r.task # "welcome"
    /\ r.pc \in {"redownload", "persistNick"} => r.task = "message" /\ r.name = r.nick
    /\ r.pc = "persistNick" => r.user.id = r.id /\ r.user.name = r.nick
    /\ r.pc \in {"map", "invalidate"} =>
         /\ r.name \in Names /\ r.id \in Ids /\ Once(r.name, r.id)
         /\ r.task = "message" /\ r.name = r.nick /\ r.user # Null => r.user.name = r.nick
    /\ r.pc = "handled" => r.task = "message" /\ r.user.name = r.nick
    /\ r.user # Null => r.user.id \in known[r.user.name] \cap lately[r.user.name]

RequestsInv == \A t \in Threads : RequestInv(thread[t])

RecordsInv ==
    \A u \in Users : apiUsers[u] # Null /\ u \notin outdated => u \in lately[apiUsers[u].name]

HistoryInv ==
    \A n \in Names : /\ lately[n] \subseteq known[n]
                     /\ bearer[n] \in Users => bearer[n] \in lately[n]

IInv == TypeOK /\ OnceTrue /\ HistoryInv /\ RecordsInv /\ RequestsInv

-----------------------------------------------------------------------------
(* The records that requests go on with.                                   *)

LEMMA IdleOK == Idle \in Thread /\ RequestInv(Idle)
BY DEF Idle, Thread, RequestInv, Resolving, Checking

LEMMA ResolveOK ==
    ASSUME NEW task \in {"message", "activity", "welcome"}, NEW nick \in Names
    PROVE  Resolve(task, nick) \in Thread /\ RequestInv(Resolve(task, nick))
BY DEF Resolve, Idle, Thread, RequestInv, Resolving, Checking

LEMMA ThenOK ==
    ASSUME NEW t \in Threads, thread[t] \in Thread
    PROVE  Then(t) \in Thread /\ RequestInv(Then(t))
<1>1. CASE Then(t) = Idle
  BY <1>1, IdleOK
<1>2. CASE thread[t].nick # Null /\ Then(t) = Resolve("activity", thread[t].nick)
  <2>1. thread[t].nick \in Names
    BY <1>2 DEF Thread
  <2> QED BY <1>2, <2>1, ResolveOK
<1> QED BY <1>1, <1>2 DEF Then

\* The name and the id of a known user, to be mapped.
LEMMA MapOwnOK ==
    ASSUME NEW t \in Threads, thread[t] \in Thread,
           thread[t].task \in {"message", "manual"},
           thread[t].task = "message" => thread[t].nick \in Names,
           NEW user \in ApiUser, user.id \in known[user.name] \cap lately[user.name]
    PROVE  MapOwn(t, user) \in Thread /\ RequestInv(MapOwn(t, user))
<1> DEFINE r == MapOwn(t, user)
<1>1. r \in Thread
  BY DEF MapOwn, Thread, Checking, ApiUser, Ids
<1>2. /\ r.pc = "map" /\ r.task = thread[t].task /\ r.nick = thread[t].nick
      /\ r.name = user.name /\ r.id = user.id /\ r.user = user
  BY DEF MapOwn, Thread
<1>3. user.name \in Names /\ user.id \in Ids
  BY DEF ApiUser, Ids
<1> HIDE DEF r
<1> QED BY <1>1, <1>2, <1>3 DEF r, RequestInv, Once, Resolving, Checking

\* A user who is compared with the nick of a message.
LEMMA CheckedOK ==
    ASSUME NEW t \in Threads, thread[t] \in Thread, thread[t].task = "message",
           thread[t].nick \in Names,
           NEW user \in ApiUser, user.id \in known[user.name] \cap lately[user.name]
    PROVE  Checked(t, user) \in Thread /\ RequestInv(Checked(t, user))
<1>1. CASE user.name = thread[t].nick
  <2> DEFINE r == [thread[t] EXCEPT !.pc = "handled", !.user = user]
  <2>1. r \in Thread
    BY DEF Thread, Checking
  <2>2. r.pc = "handled" /\ r.task = "message" /\ r.nick = thread[t].nick /\ r.user = user
    BY DEF Thread
  <2>3. user # Null
    BY NullsAssumption
  <2>4. Checked(t, user) = r
    BY <1>1 DEF Checked
  <2> HIDE DEF r
  <2> QED BY <1>1, <2>1, <2>2, <2>3, <2>4 DEF RequestInv, Resolving, Checking
<1>2. CASE user.name # thread[t].nick
  BY <1>2, MapOwnOK DEF Checked
<1> QED BY <1>1, <1>2

\* A record that was loaded, for whatever reason.
LEMMA LoadedOK ==
    ASSUME NEW t \in Threads, thread[t] \in Thread,
           thread[t].task = "message" => thread[t].nick \in Names,
           NEW user \in ApiUser, user.id \in known[user.name] \cap lately[user.name]
    PROVE  Loaded(t, user) \in Thread /\ RequestInv(Loaded(t, user))
<1>1. CASE thread[t].task = "message"
  BY <1>1, CheckedOK DEF Loaded
<1>2. CASE thread[t].task = "manual"
  BY <1>2, MapOwnOK DEF Loaded
<1>3. CASE thread[t].task \notin {"message", "manual"}
  BY <1>3, ThenOK DEF Loaded
<1> QED BY <1>1, <1>2, <1>3

LEMMA ResolvedOK ==
    ASSUME NEW t \in Threads, thread[t] \in Thread, NEW id \in Ids,
           thread[t].nick \in Names
    PROVE  Resolved(t, id) \in Thread /\ RequestInv(Resolved(t, id))
<1>1. CASE thread[t].task \in {"message", "welcome"} /\ id \in Users
  <2> DEFINE r == [thread[t] EXCEPT !.pc = "getUser", !.id = id, !.user = Null]
  <2>1. r \in Thread
    BY DEF Thread, Checking
  <2>2. /\ r.pc = "getUser" /\ r.task = thread[t].task /\ r.nick = thread[t].nick
        /\ r.id = id /\ r.user = Null
    BY <1>1 DEF Thread
  <2>3. Resolved(t, id) = r
    BY <1>1 DEF Resolved
  <2> HIDE DEF r
  <2> QED BY <1>1, <2>1, <2>2, <2>3 DEF RequestInv, Resolving, Checking
<1>2. CASE ~(thread[t].task \in {"message", "welcome"} /\ id \in Users)
  BY <1>2, ThenOK DEF Resolved
<1> QED BY <1>1, <1>2

-----------------------------------------------------------------------------
(* What a step of one request has to show.                                 *)

\* The request goes on with r, and the tables and the history stay.
LEMMA SetOK ==
    ASSUME IInv, NEW t \in Threads, NEW r \in Thread, RequestInv(r),
           Set(t, r), UNCHANGED <<known, lately>>
    PROVE  thread' \in [Threads -> Thread] /\ RequestsInv'
<1>1. thread' \in [Threads -> Thread]
  BY DEF IInv, TypeOK, Set
<1>2. \A s \in Threads : RequestInv(thread'[s])
  BY DEF IInv, TypeOK, Set, RequestsInv
<1>3. RequestsInv'
  BY <1>2 DEF RequestsInv, RequestInv, Once
<1> QED BY <1>1, <1>3

LEMMA FreedOK ==
    ASSUME TypeOK, NEW t \in Threads
    PROVE  Freed(t) \in [Names -> Threads \cup {Null}]
BY DEF TypeOK, Freed

\* A step of a request that leaves the tables and the cache alone.
LEMMA QuietStep ==
    ASSUME IInv, NEW t \in Threads, NEW r \in Thread, RequestInv(r), Set(t, r),
           UNCHANGED <<world, tables, resolvedIRCNames>>,
           semaphores' \in [Names -> Threads \cup {Null}]
    PROVE  IInv'
<1>1. thread' \in [Threads -> Thread] /\ RequestsInv'
  BY SetOK DEF world
<1>2. TypeOK'
  BY <1>1 DEF IInv, TypeOK, world, tables
<1>3. OnceTrue' /\ HistoryInv' /\ RecordsInv'
  BY DEF IInv, OnceTrue, HistoryInv, RecordsInv, world, tables
<1> QED BY <1>1, <1>2, <1>3 DEF IInv

\* An id is stored for a name it belongs to.
LEMMA MappingStep ==
    ASSUME IInv, NEW t \in Threads, NEW r \in Thread, RequestInv(r), Set(t, r),
           NEW name \in Names, NEW id \in Ids, Once(name, id),
           usernames' = [usernames EXCEPT ![name] = [id |-> id, due |-> FALSE]],
           UNCHANGED <<world, apiUsers, outdated, resolvedIRCNames, semaphores>>
    PROVE  IInv'
<1>1. thread' \in [Threads -> Thread] /\ RequestsInv'
  BY SetOK DEF world
<1>2. [id |-> id, due |-> FALSE] \in Mapping
  BY DEF Mapping
<1>3. TypeOK'
  BY <1>1, <1>2 DEF IInv, TypeOK, world
<1>4. \A n \in Names : usernames'[n] # Null => usernames'[n].id \in known[n] \cup {NoUser}
  <2> TAKE n \in Names
  <2>1. CASE n = name
    BY <2>1 DEF IInv, TypeOK, Once
  <2>2. CASE n # name
    BY <2>2 DEF IInv, TypeOK, OnceTrue
  <2> QED BY <2>1, <2>2
<1>5. OnceTrue'
  BY <1>4 DEF IInv, OnceTrue, world
<1>6. HistoryInv' /\ RecordsInv'
  BY DEF IInv, HistoryInv, RecordsInv, world
<1> QED BY <1>1, <1>3, <1>5, <1>6 DEF IInv

\* The cache of one name is emptied or filled with an id that belongs to it.
LEMMA CacheStep ==
    ASSUME IInv, NEW t \in Threads, NEW r \in Thread, RequestInv(r), Set(t, r),
           resolvedIRCNames' \in [Names -> Users \cup {Null}],
           \A n \in Names : resolvedIRCNames'[n] \in {resolvedIRCNames[n], Null} \cup known[n],
           UNCHANGED <<world, tables>>,
           semaphores' \in [Names -> Threads \cup {Null}]
    PROVE  IInv'
<1>1. thread' \in [Threads -> Thread] /\ RequestsInv'
  BY SetOK DEF world
<1>2. TypeOK'
  BY <1>1 DEF IInv, TypeOK, world, tables
<1>3. OnceTrue' /\ HistoryInv' /\ RecordsInv'
  BY DEF IInv, OnceTrue, HistoryInv, RecordsInv, world, tables
<1> QED BY <1>1, <1>2, <1>3 DEF IInv

-----------------------------------------------------------------------------
(* Steps that begin, resolve and map.                                      *)

\* What every step uses of the request that takes it.
LEMMA RequestFacts ==
    ASSUME IInv, NEW t \in Threads
    PROVE  thread[t] \in Thread /\ RequestInv(thread[t])
BY DEF IInv, TypeOK, RequestsInv

LEMMA RequestsStep == ASSUME IInv, Requests PROVE IInv'
<1> SUFFICES ASSUME NEW t \in Threads,
                    \/ \E nick \in Names :
                         Message(t, nick) \/ RegisterActivity(t, nick) \/ WelcomeIfDonator(t, nick)
                    \/ \E nick \in Names \cup {Null}, id \in Users : ResolveManually(t, nick, id)
             PROVE  IInv'
  BY DEF Requests
<1>0. semaphores \in [Names -> Threads \cup {Null}]
  BY DEF IInv, TypeOK
<1>1. ASSUME NEW nick \in Names, Message(t, nick)
      PROVE  IInv'
  BY <1>0, <1>1, ResolveOK, QuietStep DEF Message
<1>2. ASSUME NEW nick \in Names, RegisterActivity(t, nick)
      PROVE  IInv'
  BY <1>0, <1>2, ResolveOK, QuietStep DEF RegisterActivity
<1>3. ASSUME NEW nick \in Names, WelcomeIfDonator(t, nick)
      PROVE  IInv'
  BY <1>0, <1>3, ResolveOK, QuietStep DEF WelcomeIfDonator
<1>4. ASSUME NEW nick \in Names \cup {Null}, NEW id \in Users, ResolveManually(t, nick, id)
      PROVE  IInv'
  <2> DEFINE r == [Idle EXCEPT !.pc = "getUser", !.task = "manual", !.nick = nick, !.id = id]
  <2>1. r \in Thread
    BY DEF Idle, Thread, Checking, Ids
  <2>2. RequestInv(r)
    BY DEF RequestInv, Idle, Resolving, Checking
  <2> HIDE DEF r
  <2> QED BY <1>0, <1>4, <2>1, <2>2, QuietStep DEF ResolveManually, r
<1> QED BY <1>1, <1>2, <1>3, <1>4

LEMMA GetIfPresentStep ==
    ASSUME IInv, NEW t \in Threads, GetIfPresent(t) PROVE IInv'
<1> DEFINE name == thread[t].name
<1>1. /\ thread[t] \in Thread /\ RequestInv(thread[t])
      /\ thread[t].pc = "acquire" /\ UNCHANGED <<world, tables, resolvedIRCNames>>
  BY RequestFacts DEF GetIfPresent, At
<1>2. name \in Names /\ thread[t].nick = name /\ thread[t].task # "manual"
  BY <1>1 DEF RequestInv
<1>3. CASE resolvedIRCNames[name] = Null
  <2> DEFINE r == [thread[t] EXCEPT !.pc = "find"]
  <2>1. r \in Thread
    BY <1>1 DEF Thread, Resolving
  <2>2. RequestInv(r)
    BY <1>1, <1>2 DEF RequestInv, Thread, Resolving, Checking
  <2>3. Set(t, r) /\ semaphores' = [semaphores EXCEPT ![name] = t]
    BY <1>3 DEF GetIfPresent, Goto
  <2>4. semaphores' \in [Names -> Threads \cup {Null}]
    BY <1>2, <2>3 DEF IInv, TypeOK
  <2> HIDE DEF r
  <2> QED BY <1>1, <2>1, <2>2, <2>3, <2>4, QuietStep
<1>4. CASE resolvedIRCNames[name] # Null
  <2>1. resolvedIRCNames[name] \in Ids
    BY <1>2, <1>4 DEF IInv, TypeOK, Ids
  <2>2. Set(t, Resolved(t, resolvedIRCNames[name])) /\ UNCHANGED semaphores
    BY <1>4 DEF GetIfPresent
  <2>3. semaphores' \in [Names -> Threads \cup {Null}]
    BY <2>2 DEF IInv, TypeOK
  <2> QED BY <1>1, <1>2, <2>1, <2>2, <2>3, ResolvedOK, QuietStep
<1> QED BY <1>3, <1>4

LEMMA FindStep ==
    ASSUME IInv, NEW t \in Threads, FindByUserName(t) PROVE IInv'
<1> DEFINE mapping == usernames[thread[t].name]
           r == [thread[t] EXCEPT !.pc = IF Unknown(mapping) THEN "download" ELSE "return",
                                  !.id = IF mapping = Null THEN NoUser ELSE mapping.id]
<1>1. /\ thread[t] \in Thread /\ RequestInv(thread[t])
      /\ thread[t].pc = "find" /\ Set(t, r)
      /\ UNCHANGED <<world, tables, resolvedIRCNames, semaphores>>
  BY RequestFacts DEF FindByUserName, At
<1>2. thread[t].name \in Names /\ thread[t].nick = thread[t].name /\ thread[t].task # "manual"
  BY <1>1 DEF RequestInv, Resolving
<1>3. mapping # Null => mapping.id \in Ids /\ mapping.id \in known[thread[t].name] \cup {NoUser}
  BY <1>2 DEF IInv, TypeOK, OnceTrue, Mapping
<1>4. r.id \in Ids /\ Once(thread[t].name, r.id)
  <2>1. r.id = IF mapping = Null THEN NoUser ELSE mapping.id
    BY <1>1 DEF Thread
  <2> HIDE DEF r, mapping
  <2>2. NoUser \in Ids /\ (mapping # Null => Once(thread[t].name, mapping.id))
        /\ Once(thread[t].name, NoUser)
    BY <1>3 DEF Once, Ids
  <2> QED BY <2>1, <2>2, <1>3
<1>5. r \in Thread
  <2> DEFINE pc == IF Unknown(mapping) THEN "download" ELSE "return"
             id == IF mapping = Null THEN NoUser ELSE mapping.id
  <2>1. pc \in Resolving /\ id \in Ids
    BY <1>3 DEF Resolving, Ids
  <2> HIDE DEF pc, id
  <2>2. [thread[t] EXCEPT !.pc = pc, !.id = id] \in Thread
    BY <1>1, <2>1 DEF Thread
  <2> QED BY <2>2 DEF pc, id
<1>6. r.pc \in {"download", "return"} /\ r.task = thread[t].task /\ r.nick = thread[t].nick
      /\ r.name = thread[t].name /\ r.user = thread[t].user
  BY <1>1 DEF Thread
<1> HIDE DEF r
<1>7. RequestInv(r)
  BY <1>1, <1>2, <1>4, <1>6 DEF RequestInv, Resolving, Checking
<1>8. semaphores' \in [Names -> Threads \cup {Null}]
  BY <1>1 DEF IInv, TypeOK
<1> QED BY <1>1, <1>5, <1>7, <1>8, QuietStep

\* Whoever osu! finds has the name now.
LEMMA FoundOK ==
    ASSUME IInv, NEW name \in Names
    PROVE  /\ Found(name) \in Ids
           /\ Found(name) \in known[name] \cup {NoUser}
           /\ Found(name) # NoUser => Found(name) \in Users
                                     /\ Found(name) \in known[name] \cap lately[name]
<1>1. bearer[name] \in Ids /\ lately[name] \subseteq known[name]
      /\ (bearer[name] \in Users => bearer[name] \in lately[name])
  BY DEF IInv, TypeOK, HistoryInv
<1> QED BY <1>1 DEF Found, Ids

LEMMA DownloadStep ==
    ASSUME IInv, NEW t \in Threads, DownloadUser(t) PROVE IInv'
<1> DEFINE name == thread[t].name
           id == Found(name)
<1>1. /\ thread[t] \in Thread /\ RequestInv(thread[t])
      /\ thread[t].pc = "download"
      /\ UNCHANGED <<world, tables, resolvedIRCNames, semaphores>>
  BY RequestFacts DEF DownloadUser, At
<1>2. name \in Names /\ thread[t].nick = name /\ thread[t].task # "manual"
  BY <1>1 DEF RequestInv, Resolving
<1>3. semaphores' \in [Names -> Threads \cup {Null}]
  BY <1>1 DEF IInv, TypeOK
<1>4. CASE id = NoUser
  <2> DEFINE r == [thread[t] EXCEPT !.pc = "replace", !.id = NoUser]
  <2>1. r \in Thread
    BY <1>1 DEF Thread, Resolving, Ids
  <2>2. /\ r.pc = "replace" /\ r.id = NoUser /\ r.task = thread[t].task
        /\ r.nick = thread[t].nick /\ r.name = name /\ r.user = thread[t].user
    BY <1>1 DEF Thread
  <2>3. Set(t, r)
    BY <1>4 DEF DownloadUser
  <2> HIDE DEF r
  <2>4. RequestInv(r)
    BY <1>1, <1>2, <2>2 DEF RequestInv, Resolving, Checking, Once, Ids
  <2> QED BY <1>1, <1>3, <2>1, <2>3, <2>4, QuietStep
<1>5. CASE id # NoUser
  <2> DEFINE user == [id |-> id, name |-> name]
             r == [thread[t] EXCEPT !.pc = "persist", !.id = id, !.user = user]
  <2>0. id \in Users /\ id \in known[name] \cap lately[name]
    BY <1>2, <1>5, FoundOK
  <2>1. user \in ApiUser /\ user # Null
    BY <1>2, <2>0, NullsAssumption DEF ApiUser
  <2>2. r \in Thread
    BY <1>1, <2>0, <2>1 DEF Thread, Resolving, Ids
  <2>3. /\ r.pc = "persist" /\ r.id = id /\ r.task = thread[t].task
        /\ r.nick = thread[t].nick /\ r.name = name /\ r.user = user
    BY <1>1 DEF Thread
  <2>4. Set(t, r)
    BY <1>5 DEF DownloadUser
  <2> HIDE DEF r
  <2>5. RequestInv(r)
    BY <1>2, <2>0, <2>1, <2>3 DEF RequestInv, Resolving, Checking
  <2> QED BY <1>1, <1>3, <2>2, <2>4, <2>5, QuietStep
<1> QED BY <1>4, <1>5

LEMMA TimeoutStep ==
    ASSUME IInv, NEW t \in Threads, DownloadTimeout(t) PROVE IInv'
<1> DEFINE r == [thread[t] EXCEPT !.pc = "return"]
<1>1. /\ thread[t] \in Thread /\ RequestInv(thread[t])
      /\ thread[t].pc = "download" /\ Set(t, r)
      /\ UNCHANGED <<world, tables, resolvedIRCNames, semaphores>>
  BY RequestFacts DEF DownloadTimeout, At, Goto
<1>2. r \in Thread
  BY <1>1 DEF Thread, Resolving
<1>3. /\ r.pc = "return" /\ r.id = thread[t].id /\ r.task = thread[t].task
      /\ r.nick = thread[t].nick /\ r.name = thread[t].name /\ r.user = thread[t].user
  BY <1>1 DEF Thread
<1> HIDE DEF r
<1>4. RequestInv(r)
  BY <1>1, <1>3 DEF RequestInv, Resolving, Checking, Once
<1>5. semaphores' \in [Names -> Threads \cup {Null}]
  BY <1>1 DEF IInv, TypeOK
<1> QED BY <1>1, <1>2, <1>4, <1>5, QuietStep

LEMMA ReplaceStep ==
    ASSUME IInv, NEW t \in Threads, ReplaceMapping(t) PROVE IInv'
<1> DEFINE r == [thread[t] EXCEPT !.pc = "return"]
<1>1. /\ thread[t] \in Thread /\ RequestInv(thread[t])
      /\ thread[t].pc = "replace" /\ Set(t, r)
  BY RequestFacts DEF ReplaceMapping, At, Goto
<1>2. r \in Thread
  BY <1>1 DEF Thread, Resolving
<1>3. /\ r.pc = "return" /\ r.id = thread[t].id /\ r.task = thread[t].task
      /\ r.nick = thread[t].nick /\ r.name = thread[t].name /\ r.user = thread[t].user
  BY <1>1 DEF Thread
<1> HIDE DEF r
<1>4. RequestInv(r)
  BY <1>1, <1>3 DEF RequestInv, Resolving, Checking, Once
<1>5. thread[t].name \in Names /\ thread[t].id \in Ids /\ Once(thread[t].name, thread[t].id)
  BY <1>1 DEF RequestInv, Resolving
<1> QED BY <1>1, <1>2, <1>4, <1>5, MappingStep DEF ReplaceMapping

LEMMA ReturnStep ==
    ASSUME IInv, NEW t \in Threads, Return(t) PROVE IInv'
<1> DEFINE id == thread[t].id
           name == thread[t].name
<1>1. /\ thread[t] \in Thread /\ RequestInv(thread[t])
      /\ thread[t].pc = "return" /\ Set(t, Resolved(t, id))
      /\ semaphores' = Freed(t) /\ UNCHANGED <<world, tables>>
  BY RequestFacts DEF Return, At
<1>2. name \in Names /\ thread[t].nick = name /\ id \in Ids /\ Once(name, id)
  BY <1>1 DEF RequestInv, Resolving
<1>3. semaphores' \in [Names -> Threads \cup {Null}]
  BY <1>1, FreedOK DEF IInv
<1>4. CASE id = NoUser
  <2>1. resolvedIRCNames' = resolvedIRCNames
    BY <1>4 DEF Return, Cacheable
  <2> QED BY <1>1, <1>2, <1>3, <2>1, ResolvedOK, QuietStep
<1>5. CASE id # NoUser
  <2>1. resolvedIRCNames' = [resolvedIRCNames EXCEPT ![name] = id]
    BY <1>5 DEF Return, Cacheable
  <2>2. id \in Users /\ id \in known[name]
    BY <1>2, <1>5 DEF Ids, Once
  <2>3. /\ resolvedIRCNames' \in [Names -> Users \cup {Null}]
        /\ \A n \in Names : resolvedIRCNames'[n] \in {resolvedIRCNames[n], Null} \cup known[n]
    BY <1>2, <2>1, <2>2 DEF IInv, TypeOK
  <2> QED BY <1>1, <1>2, <1>3, <2>3, ResolvedOK, CacheStep
<1> QED BY <1>4, <1>5

-----------------------------------------------------------------------------
(* Steps that compare the user with the nick and map.                      *)

LEMMA GetUserStep ==
    ASSUME IInv, NEW t \in Threads, GetUser(t) PROVE IInv'
<1> DEFINE id == thread[t].id
<1>1. /\ thread[t] \in Thread /\ RequestInv(thread[t])
      /\ thread[t].pc = "getUser" /\ id \in Users
      /\ UNCHANGED <<world, tables, resolvedIRCNames, semaphores>>
  BY RequestFacts DEF GetUser, At, RequestInv
<1>2. semaphores' \in [Names -> Threads \cup {Null}]
  BY <1>1 DEF IInv, TypeOK
<1>3. CASE Content(thread[t].task, id) /\ thread[t].task # "welcome"
  <2>0. thread[t].task = "message" /\ apiUsers[id] # Null /\ id \notin outdated
    BY <1>3 DEF Content
  <2>1. apiUsers[id] \in ApiUser /\ apiUsers[id].id = id
    BY <1>1, <2>0 DEF IInv, TypeOK, OnceTrue
  <2>2. id \in known[apiUsers[id].name] \cap lately[apiUsers[id].name]
    BY <1>1, <2>0 DEF IInv, OnceTrue, RecordsInv
  <2>3. thread[t].nick \in Names
    BY <1>1, <2>0 DEF RequestInv, Checking
  <2>4. Set(t, Loaded(t, apiUsers[id]))
    BY <1>3 DEF GetUser
  <2>5. Loaded(t, apiUsers[id]) \in Thread /\ RequestInv(Loaded(t, apiUsers[id]))
    BY <1>1, <2>1, <2>2, <2>3, LoadedOK
  <2> QED BY <1>1, <1>2, <2>4, <2>5, QuietStep
<1>5. CASE Content(thread[t].task, id) /\ thread[t].task = "welcome"
  <2>1. Set(t, Then(t))
    BY <1>5 DEF GetUser, Loaded
  <2> QED BY <1>1, <1>2, <2>1, ThenOK, QuietStep
<1>4. CASE ~Content(thread[t].task, id)
  <2> DEFINE r == [thread[t] EXCEPT !.pc = "downloadId"]
  <2>1. r \in Thread
    BY <1>1 DEF Thread, Checking
  <2>2. /\ r.pc = "downloadId" /\ r.id = thread[t].id /\ r.task = thread[t].task
        /\ r.nick = thread[t].nick /\ r.name = thread[t].name /\ r.user = thread[t].user
    BY <1>1 DEF Thread
  <2>3. Set(t, r)
    BY <1>4 DEF GetUser
  <2> HIDE DEF r
  <2>4. RequestInv(r)
    BY <1>1, <2>2 DEF RequestInv, Resolving, Checking
  <2> QED BY <1>1, <1>2, <2>1, <2>3, <2>4, QuietStep
<1> QED BY <1>3, <1>4, <1>5

LEMMA DownloadIdStep ==
    ASSUME IInv, NEW t \in Threads, DownloadId(t) PROVE IInv'
<1> DEFINE id == thread[t].id
<1>1. /\ thread[t] \in Thread /\ RequestInv(thread[t])
      /\ thread[t].pc = "downloadId" /\ id \in Users
      /\ UNCHANGED <<world, tables, resolvedIRCNames, semaphores>>
  BY RequestFacts DEF DownloadId, At, RequestInv
<1>2. semaphores' \in [Names -> Threads \cup {Null}]
  BY <1>1 DEF IInv, TypeOK
<1>3. CASE Set(t, Then(t))
  BY <1>1, <1>2, <1>3, ThenOK, QuietStep
<1>4. ASSUME NEW n \in Named(id),
             Set(t, [thread[t] EXCEPT !.pc = "persistId", !.user = [id |-> id, name |-> n]])
      PROVE  IInv'
  <2> DEFINE user == [id |-> id, name |-> n]
             r == [thread[t] EXCEPT !.pc = "persistId", !.user = user]
  <2>1. n \in Names /\ id \in known[n] \cap lately[n]
    BY <1>1, <1>4 DEF Named, IInv, TypeOK, HistoryInv
  <2>2. user \in ApiUser /\ user # Null
    BY <1>1, <2>1, NullsAssumption DEF ApiUser
  <2>3. r \in Thread
    BY <1>1, <2>2 DEF Thread, Checking
  <2>4. /\ r.pc = "persistId" /\ r.id = id /\ r.task = thread[t].task
        /\ r.nick = thread[t].nick /\ r.name = thread[t].name /\ r.user = user
    BY <1>1 DEF Thread
  <2>5. Set(t, r)
    BY <1>4
  <2> HIDE DEF r
  <2>6. RequestInv(r)
    BY <1>1, <2>1, <2>2, <2>4 DEF RequestInv, Resolving, Checking
  <2> QED BY <1>1, <1>2, <2>3, <2>5, <2>6, QuietStep
<1> QED BY <1>3, <1>4 DEF DownloadId

LEMMA PersistedOK ==
    ASSUME IInv, NEW t \in Threads,
           thread[t].pc \in {"persist", "persistId", "persistNick"}
    PROVE  Persisted(t) \in Thread /\ RequestInv(Persisted(t))
<1> DEFINE user == thread[t].user
<1>1. /\ thread[t] \in Thread /\ RequestInv(thread[t]) /\ user \in ApiUser
      /\ user.id \in known[user.name] \cap lately[user.name]
  BY RequestFacts DEF RequestInv, Thread
<1>2. CASE thread[t].pc = "persist"
  <2> DEFINE r == [thread[t] EXCEPT !.pc = "replace"]
  <2>1. r \in Thread
    BY <1>1 DEF Thread, Resolving
  <2>2. /\ r.pc = "replace" /\ r.id = thread[t].id /\ r.task = thread[t].task
        /\ r.nick = thread[t].nick /\ r.name = thread[t].name /\ r.user = user
    BY <1>1 DEF Thread
  <2>3. Persisted(t) = r
    BY <1>2 DEF Persisted, At
  <2>4. r.id \in Ids /\ Once(r.name, r.id)
    BY <1>1, <1>2, <2>2 DEF RequestInv, Once, ApiUser, Ids
  <2> HIDE DEF r
  <2> QED BY <1>1, <1>2, <2>1, <2>2, <2>3, <2>4 DEF RequestInv, Resolving, Checking
<1>3. CASE thread[t].pc = "persistNick"
  <2> DEFINE r == [thread[t] EXCEPT !.pc = "map"]
  <2>1. r \in Thread
    BY <1>1 DEF Thread, Checking
  <2>2. /\ r.pc = "map" /\ r.id = thread[t].id /\ r.task = thread[t].task
        /\ r.nick = thread[t].nick /\ r.name = thread[t].name /\ r.user = user
    BY <1>1 DEF Thread
  <2>3. Persisted(t) = r
    BY <1>3 DEF Persisted, At
  <2>4. r.name \in Names /\ r.id \in Ids /\ Once(r.name, r.id)
    BY <1>1, <1>3, <2>2 DEF RequestInv, Once, ApiUser, Ids
  <2> HIDE DEF r
  <2> QED BY <1>1, <1>3, <2>1, <2>2, <2>3, <2>4 DEF RequestInv, Resolving, Checking
<1>4. CASE thread[t].pc = "persistId"
  <2>1. Persisted(t) = Loaded(t, user)
    BY <1>4 DEF Persisted, At
  <2>2. thread[t].task = "message" => thread[t].nick \in Names
    BY <1>1, <1>4 DEF RequestInv, Checking
  <2> QED BY <1>1, <2>1, <2>2, LoadedOK
<1> QED BY <1>2, <1>3, <1>4

LEMMA PersistStep ==
    ASSUME IInv, NEW t \in Threads, PersistUser(t) PROVE IInv'
<1> DEFINE user == thread[t].user
           u == user.id
<1>1. /\ thread[t] \in Thread /\ RequestInv(thread[t]) /\ user \in ApiUser
      /\ u \in known[user.name] \cap lately[user.name]
  BY RequestFacts DEF PersistUser, RequestInv, Thread
<1>2. /\ apiUsers' = [apiUsers EXCEPT ![u] = user] /\ outdated' = outdated \ {u}
      /\ Set(t, Persisted(t))
      /\ UNCHANGED <<world, usernames, resolvedIRCNames, semaphores>>
  BY DEF PersistUser
<1>3. Persisted(t) \in Thread /\ RequestInv(Persisted(t))
  BY PersistedOK DEF PersistUser
<1>4. thread' \in [Threads -> Thread] /\ RequestsInv'
  BY <1>2, <1>3, SetOK DEF world
<1>5. u \in Users /\ user.name \in Names
  BY <1>1 DEF ApiUser
<1>6. TypeOK'
  BY <1>1, <1>2, <1>4, <1>5 DEF IInv, TypeOK, world
<1>7. apiUsers'[u] = user /\ \A v \in Users \ {u} : apiUsers'[v] = apiUsers[v]
  BY <1>2, <1>5 DEF IInv, TypeOK
<1>8. OnceTrue'
  BY <1>1, <1>2, <1>7 DEF IInv, OnceTrue, world
<1>9. RecordsInv'
  BY <1>1, <1>2, <1>7 DEF IInv, RecordsInv, world
<1>10. HistoryInv'
  BY <1>2 DEF IInv, HistoryInv, world
<1> QED BY <1>4, <1>6, <1>8, <1>9, <1>10 DEF IInv

LEMMA MapStep ==
    ASSUME IInv, NEW t \in Threads, MapName(t) PROVE IInv'
<1> DEFINE r == [thread[t] EXCEPT !.pc = "invalidate"]
<1>1. /\ thread[t] \in Thread /\ RequestInv(thread[t])
      /\ thread[t].pc = "map" /\ Set(t, r)
  BY RequestFacts DEF MapName, At, Goto
<1>2. r \in Thread
  BY <1>1 DEF Thread, Checking
<1>3. /\ r.pc = "invalidate" /\ r.id = thread[t].id /\ r.task = thread[t].task
      /\ r.nick = thread[t].nick /\ r.name = thread[t].name /\ r.user = thread[t].user
  BY <1>1 DEF Thread
<1> HIDE DEF r
<1>4. RequestInv(r)
  BY <1>1, <1>3 DEF RequestInv, Resolving, Checking, Once
<1>5. thread[t].name \in Names /\ thread[t].id \in Ids /\ Once(thread[t].name, thread[t].id)
  BY <1>1 DEF RequestInv
<1> QED BY <1>1, <1>2, <1>4, <1>5, MappingStep DEF MapName

LEMMA MappedOK ==
    ASSUME IInv, NEW t \in Threads, thread[t].pc = "invalidate"
    PROVE  Mapped(t) \in Thread /\ RequestInv(Mapped(t))
<1>1. thread[t] \in Thread /\ RequestInv(thread[t])
  BY RequestFacts
<1>2. CASE Mapped(t) = Then(t)
  BY <1>1, <1>2, ThenOK
<1>3. CASE thread[t].task = "message" /\ thread[t].name # thread[t].nick
  <2> DEFINE r == [thread[t] EXCEPT !.pc = "redownload", !.name = thread[t].nick, !.user = Null]
  <2>1. r \in Thread
    BY <1>1 DEF Thread, Checking
  <2>2. /\ r.pc = "redownload" /\ r.task = "message"
        /\ r.nick = thread[t].nick /\ r.name = thread[t].nick /\ r.user = Null
    BY <1>1, <1>3 DEF Thread
  <2>3. Mapped(t) = r
    BY <1>3 DEF Mapped
  <2> HIDE DEF r
  <2> QED BY <1>1, <1>3, <2>1, <2>2, <2>3 DEF RequestInv, Resolving, Checking
<1>4. CASE thread[t].task # "manual" /\ thread[t].name = thread[t].nick /\ thread[t].user # Null
  <2> DEFINE r == [thread[t] EXCEPT !.pc = "handled"]
  <2>1. r \in Thread
    BY <1>1 DEF Thread, Checking
  <2>2. thread[t].task = "message"
    BY <1>1, <1>4 DEF RequestInv, Checking, Thread
  <2>3. /\ r.pc = "handled" /\ r.task = "message"
        /\ r.nick = thread[t].nick /\ r.user = thread[t].user
    BY <1>1, <2>2 DEF Thread
  <2>4. Mapped(t) = r
    BY <1>4, <2>2 DEF Mapped
  <2> HIDE DEF r
  <2> QED BY <1>1, <1>4, <2>1, <2>2, <2>3, <2>4 DEF RequestInv, Resolving, Checking
<1>5. thread[t].task \notin {"activity", "welcome"}
  BY <1>1 DEF RequestInv, Checking
<1>6. thread[t].task \in {"message", "manual"}
  BY <1>1, <1>5 DEF Thread
<1> QED BY <1>2, <1>3, <1>4, <1>6 DEF Mapped

LEMMA InvalidateStep ==
    ASSUME IInv, NEW t \in Threads, Invalidate(t) PROVE IInv'
<1>1. /\ thread[t].pc = "invalidate" /\ Set(t, Mapped(t))
      /\ resolvedIRCNames' = [resolvedIRCNames EXCEPT ![thread[t].name] = Null]
      /\ UNCHANGED <<world, tables, semaphores>>
  BY DEF Invalidate, At, Invalidated
<1>2. /\ resolvedIRCNames' \in [Names -> Users \cup {Null}]
      /\ \A n \in Names : resolvedIRCNames'[n] \in {resolvedIRCNames[n], Null} \cup known[n]
      /\ semaphores' \in [Names -> Threads \cup {Null}]
  BY <1>1 DEF IInv, TypeOK
<1> QED BY <1>1, <1>2, MappedOK, CacheStep

LEMMA RedownloadStep ==
    ASSUME IInv, NEW t \in Threads, RedownloadUser(t) PROVE IInv'
<1> DEFINE nick == thread[t].nick
           id == Found(nick)
<1>1. /\ thread[t] \in Thread /\ RequestInv(thread[t])
      /\ thread[t].pc = "redownload"
      /\ UNCHANGED <<world, tables, resolvedIRCNames, semaphores>>
  BY RequestFacts DEF RedownloadUser, At
<1>2. nick \in Names /\ thread[t].name = nick /\ thread[t].task = "message"
  BY <1>1 DEF RequestInv, Checking
<1>3. semaphores' \in [Names -> Threads \cup {Null}]
  BY <1>1 DEF IInv, TypeOK
<1>4. CASE id = NoUser
  <2> DEFINE r == [thread[t] EXCEPT !.pc = "map", !.id = NoUser, !.user = Null]
  <2>1. r \in Thread
    BY <1>1 DEF Thread, Checking, Ids
  <2>2. /\ r.pc = "map" /\ r.id = NoUser /\ r.task = "message"
        /\ r.nick = nick /\ r.name = nick /\ r.user = Null
    BY <1>1, <1>2 DEF Thread
  <2>3. Set(t, r)
    BY <1>4 DEF RedownloadUser
  <2> HIDE DEF r
  <2>4. RequestInv(r)
    BY <1>2, <2>2 DEF RequestInv, Resolving, Checking, Once, Ids
  <2> QED BY <1>1, <1>3, <2>1, <2>3, <2>4, QuietStep
<1>5. CASE id # NoUser
  <2> DEFINE user == [id |-> id, name |-> nick]
             r == [thread[t] EXCEPT !.pc = "persistNick", !.id = id, !.user = user]
  <2>0. id \in Users /\ id \in known[nick] \cap lately[nick]
    BY <1>2, <1>5, FoundOK
  <2>1. user \in ApiUser /\ user # Null
    BY <1>2, <2>0, NullsAssumption DEF ApiUser
  <2>2. r \in Thread
    BY <1>1, <2>0, <2>1 DEF Thread, Checking, Ids
  <2>3. /\ r.pc = "persistNick" /\ r.id = id /\ r.task = "message"
        /\ r.nick = nick /\ r.name = nick /\ r.user = user
    BY <1>1, <1>2 DEF Thread
  <2>4. Set(t, r)
    BY <1>5 DEF RedownloadUser
  <2> HIDE DEF r
  <2>5. RequestInv(r)
    BY <1>2, <2>0, <2>1, <2>3 DEF RequestInv, Resolving, Checking
  <2> QED BY <1>1, <1>3, <2>2, <2>4, <2>5, QuietStep
<1> QED BY <1>4, <1>5

LEMMA HandleStep ==
    ASSUME IInv, NEW t \in Threads, Handle(t) PROVE IInv'
<1>1. semaphores' \in [Names -> Threads \cup {Null}]
  BY DEF Handle, IInv, TypeOK
<1> QED BY <1>1, RequestFacts, ThenOK, QuietStep DEF Handle

LEMMA FailStep ==
    ASSUME IInv, NEW t \in Threads, Fail(t) PROVE IInv'
<1>1. semaphores' \in [Names -> Threads \cup {Null}]
  BY FreedOK DEF Fail, IInv
<1> QED BY <1>1, RequestFacts, ThenOK, QuietStep DEF Fail

-----------------------------------------------------------------------------
(* What happens by itself.                                                 *)

\* The history only grows, and the requests go on as they were.
LEMMA RequestsKept ==
    ASSUME IInv, UNCHANGED thread,
           \A n \in Names : known[n] \subseteq known'[n] /\ lately[n] \subseteq lately'[n]
    PROVE  RequestsInv'
<1> SUFFICES ASSUME NEW t \in Threads PROVE RequestInv(thread[t])'
  BY DEF RequestsInv
<1>1. thread[t] \in Thread /\ RequestInv(thread[t]) /\ thread'[t] = thread[t]
  BY RequestFacts
<1> DEFINE r == thread[t]
<1>2. \A name \in Names, id \in Ids : Once(name, id) => Once(name, id)'
  BY DEF Once
<1>3. r.user # Null => r.user.name \in Names /\ r.user.id \in Users
  BY <1>1 DEF Thread, ApiUser
<1>4. r.user # Null => r.user.id \in known'[r.user.name] \cap lately'[r.user.name]
  BY <1>1, <1>3 DEF RequestInv
<1> QED BY <1>1, <1>2, <1>4 DEF RequestInv, Resolving

LEMMA RenameStep ==
    ASSUME IInv, NEW u \in Users, NEW name \in Names, Rename(u, name) PROVE IInv'
<1>1. /\ bearer' = [n \in Names |-> IF n = name THEN u
                                    ELSE IF bearer[n] = u THEN NoUser ELSE bearer[n]]
      /\ known' = [known EXCEPT ![name] = @ \cup {u}]
      /\ lately' = [lately EXCEPT ![name] = @ \cup {u}]
      /\ UNCHANGED <<tables, resolvedIRCNames, semaphores, thread>>
  BY DEF Rename
<1>2. /\ \A n \in Names : known[n] \subseteq known'[n] /\ lately[n] \subseteq lately'[n]
      /\ u \in known'[name] /\ u \in lately'[name]
      /\ \A n \in Names : lately'[n] \subseteq known'[n]
  BY <1>1 DEF IInv, TypeOK, HistoryInv
<1>3. TypeOK'
  BY <1>1 DEF IInv, TypeOK, tables, Ids
<1>4. HistoryInv'
  BY <1>1, <1>2, NamesAssumption DEF IInv, TypeOK, HistoryInv
<1>5. \A v \in Users : apiUsers[v] # Null => apiUsers[v].name \in Names
  BY DEF IInv, TypeOK, ApiUser
<1>6. OnceTrue'
  BY <1>1, <1>2, <1>5 DEF IInv, OnceTrue, tables
<1>7. RecordsInv'
  BY <1>1, <1>2, <1>5 DEF IInv, RecordsInv, tables
<1>8. RequestsInv'
  BY <1>1, <1>2, RequestsKept
<1> QED BY <1>3, <1>4, <1>6, <1>7, <1>8 DEF IInv

LEMMA VanishStep == ASSUME IInv, NEW u \in Users, Vanish(u) PROVE IInv'
<1>1. /\ bearer' = [n \in Names |-> IF bearer[n] = u THEN NoUser ELSE bearer[n]]
      /\ UNCHANGED <<known, lately, tables, resolvedIRCNames, semaphores, thread>>
  BY DEF Vanish
<1>2. TypeOK'
  BY <1>1 DEF IInv, TypeOK, tables, Ids
<1>3. HistoryInv'
  BY <1>1, NamesAssumption DEF IInv, TypeOK, HistoryInv
<1>4. OnceTrue' /\ RecordsInv'
  BY <1>1 DEF IInv, OnceTrue, RecordsInv, tables
<1>5. RequestsInv'
  BY <1>1, RequestsKept
<1> QED BY <1>2, <1>3, <1>4, <1>5 DEF IInv

LEMMA AgeStep == ASSUME IInv, NEW n \in Names, Age(n) PROVE IInv'
<1>1. /\ usernames[n] # Null /\ usernames' = [usernames EXCEPT ![n].due = TRUE]
      /\ UNCHANGED <<world, apiUsers, outdated, resolvedIRCNames, semaphores, thread>>
  BY DEF Age
<1>2. usernames[n] \in Mapping
  BY <1>1 DEF IInv, TypeOK
<1>3. usernames'[n] \in Mapping /\ usernames'[n].id = usernames[n].id
  BY <1>1, <1>2 DEF IInv, TypeOK, Mapping
<1>4. \A m \in Names \ {n} : usernames'[m] = usernames[m]
  BY <1>1 DEF IInv, TypeOK
<1>5. usernames' \in [Names -> Mapping \cup {Null}]
  BY <1>1, <1>3, <1>4 DEF IInv, TypeOK
<1>6. TypeOK'
  BY <1>1, <1>5 DEF IInv, TypeOK, world
<1>7. OnceTrue'
  BY <1>1, <1>3, <1>4 DEF IInv, OnceTrue, world
<1>8. HistoryInv' /\ RecordsInv'
  BY <1>1 DEF IInv, HistoryInv, RecordsInv, world
<1>9. RequestsInv'
  BY <1>1, RequestsKept DEF world
<1> QED BY <1>6, <1>7, <1>8, <1>9 DEF IInv

LEMMA HourStep == ASSUME IInv, NEW u \in Users, Hour(u) PROVE IInv'
<1>1. /\ \A t \in Threads : thread[t].user # Null => thread[t].user.id # u
      /\ outdated' = outdated \cup ({u} \ {v \in Users : apiUsers[v] = Null})
      /\ lately' = [n \in Names |-> lately[n] \ ({u} \ {bearer[n]})]
      /\ UNCHANGED <<bearer, known, usernames, apiUsers, resolvedIRCNames, semaphores, thread>>
  BY DEF Hour
<1>2. \A n \in Names : lately'[n] = lately[n] \ ({u} \ {bearer[n]})
  BY <1>1
<1>3. TypeOK'
  BY <1>1 DEF IInv, TypeOK
<1>4. OnceTrue'
  BY <1>1 DEF IInv, OnceTrue
<1>5. HistoryInv'
  BY <1>1, <1>2 DEF IInv, HistoryInv
<1>6. \A v \in Users : apiUsers[v] # Null => apiUsers[v].name \in Names
  BY DEF IInv, TypeOK, ApiUser
<1>7. RecordsInv'
  BY <1>1, <1>2, <1>6 DEF IInv, RecordsInv
<1>8. RequestsInv'
  <2> SUFFICES ASSUME NEW t \in Threads PROVE RequestInv(thread[t])'
    BY DEF RequestsInv
  <2> DEFINE r == thread[t]
  <2>1. r \in Thread /\ RequestInv(r) /\ thread'[t] = r
    BY <1>1, RequestFacts
  <2>2. r.user # Null => r.user.name \in Names /\ r.user.id # u
    BY <1>1, <2>1 DEF Thread, ApiUser
  <2>3. r.user # Null => r.user.id \in known'[r.user.name] \cap lately'[r.user.name]
    BY <1>1, <1>2, <2>1, <2>2 DEF RequestInv
  <2> QED BY <1>1, <2>1, <2>3 DEF RequestInv, Once
<1> QED BY <1>3, <1>4, <1>5, <1>7, <1>8 DEF IInv

LEMMA EvictStep == ASSUME IInv, NEW n \in Names, Evict(n) PROVE IInv'
<1>1. /\ resolvedIRCNames' = [resolvedIRCNames EXCEPT ![n] = Null]
      /\ UNCHANGED <<world, tables, semaphores, thread>>
  BY DEF Evict
<1>2. TypeOK'
  BY <1>1 DEF IInv, TypeOK, world, tables
<1>3. OnceTrue' /\ HistoryInv' /\ RecordsInv'
  BY <1>1 DEF IInv, TypeOK, OnceTrue, HistoryInv, RecordsInv, world, tables
<1>4. RequestsInv'
  BY <1>1, RequestsKept DEF world
<1> QED BY <1>2, <1>3, <1>4 DEF IInv

LEMMA RestartStep == ASSUME IInv, Restart PROVE IInv'
<1>1. /\ thread' = [t \in Threads |-> Idle]
      /\ semaphores' = [n \in Names |-> Null]
      /\ resolvedIRCNames' = [n \in Names |-> Null]
      /\ UNCHANGED <<world, tables>>
  BY DEF Restart
<1>2. TypeOK'
  BY <1>1, IdleOK DEF IInv, TypeOK, world, tables
<1>3. OnceTrue' /\ HistoryInv' /\ RecordsInv'
  BY <1>1 DEF IInv, OnceTrue, HistoryInv, RecordsInv, world, tables
<1>4. RequestsInv'
  BY <1>1 DEF RequestsInv, RequestInv, Idle, Resolving, Checking
<1> QED BY <1>2, <1>3, <1>4 DEF IInv

-----------------------------------------------------------------------------
(* The invariant and what follows from it.                                 *)

LEMMA InitIInv == Init => IInv
<1> SUFFICES ASSUME Init PROVE IInv
  OBVIOUS
<1>1. bearer \in [Names -> Ids]
  BY DEF Init
<1>2. TypeOK
  BY <1>1, IdleOK DEF Init, TypeOK
<1>3. OnceTrue /\ HistoryInv /\ RecordsInv
  BY <1>1 DEF Init, OnceTrue, HistoryInv, RecordsInv
<1>4. RequestsInv
  BY IdleOK DEF Init, RequestsInv
<1> QED BY <1>2, <1>3, <1>4 DEF IInv

LEMMA NextIInv == IInv /\ [Next]_vars => IInv'
<1> SUFFICES ASSUME IInv, [Next]_vars PROVE IInv'
  OBVIOUS
<1>1. CASE Requests
  BY <1>1, RequestsStep
<1>2. CASE Trouble
  BY <1>2, TimeoutStep, FailStep, VanishStep, EvictStep, RestartStep DEF Trouble
<1>3. CASE Time
  BY <1>3, AgeStep, HourStep DEF Time
<1>4. CASE \E u \in Users, name \in Names : Rename(u, name)
  BY <1>4, RenameStep
<1>5. ASSUME NEW t \in Threads, Work(t) PROVE IInv'
  BY <1>5, GetIfPresentStep, FindStep, DownloadStep, ReplaceStep, ReturnStep, GetUserStep,
     DownloadIdStep, PersistStep, MapStep, InvalidateStep, RedownloadStep, HandleStep
  DEF Work
<1>6. CASE UNCHANGED vars
  BY <1>6 DEF vars, world, tables, IInv, TypeOK, OnceTrue, HistoryInv, RecordsInv,
              RequestsInv, RequestInv, Once
<1> QED BY <1>1, <1>2, <1>3, <1>4, <1>5, <1>6 DEF Next

LEMMA Invariant == Spec => []IInv
<1> QED BY InitIInv, NextIInv, PTL DEF Spec

(* The tables, the cache and the requests keep their types: in particular  *)
(* the cache never holds that a name is nobody's.                          *)
THEOREM NamesTypes == Spec => []TypeOK
<1>1. IInv => TypeOK
  BY DEF IInv
<1> QED BY <1>1, Invariant, PTL

(* Whatever fails and however requests overlap, neither the tables nor the *)
(* cache give a name to a user who never had it.                           *)
THEOREM StoredOnceTrue == Spec => []OnceTrue
<1>1. IInv => OnceTrue
  BY DEF IInv
<1> QED BY <1>1, Invariant, PTL

(* A message is handled as that of a user who has had its nick within the  *)
(* hour, for all numbers of names, users and requests.                     *)
THEOREM MessagesOfBearer == Spec => []HandledAsBearer
<1>1. IInv => HandledAsBearer
  <2> SUFFICES ASSUME IInv, NEW t \in Threads, thread[t].pc = "handled"
               PROVE  thread[t].user.id \in lately[thread[t].nick]
    BY DEF HandledAsBearer, At
  <2> QED BY RequestFacts DEF RequestInv
<1> QED BY <1>1, Invariant, PTL

-----------------------------------------------------------------------------
(* The semaphores.                                                         *)

\* A request with record r is past the cache with name n.
ResolvesName(r, n) == r.pc \in Resolving /\ r.name = n

\* Who holds a semaphore is resolving its name, and who is resolving a name
\* holds its semaphore.
SemaphoresInv ==
    \A n \in Names, t \in Threads : semaphores[n] = t <=> ResolvesName(thread[t], n)

\* Where a request goes when it is resolved, or after that, is not Resolving.
LEMMA LeavesThen ==
    ASSUME NEW t \in Threads
    PROVE  Then(t).pc \notin Resolving \cup {"map"}
BY DEF Then, Idle, Resolve, Resolving

LEMMA LeavesResolved ==
    ASSUME NEW t \in Threads, thread[t] \in Thread, NEW id
    PROVE  Resolved(t, id).pc \notin Resolving
<1>1. [thread[t] EXCEPT !.pc = "getUser", !.id = id, !.user = Null].pc = "getUser"
  BY DEF Thread
<1> QED BY <1>1, LeavesThen DEF Resolved, Resolving

LEMMA LeavesLoaded ==
    ASSUME NEW t \in Threads, thread[t] \in Thread, NEW user
    PROVE  Loaded(t, user).pc \notin Resolving
<1>1. MapOwn(t, user).pc = "map"
  BY DEF MapOwn, Thread
<1>2. [thread[t] EXCEPT !.pc = "handled", !.user = user].pc = "handled"
  BY DEF Thread
<1>3. Checked(t, user).pc \notin Resolving
  BY <1>1, <1>2 DEF Checked, Resolving
<1> QED BY <1>1, <1>3, LeavesThen DEF Loaded, Resolving

LEMMA LeavesMapped ==
    ASSUME NEW t \in Threads, thread[t] \in Thread
    PROVE  Mapped(t).pc \notin Resolving \cup {"map"}
<1>1. [thread[t] EXCEPT !.pc = "redownload", !.name = thread[t].nick, !.user = Null].pc
        = "redownload"
  BY DEF Thread
<1>2. [thread[t] EXCEPT !.pc = "handled"].pc = "handled"
  BY DEF Thread
<1>3. CASE thread[t].task = "manual"
  BY <1>3, LeavesThen DEF Mapped
<1>4. CASE thread[t].task = "message" /\ thread[t].name # thread[t].nick
  BY <1>1, <1>4 DEF Mapped, Resolving
<1>5. CASE ~(thread[t].task = "manual" \/ (thread[t].task = "message" /\ thread[t].name # thread[t].nick))
  BY <1>2, <1>5, LeavesThen DEF Mapped, Resolving
<1> QED BY <1>3, <1>4, <1>5

\* A step that neither takes nor gives up a semaphore.
LEMMA SemaphoresKept ==
    ASSUME TypeOK, SemaphoresInv, NEW t \in Threads, NEW r, Set(t, r),
           r.pc \in Resolving <=> thread[t].pc \in Resolving,
           r.pc \in Resolving => r.name = thread[t].name,
           semaphores' = semaphores
    PROVE  SemaphoresInv'
<1> SUFFICES ASSUME NEW n \in Names, NEW s \in Threads
             PROVE  semaphores[n] = s <=> ResolvesName(thread'[s], n)
  BY DEF SemaphoresInv, ResolvesName
<1>1. thread'[s] = IF s = t THEN r ELSE thread[s]
  BY DEF TypeOK, Set
<1> QED BY <1>1 DEF SemaphoresInv, ResolvesName

\* A request that frees its semaphore, whichever it was.
LEMMA SemaphoreFreed ==
    ASSUME TypeOK, SemaphoresInv, NEW t \in Threads, NEW r, Set(t, r),
           r.pc \notin Resolving, semaphores' = Freed(t)
    PROVE  SemaphoresInv'
<1> SUFFICES ASSUME NEW n \in Names, NEW s \in Threads
             PROVE  semaphores'[n] = s <=> ResolvesName(thread'[s], n)
  BY DEF SemaphoresInv, ResolvesName
<1>1. thread'[s] = IF s = t THEN r ELSE thread[s]
  BY DEF TypeOK, Set
<1>2. semaphores'[n] = IF semaphores[n] = t THEN Null ELSE semaphores[n]
  BY DEF Freed
<1>3. Null # s
  BY NamesAssumption
<1> QED BY <1>1, <1>2, <1>3 DEF SemaphoresInv, ResolvesName

\* How requests begin.
LEMMA LeavesRequests ==
    ASSUME Requests
    PROVE  \E t \in Threads : \E r :
             /\ Set(t, r) /\ r.pc \in {"acquire", "getUser"} /\ thread[t].pc = "idle"
             /\ UNCHANGED <<world, tables, resolvedIRCNames, semaphores>>
<1>1. PICK t \in Threads :
        \/ \E nick \in Names :
             Message(t, nick) \/ RegisterActivity(t, nick) \/ WelcomeIfDonator(t, nick)
        \/ \E nick \in Names \cup {Null}, id \in Users : ResolveManually(t, nick, id)
  BY DEF Requests
<1>2. PICK r : Set(t, r) /\ r.pc \in {"acquire", "getUser"}
  <2>1. \A task, nick : Resolve(task, nick).pc = "acquire"
    BY DEF Resolve, Idle
  <2>2. CASE \E nick \in Names :
               Message(t, nick) \/ RegisterActivity(t, nick) \/ WelcomeIfDonator(t, nick)
    BY <2>1, <2>2 DEF Message, RegisterActivity, WelcomeIfDonator
  <2>3. ASSUME NEW nick, NEW id, ResolveManually(t, nick, id)
        PROVE  \E r : Set(t, r) /\ r.pc \in {"acquire", "getUser"}
    <3> DEFINE r == [Idle EXCEPT !.pc = "getUser", !.task = "manual", !.nick = nick, !.id = id]
    <3>1. r.pc = "getUser"
      BY DEF Idle
    <3>2. Set(t, r)
      BY <2>3 DEF ResolveManually
    <3> QED BY <3>1, <3>2
  <2> QED BY <1>1, <2>2, <2>3
<1>3. UNCHANGED <<world, tables, resolvedIRCNames, semaphores>> /\ thread[t].pc = "idle"
  BY <1>1 DEF Message, RegisterActivity, WelcomeIfDonator, ResolveManually, At
<1> QED BY <1>2, <1>3

LEMMA SemaphoresRequests ==
    ASSUME IInv, SemaphoresInv, Requests
    PROVE  SemaphoresInv'
BY LeavesRequests, SemaphoresKept DEF IInv, Resolving

LEMMA SemaphoresGetIfPresent ==
    ASSUME IInv, SemaphoresInv, NEW t \in Threads, GetIfPresent(t)
    PROVE  SemaphoresInv'
<1> DEFINE name == thread[t].name
           cached == resolvedIRCNames[name]
<1>1. thread[t] \in Thread /\ thread[t].pc = "acquire" /\ semaphores[name] = Null
  BY RequestFacts DEF GetIfPresent, At
<1>2. CASE cached = Null
  <2> DEFINE r == [thread[t] EXCEPT !.pc = "find"]
  <2>1. r.pc = "find" /\ r.name = name
    BY <1>1 DEF Thread
  <2>2. Set(t, r) /\ semaphores' = [semaphores EXCEPT ![name] = t]
    BY <1>2 DEF GetIfPresent, Goto
  <2> HIDE DEF r, name
  <2> SUFFICES ASSUME NEW n \in Names, NEW s \in Threads
               PROVE  semaphores'[n] = s <=> ResolvesName(thread'[s], n)
    BY DEF SemaphoresInv, ResolvesName
  <2>3. thread'[s] = IF s = t THEN r ELSE thread[s]
    BY <2>2 DEF IInv, TypeOK, Set
  <2>4. semaphores'[n] = IF n = name THEN t ELSE semaphores[n]
    BY <2>2 DEF IInv, TypeOK
  <2>5. ResolvesName(r, n) <=> n = name
    BY <2>1 DEF ResolvesName, Resolving
  <2>6. ~ResolvesName(thread[t], n)
    BY <1>1 DEF ResolvesName, Resolving
  <2>7. semaphores[n] = s <=> ResolvesName(thread[s], n)
    BY DEF SemaphoresInv
  <2>8. semaphores[name] = Null /\ Null # s
    BY <1>1, NamesAssumption DEF name
  <2>9. CASE s = t
    BY <2>3, <2>4, <2>5, <2>6, <2>7, <2>9
  <2>10. CASE s # t
    BY <2>3, <2>4, <2>7, <2>8, <2>10
  <2> QED BY <2>9, <2>10
<1>3. CASE cached # Null
  <2>1. Set(t, Resolved(t, cached)) /\ semaphores' = semaphores
    BY <1>3 DEF GetIfPresent
  <2>2. Resolved(t, cached).pc \notin Resolving
    BY <1>1, LeavesResolved
  <2> QED BY <1>1, <2>1, <2>2, SemaphoresKept DEF IInv, Resolving
<1> QED BY <1>2, <1>3

\* The steps between the semaphore's acquisition and its release.
LEMMA SemaphoresResolving ==
    ASSUME IInv, SemaphoresInv, NEW t \in Threads,
           \/ FindByUserName(t) \/ DownloadUser(t) \/ DownloadTimeout(t)
           \/ ReplaceMapping(t) \/ (PersistUser(t) /\ At(t, "persist"))
    PROVE  SemaphoresInv'
<1>1. thread[t] \in Thread
  BY RequestFacts
<1>2. \E pc \in Resolving : \E id, user :
        Set(t, [thread[t] EXCEPT !.pc = pc, !.id = id, !.user = user])
  <2>1. CASE FindByUserName(t)
    <3> DEFINE found == usernames[thread[t].name]
               pc == IF Unknown(found) THEN "download" ELSE "return"
               id == IF found = Null THEN NoUser ELSE found.id
    <3>1. Set(t, [thread[t] EXCEPT !.pc = pc, !.id = id]) /\ pc \in {"download", "return"}
      BY <2>1 DEF FindByUserName
    <3> HIDE DEF found, pc, id
    <3>2. [thread[t] EXCEPT !.pc = pc, !.id = id]
            = [thread[t] EXCEPT !.pc = pc, !.id = id, !.user = thread[t].user]
      BY <1>1 DEF Thread
    <3>3. pc \in Resolving
      BY <3>1 DEF Resolving
    <3>4. Set(t, [thread[t] EXCEPT !.pc = pc, !.id = id, !.user = thread[t].user])
      BY <3>1, <3>2
    <3> QED BY <3>3, <3>4
  <2>2. CASE DownloadUser(t)
    <3> DEFINE id == Found(thread[t].name)
               asked == [id |-> id, name |-> thread[t].name]
    <3>1. Set(t, IF id = NoUser
                 THEN [thread[t] EXCEPT !.pc = "replace", !.id = NoUser]
                 ELSE [thread[t] EXCEPT !.pc = "persist", !.id = id, !.user = asked])
      BY <2>2 DEF DownloadUser
    <3> HIDE DEF id, asked
    <3>2. [thread[t] EXCEPT !.pc = "replace", !.id = NoUser]
            = [thread[t] EXCEPT !.pc = "replace", !.id = NoUser, !.user = thread[t].user]
      BY <1>1 DEF Thread
    <3>3. "replace" \in Resolving /\ "persist" \in Resolving
      BY DEF Resolving
    <3>4. CASE id = NoUser
      BY <3>1, <3>2, <3>3, <3>4
    <3>5. CASE id # NoUser
      BY <3>1, <3>3, <3>5
    <3> QED BY <3>4, <3>5
  <2>3. CASE DownloadTimeout(t) \/ ReplaceMapping(t)
    <3>1. Set(t, [thread[t] EXCEPT !.pc = "return"])
      BY <2>3 DEF DownloadTimeout, ReplaceMapping, Goto
    <3>2. [thread[t] EXCEPT !.pc = "return"]
            = [thread[t] EXCEPT !.pc = "return", !.id = thread[t].id, !.user = thread[t].user]
      BY <1>1 DEF Thread
    <3> QED BY <3>1, <3>2 DEF Resolving
  <2>4. CASE PersistUser(t) /\ At(t, "persist")
    <3>1. Set(t, [thread[t] EXCEPT !.pc = "replace"])
      BY <2>4 DEF PersistUser, Persisted, At
    <3>2. [thread[t] EXCEPT !.pc = "replace"]
            = [thread[t] EXCEPT !.pc = "replace", !.id = thread[t].id, !.user = thread[t].user]
      BY <1>1 DEF Thread
    <3> QED BY <3>1, <3>2 DEF Resolving
  <2> QED BY <2>1, <2>2, <2>3, <2>4
<1>3. PICK pc \in Resolving :
        \E id, user : Set(t, [thread[t] EXCEPT !.pc = pc, !.id = id, !.user = user])
  BY <1>2
<1>u. PICK id, user : Set(t, [thread[t] EXCEPT !.pc = pc, !.id = id, !.user = user])
  BY <1>3
<1> DEFINE r == [thread[t] EXCEPT !.pc = pc, !.id = id, !.user = user]
<1>4. r.pc = pc /\ r.name = thread[t].name
  BY <1>1 DEF Thread
<1>5. semaphores' = semaphores /\ thread[t].pc \in Resolving
  BY DEF FindByUserName, DownloadUser, DownloadTimeout, ReplaceMapping, PersistUser, At,
         Resolving
<1> HIDE DEF r
<1>6. Set(t, r)
  BY <1>u DEF r
<1> QED BY <1>3, <1>4, <1>5, <1>6, SemaphoresKept DEF IInv

\* The steps after it.
LEMMA LeavesChecking ==
    ASSUME IInv, NEW t \in Threads,
           \/ GetUser(t) \/ DownloadId(t) \/ (PersistUser(t) /\ ~At(t, "persist"))
           \/ MapName(t) \/ Invalidate(t) \/ RedownloadUser(t) \/ Handle(t)
    PROVE  \E r : Set(t, r) /\ r.pc \notin Resolving
<1>1. thread[t] \in Thread
  BY RequestFacts
<1>2. \A pc \in Checking : \A id, user :
        /\ [thread[t] EXCEPT !.pc = pc].pc \notin Resolving
        /\ [thread[t] EXCEPT !.pc = pc, !.user = user].pc \notin Resolving
        /\ [thread[t] EXCEPT !.pc = pc, !.id = id, !.user = user].pc \notin Resolving
  BY <1>1 DEF Thread, Checking, Resolving
<1>3. CASE GetUser(t)
  <2>1. PICK r : Set(t, r) /\ r \in {Loaded(t, apiUsers[thread[t].id]),
                                     [thread[t] EXCEPT !.pc = "downloadId"]}
    BY <1>3 DEF GetUser
  <2>2. "downloadId" \in Checking
    BY DEF Checking
  <2> QED BY <1>1, <1>2, <2>1, <2>2, LeavesLoaded
<1>4. CASE DownloadId(t)
  <2>1. PICK r : \/ Set(t, r) /\ r = Then(t)
                 \/ \E n \in Names :
                      /\ Set(t, r)
                      /\ r = [thread[t] EXCEPT !.pc = "persistId",
                                               !.user = [id |-> thread[t].id, name |-> n]]
    BY <1>4 DEF DownloadId, Named
  <2>2. "persistId" \in Checking
    BY DEF Checking
  <2> QED BY <1>1, <1>2, <2>1, <2>2, LeavesThen
<1>5. CASE PersistUser(t) /\ ~At(t, "persist")
  <2>1. PICK r : Set(t, r) /\ r \in {Loaded(t, thread[t].user),
                                     [thread[t] EXCEPT !.pc = "map"]}
    BY <1>5 DEF PersistUser, Persisted
  <2>2. "map" \in Checking
    BY DEF Checking
  <2> QED BY <1>1, <1>2, <2>1, <2>2, LeavesLoaded
<1>6. CASE MapName(t)
  <2>1. "invalidate" \in Checking
    BY DEF Checking
  <2> QED BY <1>2, <1>6, <2>1 DEF MapName, Goto
<1>7. CASE Invalidate(t)
  BY <1>1, <1>7, LeavesMapped DEF Invalidate
<1>8. CASE RedownloadUser(t)
  <2>1. {"map", "persistNick"} \subseteq Checking
    BY DEF Checking
  <2>2. \E pc \in {"map", "persistNick"} : \E id, user :
          Set(t, [thread[t] EXCEPT !.pc = pc, !.id = id, !.user = user])
    BY <1>8 DEF RedownloadUser
  <2> QED BY <1>2, <2>1, <2>2
<1>9. CASE Handle(t)
  BY <1>9, LeavesThen DEF Handle
<1> QED BY <1>3, <1>4, <1>5, <1>6, <1>7, <1>8, <1>9

LEMMA SemaphoresChecking ==
    ASSUME IInv, SemaphoresInv, NEW t \in Threads,
           \/ GetUser(t) \/ DownloadId(t) \/ (PersistUser(t) /\ ~At(t, "persist"))
           \/ MapName(t) \/ Invalidate(t) \/ RedownloadUser(t) \/ Handle(t)
    PROVE  SemaphoresInv'
<1>1. semaphores' = semaphores
  BY DEF GetUser, DownloadId, PersistUser, MapName, Invalidate, RedownloadUser, Handle
<1>2. thread[t].pc \notin Resolving
  <2>1. thread[t].pc \in Checking
    BY DEF GetUser, DownloadId, PersistUser, MapName, Invalidate, RedownloadUser, Handle, At,
           Checking
  <2> QED BY <2>1 DEF Checking, Resolving
<1> QED BY <1>1, <1>2, LeavesChecking, SemaphoresKept DEF IInv

LEMMA NextSemaphores == IInv /\ SemaphoresInv /\ [Next]_vars => SemaphoresInv'
<1> SUFFICES ASSUME IInv, SemaphoresInv, [Next]_vars PROVE SemaphoresInv'
  OBVIOUS
<1>1. CASE Requests
  BY <1>1, SemaphoresRequests
<1>2. ASSUME NEW t \in Threads, Return(t) \/ Fail(t) PROVE SemaphoresInv'
  <2>1. thread[t] \in Thread
    BY RequestFacts
  <2>2. semaphores' = Freed(t)
    BY <1>2 DEF Return, Fail
  <2>3. PICK r : Set(t, r) /\ r.pc \notin Resolving
    BY <1>2, <2>1, LeavesResolved, LeavesThen DEF Return, Fail
  <2> QED BY <2>2, <2>3, SemaphoreFreed DEF IInv
<1>3. ASSUME NEW t \in Threads, Work(t) \/ DownloadTimeout(t) PROVE SemaphoresInv'
  BY <1>2, <1>3, SemaphoresGetIfPresent, SemaphoresResolving, SemaphoresChecking DEF Work
<1>4. CASE Restart
  <2>1. \A t \in Threads : ~(thread'[t].pc \in Resolving)
    BY <1>4 DEF Restart, Idle, Resolving
  <2>2. \A n \in Names : semaphores'[n] = Null
    BY <1>4 DEF Restart
  <2> QED BY <2>1, <2>2, NamesAssumption DEF SemaphoresInv, ResolvesName
<1>5. ASSUME thread' = thread, semaphores' = semaphores PROVE SemaphoresInv'
  BY <1>5 DEF SemaphoresInv, ResolvesName
<1>6. CASE \/ Time \/ UNCHANGED vars
           \/ \E u \in Users : Vanish(u) \/ \E name \in Names : Rename(u, name)
           \/ \E n \in Names : Evict(n)
  BY <1>5, <1>6 DEF Time, Age, Hour, Vanish, Rename, Evict, vars
<1> QED BY <1>1, <1>2, <1>3, <1>4, <1>6 DEF Next, Trouble

\* IrcNameResolver.semaphores: past the cache there is one resolution of a name
\* at a time, and it alone keeps others waiting.
OneResolutionPerName ==
    /\ \A s, t \in Threads :
         thread[s].pc \in Resolving /\ thread[t].pc \in Resolving
           /\ thread[s].name = thread[t].name => s = t
    /\ \A n \in Names :
         semaphores[n] # Null => ResolvesName(thread[semaphores[n]], n)

(* A name is resolved by one request at a time, whose lookups and          *)
(* downloads no other request repeats meanwhile, and requests wait only    *)
(* while that one is under way: neither a failure nor a timeout leaves a   *)
(* semaphore behind (the try and finally of resolveIRCName).               *)
THEOREM ResolutionExclusive == Spec => []OneResolutionPerName
<1>1. Init => SemaphoresInv
  BY NamesAssumption DEF Init, SemaphoresInv, ResolvesName, Idle, Resolving
<1>2. IInv /\ SemaphoresInv => OneResolutionPerName
  <2> SUFFICES ASSUME IInv, SemaphoresInv PROVE OneResolutionPerName
    OBVIOUS
  <2>1. ASSUME NEW s \in Threads, NEW t \in Threads,
               thread[s].pc \in Resolving, thread[t].pc \in Resolving,
               thread[s].name = thread[t].name
        PROVE  s = t
    <3>1. thread[s].name \in Names
      BY <2>1, RequestFacts DEF RequestInv
    <3> QED BY <2>1, <3>1 DEF SemaphoresInv, ResolvesName
  <2>2. ASSUME NEW n \in Names, semaphores[n] # Null
        PROVE  ResolvesName(thread[semaphores[n]], n)
    <3>1. semaphores[n] \in Threads
      BY <2>2 DEF IInv, TypeOK
    <3> QED BY <3>1 DEF SemaphoresInv
  <2> QED BY <2>1, <2>2 DEF OneResolutionPerName
<1> QED BY <1>1, <1>2, NextSemaphores, Invariant, PTL DEF Spec

-----------------------------------------------------------------------------
(* Mappings.                                                               *)

\* A step of t that leaves what is stored of n as it is, or stores id, after which
\* t will store id for n, or begins to map it to another one.
Harmless(t, n, id) ==
    /\ usernames'[n] = [id |-> id, due |-> FALSE]
    /\ resolvedIRCNames'[n] \in {resolvedIRCNames[n], Null, id}
    /\ \E r : Set(t, r) /\ (Undoes(r, n, id) => r.pc = "map")

LEMMA HarmlessKeeps ==
    ASSUME TypeOK, NEW t \in Threads, NEW n \in Names, NEW id \in Ids,
           MappedTo(n, id), Harmless(t, n, id)
    PROVE  /\ MappedTo(n, id)' \/ MappedAnew(n, id)'
           /\ Settled(n, id) => Settled(n, id)' \/ MappedAnew(n, id)'
<1>1. PICK r : Set(t, r) /\ (Undoes(r, n, id) => r.pc = "map")
  BY DEF Harmless
<1>2. \A s \in Threads : thread'[s] = IF s = t THEN r ELSE thread[s]
  BY <1>1 DEF TypeOK, Set
<1>3. CASE Undoes(r, n, id)
  BY <1>1, <1>2, <1>3 DEF MappedAnew, At, Undoes
<1>4. CASE ~Undoes(r, n, id)
  <2>1. \A s \in Threads : ~Undoes(thread'[s], n, id)
    BY <1>2, <1>4 DEF MappedTo
  <2>2. MappedTo(n, id)'
    BY <2>1 DEF MappedTo, Harmless, Undoes
  <2> QED BY <2>2 DEF Settled, Harmless
<1> QED BY <1>3, <1>4

\* A step that does not touch the table, after which t is past the resolution.
LEMMA LeavesHarmless ==
    ASSUME NEW t \in Threads, NEW n \in Names, NEW id \in Ids, MappedTo(n, id),
           usernames' = usernames,
           resolvedIRCNames'[n] \in {resolvedIRCNames[n], Null, id},
           \E r : Set(t, r) /\ r.pc \notin Resolving
    PROVE  Harmless(t, n, id)
BY DEF Harmless, MappedTo, Undoes, Resolving

\* What is found in the table is the mapping itself.
LEMMA FindHarmless ==
    ASSUME IInv, NEW t \in Threads, NEW n \in Names, NEW id \in Ids, MappedTo(n, id),
           FindByUserName(t)
    PROVE  Harmless(t, n, id)
<1> DEFINE found == usernames[thread[t].name]
           pc == IF Unknown(found) THEN "download" ELSE "return"
           r == [thread[t] EXCEPT !.pc = pc, !.id = IF found = Null THEN NoUser ELSE found.id]
<1>1. thread[t] \in Thread
  BY RequestFacts
<1>2. Set(t, r) /\ UNCHANGED <<usernames, resolvedIRCNames>>
  BY DEF FindByUserName, tables
<1>3. r.name = thread[t].name /\ r.pc = pc /\ r.id = IF found = Null THEN NoUser ELSE found.id
  BY <1>1 DEF Thread
<1>4. CASE thread[t].name = n
  <2>1. found = [id |-> id, due |-> FALSE]
    BY <1>4 DEF MappedTo
  <2>2. found \in Mapping
    BY <2>1 DEF Mapping
  <2> HIDE DEF found
  <2>3. found # Null /\ found.id = id
    BY <2>1, <2>2, NullsAssumption
  <2>4. ~found.due
    BY <2>1, Zenon
  <2>5. r.pc = "return" /\ r.id = id
    BY <1>3, <2>3, <2>4 DEF Unknown
  <2> HIDE DEF r
  <2> QED BY <1>2, <2>5 DEF Harmless, MappedTo, Undoes
<1>5. CASE thread[t].name # n
  <2> HIDE DEF r
  <2> QED BY <1>2, <1>3, <1>5 DEF Harmless, MappedTo, Undoes
<1> QED BY <1>4, <1>5

\* Who asks osu! does so for another name, and who stores what osu! said stores id
\* or does so for another name.
LEMMA ResolvingHarmless ==
    ASSUME IInv, NEW t \in Threads, NEW n \in Names, NEW id \in Ids, MappedTo(n, id),
           \/ DownloadUser(t) \/ DownloadTimeout(t)
           \/ ReplaceMapping(t) \/ (PersistUser(t) /\ At(t, "persist"))
    PROVE  Harmless(t, n, id)
<1>1. thread[t] \in Thread /\ ~Undoes(thread[t], n, id) /\ resolvedIRCNames' = resolvedIRCNames
  BY RequestFacts DEF MappedTo, DownloadUser, DownloadTimeout, ReplaceMapping, PersistUser
<1>2. CASE DownloadUser(t)
  <2> DEFINE found == Found(thread[t].name)
             user == [id |-> found, name |-> thread[t].name]
  <2>1. Set(t, IF found = NoUser
               THEN [thread[t] EXCEPT !.pc = "replace", !.id = NoUser]
               ELSE [thread[t] EXCEPT !.pc = "persist", !.id = found, !.user = user])
    BY <1>2 DEF DownloadUser
  <2>2. thread[t].name # n /\ usernames' = usernames
    BY <1>1, <1>2 DEF DownloadUser, At, Undoes, tables
  <2>3. PICK r : Set(t, r) /\ r.name = thread[t].name
    <3> HIDE DEF found, user
    <3>1. [thread[t] EXCEPT !.pc = "replace", !.id = NoUser].name = thread[t].name
      BY <1>1 DEF Thread
    <3>2. [thread[t] EXCEPT !.pc = "persist", !.id = found, !.user = user].name
            = thread[t].name
      BY <1>1 DEF Thread
    <3> QED BY <2>1, <3>1, <3>2
  <2> QED BY <1>1, <2>2, <2>3 DEF Harmless, MappedTo, Undoes
<1>3. CASE DownloadTimeout(t)
  <2> DEFINE r == [thread[t] EXCEPT !.pc = "return"]
  <2>1. Set(t, r) /\ r.name = thread[t].name
    BY <1>1, <1>3 DEF DownloadTimeout, Goto, Thread
  <2>2. thread[t].name # n /\ usernames' = usernames
    BY <1>1, <1>3 DEF DownloadTimeout, At, Undoes, tables
  <2> HIDE DEF r
  <2> QED BY <1>1, <2>1, <2>2 DEF Harmless, MappedTo, Undoes
<1>4. CASE ReplaceMapping(t)
  <2> DEFINE r == [thread[t] EXCEPT !.pc = "return"]
  <2>1. Set(t, r) /\ r.pc = "return" /\ r.name = thread[t].name /\ r.id = thread[t].id
    BY <1>1, <1>4 DEF ReplaceMapping, Goto, Thread
  <2>2. thread[t].name = n => thread[t].id = id
    BY <1>1, <1>4 DEF ReplaceMapping, At, Undoes
  <2>3. usernames' = [usernames EXCEPT ![thread[t].name] = [id |-> thread[t].id, due |-> FALSE]]
    BY <1>4 DEF ReplaceMapping
  <2>4. usernames'[n] = [id |-> id, due |-> FALSE]
    BY <2>2, <2>3 DEF IInv, TypeOK, MappedTo
  <2> HIDE DEF r
  <2>5. ~Undoes(r, n, id)
    BY <2>1, <2>2 DEF Undoes
  <2> QED BY <1>1, <2>1, <2>4, <2>5 DEF Harmless
<1>5. CASE PersistUser(t) /\ At(t, "persist")
  <2> DEFINE r == [thread[t] EXCEPT !.pc = "replace"]
  <2>1. Set(t, r) /\ r.pc = "replace" /\ r.name = thread[t].name /\ r.id = thread[t].id
    BY <1>1, <1>5 DEF PersistUser, Persisted, At, Thread
  <2>2. thread[t].name = n => thread[t].id = id
    BY <1>1, <1>5 DEF At, Undoes
  <2>3. usernames' = usernames
    BY <1>5 DEF PersistUser
  <2> HIDE DEF r
  <2>4. ~Undoes(r, n, id)
    BY <2>1, <2>2 DEF Undoes
  <2> QED BY <1>1, <2>1, <2>3, <2>4 DEF Harmless, MappedTo
<1> QED BY <1>2, <1>3, <1>4, <1>5

\* Who stores a mapping of the same name stores id.
LEMMA MapHarmless ==
    ASSUME IInv, NEW t \in Threads, NEW n \in Names, NEW id \in Ids, MappedTo(n, id),
           MapName(t)
    PROVE  Harmless(t, n, id)
<1> DEFINE r == [thread[t] EXCEPT !.pc = "invalidate"]
<1>1. thread[t] \in Thread
  BY RequestFacts
<1>2. Set(t, r) /\ r.pc = "invalidate"
  BY <1>1 DEF MapName, Goto, Thread
<1>3. usernames' = [usernames EXCEPT ![thread[t].name] = [id |-> thread[t].id, due |-> FALSE]]
  BY DEF MapName
<1>4. thread[t].name = n => thread[t].id = id
  BY DEF MapName, At, MappedTo, Undoes
<1>5. usernames'[n] = [id |-> id, due |-> FALSE]
  BY <1>3, <1>4 DEF IInv, TypeOK, MappedTo
<1> HIDE DEF r
<1> QED BY <1>2, <1>5 DEF MapName, Harmless, Undoes

LEMMA WorkHarmless ==
    ASSUME IInv, NEW t \in Threads, NEW n \in Names, NEW id \in Ids, MappedTo(n, id),
           Work(t) \/ DownloadTimeout(t) \/ Fail(t)
    PROVE  Harmless(t, n, id)
<1>1. thread[t] \in Thread
  BY RequestFacts
<1>2. CASE GetIfPresent(t)
  <2>1. UNCHANGED <<usernames, resolvedIRCNames>>
    BY <1>2 DEF GetIfPresent, tables
  <2>2. CASE resolvedIRCNames[thread[t].name] = Null
    <3> DEFINE r == [thread[t] EXCEPT !.pc = "find"]
    <3>1. Set(t, r) /\ r.pc = "find"
      BY <1>1, <1>2, <2>2 DEF GetIfPresent, Goto, Thread
    <3> HIDE DEF r
    <3> QED BY <2>1, <3>1 DEF Harmless, MappedTo, Undoes
  <2>3. CASE resolvedIRCNames[thread[t].name] # Null
    <3>1. Set(t, Resolved(t, resolvedIRCNames[thread[t].name]))
      BY <1>2, <2>3 DEF GetIfPresent
    <3> QED BY <1>1, <2>1, <3>1, LeavesResolved, LeavesHarmless
  <2> QED BY <2>2, <2>3
<1>3. CASE Return(t)
  <2>1. Set(t, Resolved(t, thread[t].id)) /\ usernames' = usernames
    BY <1>3 DEF Return, tables
  <2>2. thread[t].name = n => thread[t].id = id
    BY <1>3 DEF Return, At, MappedTo, Undoes
  <2>3. resolvedIRCNames'[n] \in {resolvedIRCNames[n], Null, id}
    BY <1>3, <2>2 DEF Return, IInv, TypeOK
  <2> QED BY <1>1, <2>1, <2>3, LeavesResolved, LeavesHarmless
<1>4. CASE Invalidate(t)
  <2>1. resolvedIRCNames'[n] \in {resolvedIRCNames[n], Null} /\ usernames' = usernames
    BY <1>4 DEF Invalidate, Invalidated, IInv, TypeOK, tables
  <2> QED BY <1>4, <2>1, LeavesChecking, LeavesHarmless
<1>5. CASE \/ GetUser(t) \/ DownloadId(t) \/ (PersistUser(t) /\ ~At(t, "persist"))
           \/ RedownloadUser(t) \/ Handle(t)
  <2>1. UNCHANGED <<usernames, resolvedIRCNames>>
    BY <1>5 DEF GetUser, DownloadId, PersistUser, RedownloadUser, Handle, tables
  <2> QED BY <1>5, <2>1, LeavesChecking, LeavesHarmless
<1>6. CASE Fail(t)
  <2>1. Set(t, Then(t)) /\ UNCHANGED <<usernames, resolvedIRCNames>>
    BY <1>6 DEF Fail, tables
  <2> QED BY <2>1, LeavesThen, LeavesHarmless
<1> QED BY <1>2, <1>3, <1>4, <1>5, <1>6, FindHarmless, ResolvingHarmless, MapHarmless DEF Work

\* What a step does to a mapping that nobody is about to undo.
LEMMA NextMapped ==
    ASSUME IInv, [Next]_vars, NEW n \in Names, NEW id \in Ids, MappedTo(n, id)
    PROVE  /\ MappedTo(n, id)' \/ Age(n) \/ MappedAnew(n, id)'
           /\ Settled(n, id) => Settled(n, id)' \/ Age(n) \/ MappedAnew(n, id)'
<1>0. TypeOK
  BY DEF IInv
<1>1. ASSUME NEW t \in Threads, Work(t) \/ DownloadTimeout(t) \/ Fail(t)
      PROVE  /\ MappedTo(n, id)' \/ MappedAnew(n, id)'
             /\ Settled(n, id) => Settled(n, id)' \/ MappedAnew(n, id)'
  BY <1>0, <1>1, WorkHarmless, HarmlessKeeps
<1>2. CASE Requests
  <2>1. PICK t \in Threads : \E r :
          /\ Set(t, r) /\ r.pc \in {"acquire", "getUser"} /\ thread[t].pc = "idle"
          /\ UNCHANGED <<world, tables, resolvedIRCNames, semaphores>>
    BY <1>2, LeavesRequests
  <2>2. Harmless(t, n, id)
    BY <2>1, LeavesHarmless DEF Resolving, tables
  <2> QED BY <1>0, <2>2, HarmlessKeeps
<1>3. ASSUME usernames'[n] = usernames[n], resolvedIRCNames'[n] \in {resolvedIRCNames[n], Null},
             thread' = thread
      PROVE  MappedTo(n, id)' /\ (Settled(n, id) => Settled(n, id)')
  BY <1>3 DEF MappedTo, Settled, Undoes
<1>4. ASSUME NEW m \in Names, Age(m), ~Age(n)
      PROVE  MappedTo(n, id)' /\ (Settled(n, id) => Settled(n, id)')
  <2>1. m # n
    BY <1>4
  <2>2. usernames'[n] = usernames[n] /\ resolvedIRCNames' = resolvedIRCNames /\ thread' = thread
    BY <1>4, <2>1 DEF Age, IInv, TypeOK
  <2> QED BY <1>3, <2>2
<1>5. ASSUME NEW m \in Names, Evict(m)
      PROVE  MappedTo(n, id)' /\ (Settled(n, id) => Settled(n, id)')
  <2>1. /\ usernames' = usernames /\ thread' = thread
        /\ resolvedIRCNames'[n] \in {resolvedIRCNames[n], Null}
    BY <1>5 DEF Evict, IInv, TypeOK, tables
  <2> QED BY <1>3, <2>1
<1>6. CASE \/ UNCHANGED vars
           \/ \E u \in Users : Vanish(u) \/ Hour(u) \/ \E name \in Names : Rename(u, name)
  BY <1>3, <1>6 DEF vars, tables, Vanish, Hour, Rename
<1>7. CASE Restart
  <2>1. /\ usernames' = usernames /\ resolvedIRCNames'[n] = Null
        /\ \A t \in Threads : thread'[t].pc = "idle"
    BY <1>7 DEF Restart, Idle, tables
  <2> QED BY <2>1 DEF MappedTo, Settled, Undoes
<1> QED BY <1>1, <1>2, <1>4, <1>5, <1>6, <1>7 DEF Next, Trouble, Time

\* A mapping is stored.
LEMMA MappingStored ==
    ASSUME IInv, NEW t \in Threads, NEW n \in Names, NEW id \in Ids,
           MapName(t), thread[t].name = n, thread[t].id = id,
           \A s \in Threads : ~Undoes(thread[s], n, id)
    PROVE  MappedTo(n, id)'
<1> DEFINE r == [thread[t] EXCEPT !.pc = "invalidate"]
<1>1. thread[t] \in Thread
  BY RequestFacts
<1>2. Set(t, r) /\ r.pc = "invalidate"
  BY <1>1 DEF MapName, Goto, Thread
<1>3. \A s \in Threads : thread'[s] = IF s = t THEN r ELSE thread[s]
  BY <1>2 DEF IInv, TypeOK, Set
<1>4. usernames'[n] = [id |-> id, due |-> FALSE]
  BY DEF MapName, IInv, TypeOK
<1> HIDE DEF r
<1>5. \A s \in Threads : ~Undoes(thread'[s], n, id)
  BY <1>2, <1>3 DEF Undoes
<1> QED BY <1>4, <1>5 DEF MappedTo, Undoes

\* The cache is emptied after it.
LEMMA MappingSettled ==
    ASSUME IInv, NEW t \in Threads, NEW n \in Names, NEW id \in Ids, MappedTo(n, id),
           Invalidate(t), thread[t].name = n
    PROVE  Settled(n, id)'
<1>1. thread[t] \in Thread
  BY RequestFacts
<1>2. \A s \in Threads : thread'[s] = IF s = t THEN Mapped(t) ELSE thread[s]
  BY DEF Invalidate, Set, IInv, TypeOK
<1>3. ~Undoes(Mapped(t), n, id)
  BY <1>1, LeavesMapped DEF Undoes, Resolving
<1>4. usernames' = usernames /\ resolvedIRCNames'[n] = Null
  BY DEF Invalidate, Invalidated, IInv, TypeOK, tables
<1>5. \A s \in Threads : ~Undoes(thread'[s], n, id)
  BY <1>2, <1>3 DEF MappedTo
<1> QED BY <1>4, <1>5 DEF Settled, MappedTo, Undoes

(* A mapping that nobody is about to undo when it is stored, of any number *)
(* of requests, stands until it is too old or another one begins, and the  *)
(* cache agrees with it as soon as it was emptied (setMapping).            *)
THEOREM MappingsStand == Spec => MappingStands
<1>1. IInv /\ [Next]_vars =>
        [\A n \in Names, id \in Ids :
          /\ \A t \in Threads :
               /\ MapName(t) /\ thread[t].name = n /\ thread[t].id = id
               /\ \A s \in Threads : ~Undoes(thread[s], n, id)
               => MappedTo(n, id)'
          /\ \A t \in Threads :
               MappedTo(n, id) /\ Invalidate(t) /\ thread[t].name = n => Settled(n, id)'
          /\ MappedTo(n, id) => MappedTo(n, id)' \/ Age(n) \/ MappedAnew(n, id)'
          /\ Settled(n, id) => Settled(n, id)' \/ Age(n) \/ MappedAnew(n, id)']_vars
  <2> SUFFICES ASSUME IInv, [Next]_vars, NEW n \in Names, NEW id \in Ids
               PROVE  /\ \A t \in Threads :
                           /\ MapName(t) /\ thread[t].name = n /\ thread[t].id = id
                           /\ \A s \in Threads : ~Undoes(thread[s], n, id)
                           => MappedTo(n, id)'
                      /\ \A t \in Threads :
                           MappedTo(n, id) /\ Invalidate(t) /\ thread[t].name = n
                             => Settled(n, id)'
                      /\ MappedTo(n, id) => MappedTo(n, id)' \/ Age(n) \/ MappedAnew(n, id)'
                      /\ Settled(n, id) => Settled(n, id)' \/ Age(n) \/ MappedAnew(n, id)'
    OBVIOUS
  <2>1. ASSUME NEW t \in Threads, MapName(t), thread[t].name = n, thread[t].id = id,
               \A s \in Threads : ~Undoes(thread[s], n, id)
        PROVE  MappedTo(n, id)'
    BY <2>1, MappingStored
  <2>2. ASSUME NEW t \in Threads, MappedTo(n, id), Invalidate(t), thread[t].name = n
        PROVE  Settled(n, id)'
    BY <2>2, MappingSettled
  <2>3. /\ MappedTo(n, id) => MappedTo(n, id)' \/ Age(n) \/ MappedAnew(n, id)'
        /\ Settled(n, id) => Settled(n, id)' \/ Age(n) \/ MappedAnew(n, id)'
    BY NextMapped DEF Settled
  <2> QED BY <2>1, <2>2, <2>3
<1> QED BY <1>1, Invariant, PTL DEF Spec, MappingStands
=============================================================================
