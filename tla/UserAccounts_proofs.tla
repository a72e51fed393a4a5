------------------------- MODULE UserAccounts_proofs --------------------------
(***************************************************************************)
(* Proofs about UserAccounts, for all accounts and osu! ids and any number *)
(* of requests at a time.                                                  *)
(***************************************************************************)
EXTENDS UserAccounts, TLAPS

(* Being linked is an equivalence.                                         *)
Classes(rel) ==
    \A i \in Ids : i \in rel[i] /\ \A j \in rel[i] : rel[j] = rel[i]

(* Forwards end, within the class; comments stay in it; and unless a row   *)
(* was overwritten, the data of an osu! user has the osu! id.              *)
RowsOK(db, rel, bad) ==
    \A i \in Ids :
        /\ db[i].forward # Null =>
              /\ i \notin OsuIds
              /\ db[i].forward \in rel[i]
              /\ db[db[i].forward].data # Null
        /\ db[i].data # Null => db[i].data.comments \subseteq rel[i]
        /\ ~bad /\ i \in OsuIds /\ db[i].data # Null => db[i].data.linkedOsuId = i

Saves(r) == r.pc \in {"save", "write"}
Reads(r) == r.pc \in Loading \/ Saves(r)
Links(r) ==
    \/ r.pc \in {"linkRow", "linkOsu", "linkOld", "forward"}
    \/ Saves(r) /\ r.task # "comment"

(* What a request holds belongs to its account.                            *)
Belongs(r, rel) ==
    /\ r.pc = "comment" => r.task = "comment"
    /\ r.pc \in {"login", "again", "linkRow", "linkOsu", "linkOld", "forward"} => r.task # "comment"
    /\ r.pc \notin {"idle", "hecked"} => r.account \in Accounts
    /\ Reads(r) => r.id \in rel[r.account]
    /\ Saves(r) => r.data # Null /\ r.data.comments \subseteq rel[r.account]
    /\ Links(r) => r.osu \in OsuIds /\ r.osu \in rel[r.account]
    /\ Links(r) /\ r.pc # "linkRow" =>
          /\ r.own # Null /\ r.own.forward = Null
          /\ r.own.data # Null => r.own.data.comments \subseteq rel[r.account]

(* Linking writes the data with the id to the row of the osu! user; others *)
(* get there by a forward, so that there is data already.                  *)
Lands(r, db) ==
    /\ Links(r) /\ (r.pc = "linkOsu" \/ Saves(r)) => r.id = r.osu
    /\ Links(r) /\ Saves(r) => r.data.linkedOsuId = r.osu
    /\ r.pc = "forward" => db[r.osu].data # Null
    /\ Reads(r) /\ ~Links(r) /\ r.id \in OsuIds => db[r.id].data # Null

(* What holds as long as no row was overwritten.                           *)
Fresh(r, db) ==
    /\ Saves(r) /\ ~Links(r) /\ r.from \in OsuIds => r.data.linkedOsuId = r.from
    /\ r.pc = "again" => db[r.account].forward # Null /\ r.id \in {r.account} \cup OsuIds
    /\ r.pc # "hecked"

Sound(r, db, rel, bad) == Belongs(r, rel) /\ Lands(r, db) /\ (~bad => Fresh(r, db))

AccountsInv ==
    /\ TypeOK
    /\ Classes(related)
    /\ RowsOK(rows, related, stale)
    /\ \A t \in Threads : Sound(thread[t], rows, related, stale)

-----------------------------------------------------------------------------
(* What every step leaves to the other requests.                           *)
Grows(db, db2, rel, rel2, bad, bad2) ==
    /\ \A i \in Ids : rel[i] \subseteq rel2[i]
    /\ \A i \in OsuIds : db[i].data # Null => db2[i].data # Null
    /\ bad => bad2
    /\ ~bad2 => \A i \in Ids : db[i].forward # Null => db2[i].forward # Null

LEMMA SoundKept ==
    ASSUME NEW r \in Thread, NEW db, NEW db2, NEW rel, NEW rel2,
           NEW bad \in BOOLEAN, NEW bad2 \in BOOLEAN,
           Grows(db, db2, rel, rel2, bad, bad2), Sound(r, db, rel, bad)
    PROVE  Sound(r, db2, rel2, bad2)
<1>1. Belongs(r, rel2)
  <2>1. r.pc \notin {"idle", "hecked"} => rel[r.account] \subseteq rel2[r.account]
    BY DEF Grows, Sound, Belongs, Ids
  <2>2. Reads(r) \/ Saves(r) \/ Links(r) => r.pc \notin {"idle", "hecked"}
    BY DEF Reads, Saves, Links, Loading
  <2> QED BY <2>1, <2>2 DEF Sound, Belongs
<1>2. r.pc = "forward" => r.osu \in OsuIds
  BY DEF Sound, Belongs, Links
<1>3. Lands(r, db2)
  BY <1>2 DEF Grows, Sound, Lands
<1>4. r.pc = "again" => r.account \in Ids
  BY DEF Sound, Belongs, Ids
<1>5. ~bad2 => Fresh(r, db2)
  BY <1>4 DEF Grows, Sound, Fresh
<1> QED BY <1>1, <1>3, <1>5 DEF Sound

(* A step of a thread, from what it does to the tables and to its request. *)
LEMMA StepKept ==
    ASSUME AccountsInv, NEW t \in Threads, NEW r \in Thread, Set(t, r),
           rows' \in [Ids -> Row], related' \in [Ids -> SUBSET Ids], stale' \in BOOLEAN,
           Classes(related'), RowsOK(rows', related', stale'),
           Grows(rows, rows', related, related', stale, stale'),
           Sound(r, rows', related', stale')
    PROVE  AccountsInv'
<1>1. TypeOK'
  BY DEF AccountsInv, TypeOK, Set
<1>2. ASSUME NEW u \in Threads
      PROVE  Sound(thread'[u], rows', related', stale')
  <2>1. CASE u = t
    <3>1. thread'[u] = r
      BY <2>1 DEF Set, AccountsInv, TypeOK
    <3> QED BY <3>1
  <2>2. CASE u # t
    <3>1. thread'[u] = thread[u] /\ thread[u] \in Thread
      BY <2>2 DEF Set, AccountsInv, TypeOK
    <3>2. Sound(thread[u], rows, related, stale) /\ stale \in BOOLEAN
      BY DEF AccountsInv, TypeOK
    <3>3. Sound(thread[u], rows', related', stale')
      BY <3>1, <3>2, SoundKept
    <3> QED BY <3>1, <3>3
  <2> QED BY <2>1, <2>2
<1> QED BY <1>1, <1>2 DEF AccountsInv

(* A step that leaves the tables alone.                                    *)
LEMMA QuietStep ==
    ASSUME AccountsInv, NEW t \in Threads, NEW r \in Thread, Set(t, r),
           UNCHANGED <<rows, related, stale>>, Sound(r, rows, related, stale)
    PROVE  AccountsInv'
<1>1. Grows(rows, rows', related, related', stale, stale')
  BY DEF Grows
<1>2. /\ rows' \in [Ids -> Row] /\ related' \in [Ids -> SUBSET Ids] /\ stale' \in BOOLEAN
      /\ Classes(related') /\ RowsOK(rows', related', stale')
      /\ Sound(r, rows', related', stale')
  BY DEF AccountsInv, TypeOK
<1> QED BY <1>1, <1>2, StepKept

(* A step that links two identifiers.                                      *)
LEMMA RelatedStep ==
    ASSUME AccountsInv, NEW t \in Threads, NEW r \in Thread, Set(t, r),
           NEW i \in Ids, NEW j \in Ids, Related(i, j),
           UNCHANGED <<rows, stale>>, Sound(r, rows, related', stale)
    PROVE  AccountsInv'
<1> DEFINE class == related[i] \cup related[j]
<1>1. related \in [Ids -> SUBSET Ids] /\ Classes(related)
  BY DEF AccountsInv, TypeOK
<1>2. class \subseteq Ids
  BY <1>1
<1>3. related' = [k \in Ids |-> IF k \in class THEN class ELSE related[k]]
  BY DEF Related
<1>4. related' \in [Ids -> SUBSET Ids]
  BY <1>1, <1>2, <1>3
<1>5. \A k \in Ids : related[k] \subseteq related'[k]
  BY <1>1, <1>3 DEF Classes
<1>6. ASSUME NEW k \in Ids
      PROVE  k \in related'[k] /\ \A m \in related'[k] : related'[m] = related'[k]
  <2>1. k \in related[k]
    BY <1>1 DEF Classes
  <2>2. CASE k \in class
    BY <2>2, <1>2, <1>3
  <2>3. CASE k \notin class
    <3>1. related'[k] = related[k]
      BY <2>3, <1>3
    <3>2. ASSUME NEW m \in related[k] PROVE m \in Ids /\ m \notin class /\ related[m] = related[k]
      <4>1. m \in Ids /\ related[m] = related[k]
        BY <1>1 DEF Classes
      <4>2. m \in class => k \in class
        BY <1>1, <2>1, <4>1 DEF Classes
      <4> QED BY <4>1, <4>2, <2>3
    <3> QED BY <3>1, <3>2, <2>1, <1>3
  <2> QED BY <2>2, <2>3
<1>7. Classes(related')
  BY <1>6 DEF Classes
<1>8. Grows(rows, rows', related, related', stale, stale')
  BY <1>5 DEF Grows
<1>9. RowsOK(rows', related', stale')
  BY <1>5 DEF AccountsInv, RowsOK
<1>10. /\ rows' \in [Ids -> Row] /\ stale' \in BOOLEAN
       /\ Sound(r, rows', related', stale')
  BY DEF AccountsInv, TypeOK
<1> QED BY <1>4, <1>7, <1>8, <1>9, <1>10, StepKept
-----------------------------------------------------------------------------
(* Records.                                                                *)

LEMMA Fields ==
    ASSUME NEW r \in Thread
    PROVE  /\ r.task \in {"comment", "login", "link"}
           /\ r.account \in Ids \cup {Null} /\ r.osu \in OsuIds \cup {Null}
           /\ r.id \in Ids \cup {Null} /\ r.data \in Data \cup {Null}
           /\ r.own \in Row \cup {Null} /\ r.from \in Ids \cup {Null}
           /\ r.old \in Data \cup {Null}
BY DEF Thread

LEMMA NoData ==
    /\ Null \notin Data /\ Null \notin Row /\ Null \notin Ids
    /\ NewData \in Data /\ NoRow \in Row
    /\ NewData.linkedOsuId = Null /\ NewData.comments = {}
BY NullAssumption, AccountsAssumption DEF NewData, NoRow, Data, Row, Ids

LEMMA IdleThread == Idle \in Thread
BY DEF Idle, Thread, Loading

(* A request that goes on to the forwarding row, and one that goes on to   *)
(* the row of the osu! account.                                            *)
LEMMA ForwardThread ==
    ASSUME NEW c \in Thread
    PROVE  LET r == [c EXCEPT !.pc = "forward", !.id = Null, !.data = Null, !.old = Null] IN
           /\ r \in Thread /\ r.pc = "forward" /\ r.task = c.task
           /\ r.account = c.account /\ r.osu = c.osu /\ r.own = c.own
<1> DEFINE r == [c EXCEPT !.pc = "forward", !.id = Null, !.data = Null, !.old = Null]
<1>1. r \in Thread
  BY DEF Thread
<1>2. r.pc = "forward" /\ r.task = c.task
  BY DEF Thread
<1>3. r.account = c.account /\ r.osu = c.osu /\ r.own = c.own
  BY DEF Thread
<1> QED BY <1>1, <1>2, <1>3

LEMMA LinkOsuThread ==
    ASSUME NEW c \in Thread, NEW row \in Row, c.osu \in OsuIds, c.osu \in Ids
    PROVE  LET r == [c EXCEPT !.pc = "linkOsu", !.id = c.osu, !.own = row] IN
           /\ r \in Thread /\ r.pc = "linkOsu" /\ r.task = c.task /\ r.account = c.account
           /\ r.osu = c.osu /\ r.id = c.osu /\ r.own = row
<1> DEFINE r == [c EXCEPT !.pc = "linkOsu", !.id = c.osu, !.own = row]
<1>1. r \in Thread
  BY DEF Thread, Loading
<1>2. r.pc = "linkOsu" /\ r.task = c.task /\ r.account = c.account
  BY DEF Thread
<1>3. r.osu = c.osu /\ r.id = c.osu /\ r.own = row
  BY DEF Thread
<1> QED BY <1>1, <1>2, <1>3

LEMMA IdleSound ==
    ASSUME NEW db, NEW rel, NEW bad
    PROVE  Sound(Idle, db, rel, bad)
<1>1. Idle.pc = "idle"
  BY DEF Idle
<1>2. ~Saves(Idle) /\ ~Reads(Idle) /\ ~Links(Idle)
  BY <1>1 DEF Saves, Reads, Links, Loading
<1> QED BY <1>1, <1>2 DEF Sound, Belongs, Lands, Fresh

(* The rows that are there.                                                *)
LEMMA Rows ==
    ASSUME AccountsInv, NEW i \in Ids
    PROVE  /\ rows[i] \in Row
           /\ rows[i].data \in Data \cup {Null} /\ rows[i].forward \in OsuIds \cup {Null}
           /\ OrNew(rows[i].data) \in Data
           /\ OrNew(rows[i].data).comments \subseteq related[i]
           /\ i \in related[i] /\ related[i] \subseteq Ids
           /\ \A j \in related[i] : related[j] = related[i]
<1>1. rows[i] \in Row /\ related[i] \subseteq Ids
  BY DEF AccountsInv, TypeOK
<1>2. rows[i].data \in Data \cup {Null} /\ rows[i].forward \in OsuIds \cup {Null}
  BY <1>1 DEF Row
<1>3. i \in related[i] /\ \A j \in related[i] : related[j] = related[i]
  BY DEF AccountsInv, Classes
<1>4. rows[i].data # Null => rows[i].data.comments \subseteq related[i]
  BY DEF AccountsInv, RowsOK
<1> QED BY <1>1, <1>2, <1>3, <1>4, NoData DEF OrNew

-----------------------------------------------------------------------------
LEMMA InitInv == Init => AccountsInv
<1> SUFFICES ASSUME Init PROVE AccountsInv
  OBVIOUS
<1>1. TypeOK
  BY IdleThread, NoData DEF Init, TypeOK
<1>2. Classes(related)
  BY DEF Init, Classes
<1>3. RowsOK(rows, related, stale)
  BY DEF Init, RowsOK, NoRow
<1>4. \A t \in Threads : Sound(thread[t], rows, related, stale)
  BY IdleSound DEF Init
<1> QED BY <1>1, <1>2, <1>3, <1>4 DEF AccountsInv

(* Requests.                                                               *)
LEMMA RequestThread ==
    ASSUME NEW task \in {"comment", "login", "link"}, NEW account \in Ids
    PROVE  /\ Request(task, account) \in Thread
           /\ Request(task, account).task = task
           /\ Request(task, account).account = account
           /\ Request(task, account).id = account
BY NoData DEF Request, Idle, Thread, Loading

(* A request that is about to read the row of its account.                 *)
LEMMA BeginSound ==
    ASSUME AccountsInv, NEW r \in Thread, r.pc \in {"comment", "login"}, r.pc = r.task,
           r.account \in Accounts, r.id = r.account
    PROVE  Sound(r, rows, related, stale)
<1>1. ~Saves(r) /\ ~Links(r) /\ r.pc # "idle" /\ r.pc # "forward" /\ r.pc # "again" /\ r.pc # "hecked"
  BY DEF Saves, Links
<1>2. r.id \in related[r.account] /\ r.id \notin OsuIds
  BY Rows, AccountsAssumption DEF Ids
<1> QED BY <1>1, <1>2 DEF Sound, Belongs, Lands, Fresh

LEMMA SaveCommentInv ==
    ASSUME AccountsInv, NEW t \in Threads, NEW account \in Accounts, SaveComment(t, account)
    PROVE  AccountsInv'
<1> DEFINE r == [Request("comment", account) EXCEPT !.pc = "comment"]
<1>1. r \in Thread /\ r.pc = "comment" /\ r.task = r.pc /\ r.account = account /\ r.id = account
  <2>1. account \in Ids
    BY DEF Ids
  <2>2. /\ Request("comment", account) \in Thread
        /\ Request("comment", account).task = "comment"
        /\ Request("comment", account).account = account /\ Request("comment", account).id = account
    BY <2>1, RequestThread
  <2> QED BY <2>2 DEF Thread, Loading
<1>2. Set(t, r) /\ UNCHANGED <<rows, related, stale>>
  BY DEF SaveComment
<1> HIDE DEF r
<1>3. Sound(r, rows, related, stale)
  BY <1>1, BeginSound
<1> QED BY <1>1, <1>2, <1>3, QuietStep

LEMMA CreateUserDataInv ==
    ASSUME AccountsInv, NEW t \in Threads, NEW account \in Accounts, CreateUserData(t, account)
    PROVE  AccountsInv'
<1> DEFINE r == [Request("login", account) EXCEPT !.pc = "login"]
<1>1. r \in Thread /\ r.pc = "login" /\ r.task = r.pc /\ r.account = account /\ r.id = account
  <2>1. account \in Ids
    BY DEF Ids
  <2>2. /\ Request("login", account) \in Thread
        /\ Request("login", account).task = "login"
        /\ Request("login", account).account = account /\ Request("login", account).id = account
    BY <2>1, RequestThread
  <2> QED BY <2>2 DEF Thread, Loading
<1>2. Set(t, r) /\ UNCHANGED <<rows, related, stale>>
  BY DEF CreateUserData
<1> HIDE DEF r
<1>3. Sound(r, rows, related, stale)
  BY <1>1, BeginSound
<1> QED BY <1>1, <1>2, <1>3, QuietStep

(* A request that is about to read the row of the account it links.        *)
LEMMA LinkSound ==
    ASSUME AccountsInv, NEW r \in Thread, r.pc = "linkRow", r.task # "comment",
           r.account \in Accounts, r.osu \in OsuIds, Related(r.account, r.osu)
    PROVE  Sound(r, rows, related', stale)
<1>1. ~Saves(r) /\ ~Reads(r)
  BY DEF Saves, Reads, Loading
<1>2. r.osu \in related'[r.account]
  <2>1. r.account \in Ids /\ r.osu \in Ids
    BY DEF Ids
  <2> QED BY <2>1, Rows DEF Related
<1> QED BY <1>1, <1>2 DEF Sound, Belongs, Lands, Fresh

LEMMA TryLinkInv ==
    ASSUME AccountsInv, NEW t \in Threads, NEW identifier \in Ids, NEW osu \in OsuIds,
           TryLink(t, identifier, osu)
    PROVE  AccountsInv'
<1> DEFINE r == [Request("link", identifier) EXCEPT !.pc = "linkRow", !.osu = osu]
<1>1. r \in Thread /\ r.pc = "linkRow" /\ r.task = "link" /\ r.account = identifier /\ r.osu = osu
  <2>1. identifier \in Ids
    BY DEF Ids
  <2>2. /\ Request("link", identifier) \in Thread
        /\ Request("link", identifier).task = "link"
        /\ Request("link", identifier).account = identifier /\ Request("link", identifier).id = identifier
    BY <2>1, RequestThread
  <2> QED BY <2>2 DEF Thread, Loading
<1>2. Set(t, r) /\ Related(identifier, osu) /\ UNCHANGED <<rows, stale>>
  BY DEF TryLink
<1>3. identifier \in Accounts /\ osu \in Ids
  BY DEF TryLink, Linkable, Ids
<1> HIDE DEF r
<1>4. Sound(r, rows, related', stale)
  BY <1>1, <1>2, <1>3, LinkSound
<1> QED BY <1>1, <1>2, <1>3, <1>4, RelatedStep

-----------------------------------------------------------------------------
(* Loading.                                                                *)

LEMMA Current ==
    ASSUME AccountsInv, NEW t \in Threads
    PROVE  /\ thread[t] \in Thread /\ stale \in BOOLEAN
           /\ Sound(thread[t], rows, related, stale)
           /\ Reads(thread[t]) =>
                 /\ thread[t].account \in Accounts /\ thread[t].account \in Ids
                 /\ thread[t].id \in Ids
                 /\ related[thread[t].id] = related[thread[t].account]
<1>1. thread[t] \in Thread /\ stale \in BOOLEAN /\ Sound(thread[t], rows, related, stale)
  BY DEF AccountsInv, TypeOK
<1>2. ASSUME Reads(thread[t])
      PROVE  /\ thread[t].account \in Accounts /\ thread[t].account \in Ids
             /\ thread[t].id \in Ids
             /\ related[thread[t].id] = related[thread[t].account]
  <2>1. thread[t].pc \notin {"idle", "hecked"}
    BY <1>2 DEF Reads, Saves, Loading
  <2>2. thread[t].account \in Accounts /\ thread[t].id \in related[thread[t].account]
    BY <1>1, <1>2, <2>1 DEF Sound, Belongs
  <2>3. thread[t].account \in Ids
    BY <2>2 DEF Ids
  <2> QED BY <2>2, <2>3, Rows
<1> QED BY <1>1, <1>2

(* The row that is read.                                                   *)
LEMMA Read ==
    ASSUME AccountsInv, NEW t \in Threads, Reads(thread[t])
    PROVE  /\ Found(t) = rows[thread[t].id]
           /\ Found(t).data \in Data \cup {Null} /\ Found(t).forward \in OsuIds \cup {Null}
           /\ OrNew(Found(t).data) \in Data
           /\ OrNew(Found(t).data).comments \subseteq related[thread[t].account]
BY Current, Rows DEF Found

LEMMA FollowForwardInv ==
    ASSUME AccountsInv, NEW t \in Threads, FollowForward(t)
    PROVE  AccountsInv'
<1> DEFINE c == thread[t]
           f == Found(t).forward
           r == [c EXCEPT !.id = f]
<1>1. c.pc \in Loading \cup {"save"} /\ f # Null /\ Set(t, r) /\ UNCHANGED <<rows, related, stale>>
  BY DEF FollowForward
<1>2. Reads(c)
  BY <1>1 DEF Reads, Saves
<1>3. /\ c \in Thread /\ Sound(c, rows, related, stale) /\ c.account \in Accounts
      /\ c.account \in Ids /\ c.id \in Ids /\ related[c.id] = related[c.account]
  BY <1>2, Current
<1>4. /\ c.id \notin OsuIds /\ f \in OsuIds
      /\ f \in related[c.account] /\ rows[f].data # Null
  BY <1>1, <1>2, <1>3, Read DEF AccountsInv, RowsOK
<1>5. /\ r \in Thread /\ r.pc = c.pc /\ r.task = c.task /\ r.account = c.account /\ r.id = f
      /\ r.osu = c.osu /\ r.data = c.data /\ r.own = c.own /\ r.from = c.from
  BY <1>3, <1>4 DEF Thread, Ids
<1> HIDE DEF r
<1>6. (Saves(r) <=> Saves(c)) /\ (Reads(r) <=> Reads(c)) /\ (Links(r) <=> Links(c))
  BY <1>5 DEF Saves, Reads, Links
<1>7. Belongs(r, related)
  BY <1>3, <1>4, <1>5, <1>6 DEF Sound, Belongs
<1>8. Links(c) => ~(c.pc = "linkOsu" \/ Saves(c))
  BY <1>3, <1>4 DEF Sound, Lands, Belongs
<1>9. Lands(r, rows)
  BY <1>3, <1>4, <1>5, <1>6, <1>8 DEF Sound, Lands
<1>10. ~stale => Fresh(r, rows)
  BY <1>3, <1>4, <1>5, <1>6 DEF Sound, Fresh
<1>11. Sound(r, rows, related, stale)
  BY <1>7, <1>9, <1>10 DEF Sound
<1> QED BY <1>1, <1>5, <1>11, QuietStep

(* What was loaded is to be saved to a row of the same class.              *)
LEMMA ToSaveThread ==
    ASSUME AccountsInv, NEW t \in Threads, Reads(thread[t]),
           NEW data \in Data, NEW identifier \in Ids
    PROVE  LET r == ToSave(t, data, identifier) IN
           /\ r \in Thread /\ r.pc = "save" /\ r.task = thread[t].task
           /\ r.account = thread[t].account /\ r.osu = thread[t].osu
           /\ r.id = identifier /\ r.data = data /\ r.own = thread[t].own
           /\ r.from = thread[t].id /\ r.old = Found(t).data
<1>1. thread[t] \in Thread /\ thread[t].id \in Ids
  BY Current
<1>2. Found(t).data \in Data \cup {Null}
  BY Read
<1> QED BY <1>1, <1>2 DEF ToSave, Thread

LEMMA CommentsOf ==
    ASSUME AccountsInv, NEW t \in Threads, Reads(thread[t])
    PROVE  /\ Commented(t) \in Data
           /\ Commented(t).comments \subseteq related[thread[t].account]
           /\ Commented(t).linkedOsuId = OrNew(Found(t).data).linkedOsuId
           /\ OrNew(Found(t).data).comments \subseteq Commented(t).comments
<1>1. OrNew(Found(t).data) \in Data
      /\ OrNew(Found(t).data).comments \subseteq related[thread[t].account]
  BY Read
<1>2. thread[t].account \in Accounts /\ thread[t].account \in related[thread[t].account]
  BY Current, Rows
<1> HIDE DEF OrNew
<1> QED BY <1>1, <1>2 DEF Commented, Data

LEMMA LoadForCommentInv ==
    ASSUME AccountsInv, NEW t \in Threads, LoadForComment(t)
    PROVE  AccountsInv'
<1> DEFINE c == thread[t]
           r == ToSave(t, Commented(t), c.account)
<1>1. c.pc = "comment" /\ Set(t, r) /\ UNCHANGED <<rows, related, stale>>
  BY DEF LoadForComment, Loads
<1>2. Reads(c) /\ ~Links(c)
  BY <1>1 DEF Reads, Saves, Links, Loading
<1>3. c.task = "comment"
  BY <1>1, <1>2, Current DEF Sound, Belongs
<1>4. /\ c \in Thread /\ Sound(c, rows, related, stale) /\ c.account \in Accounts
      /\ c.account \in Ids /\ c.id \in Ids
  BY <1>2, Current
<1>5. /\ r \in Thread /\ r.pc = "save" /\ r.task = c.task /\ r.account = c.account
      /\ r.id = c.account /\ r.data = Commented(t) /\ r.from = c.id
  BY <1>2, <1>4, ToSaveThread, CommentsOf
<1> HIDE DEF r
<1>6. Saves(r) /\ Reads(r) /\ ~Links(r)
  BY <1>5, <1>3 DEF Saves, Reads, Links
<1>7. Belongs(r, related)
  <2>1. r.data # Null /\ r.data.comments \subseteq related[r.account]
    BY <1>2, <1>5, CommentsOf, NoData
  <2>2. r.id \in related[r.account]
    BY <1>4, <1>5, Rows
  <2> QED BY <1>4, <1>5, <1>6, <2>1, <2>2 DEF Belongs
<1>8. Lands(r, rows)
  BY <1>4, <1>5, <1>6, AccountsAssumption DEF Lands
<1>9. ~stale => Fresh(r, rows)
  <2>1. ASSUME ~stale, r.from \in OsuIds PROVE r.data.linkedOsuId = r.from
    <3>1. rows[c.id].data # Null
      BY <1>2, <1>4, <1>5, <2>1 DEF Sound, Lands
    <3>2. rows[c.id].data.linkedOsuId = c.id
      BY <1>4, <1>5, <2>1, <3>1 DEF AccountsInv, RowsOK
    <3> QED BY <1>2, <1>5, <3>1, <3>2, CommentsOf DEF OrNew, Found
  <2> QED BY <1>5, <2>1 DEF Fresh
<1>10. Sound(r, rows, related, stale)
  BY <1>7, <1>8, <1>9 DEF Sound
<1> QED BY <1>1, <1>5, <1>10, QuietStep

LEMMA LoadForLoginInv ==
    ASSUME AccountsInv, NEW t \in Threads, LoadForLogin(t)
    PROVE  AccountsInv'
<1> DEFINE c == thread[t]
<1>1. c.pc = "login" /\ UNCHANGED <<rows, stale>>
  BY DEF LoadForLogin, Loads
<1>2. Reads(c)
  BY <1>1 DEF Reads, Loading
<1>3. /\ c \in Thread /\ c.account \in Accounts /\ c.account \in Ids /\ c.task # "comment"
  BY <1>1, <1>2, Current DEF Sound, Belongs
<1>4. CASE Unlinked(t)
  <2> DEFINE osu == OsuOf[c.account]
             r == [c EXCEPT !.pc = "linkRow", !.osu = osu]
  <2>1. Set(t, r) /\ Related(c.account, osu)
    BY <1>4 DEF LoadForLogin
  <2>2. osu \in OsuIds /\ osu \in Ids
    BY <1>4, AccountsAssumption DEF Unlinked, OsuAccounts, Ids
  <2> HIDE DEF osu
  <2>3. /\ r \in Thread /\ r.pc = "linkRow" /\ r.task # "comment"
        /\ r.account = c.account /\ r.osu = osu
    BY <1>3, <2>2 DEF Thread
  <2> HIDE DEF r
  <2>4. Sound(r, rows, related', stale)
    BY <1>3, <2>1, <2>2, <2>3, LinkSound
  <2> QED BY <1>1, <1>3, <2>1, <2>2, <2>3, <2>4, RelatedStep
<1>5. CASE ~Unlinked(t)
  <2>1. Set(t, Idle) /\ UNCHANGED related
    BY <1>5 DEF LoadForLogin
  <2> QED BY <1>1, <2>1, IdleThread, IdleSound, QuietStep
<1> QED BY <1>4, <1>5

(* After linking, the data has the id unless a row was overwritten.        *)
LEMMA LoadAgainInv ==
    ASSUME AccountsInv, NEW t \in Threads, LoadAgain(t)
    PROVE  AccountsInv'
<1> DEFINE c == thread[t]
<1>1. c.pc = "again" /\ Found(t).forward = Null /\ UNCHANGED <<rows, related, stale>>
  BY DEF LoadAgain, Loads
<1>2. CASE Unlinked(t)
  <2> DEFINE r == [Idle EXCEPT !.pc = "hecked"]
  <2>1. Set(t, r)
    BY <1>2 DEF LoadAgain
  <2>2. r \in Thread /\ r.pc = "hecked"
    BY IdleThread DEF Idle, Thread
  <2> HIDE DEF r
  <2>3. ASSUME ~stale PROVE FALSE
    <3>1. Reads(c) /\ ~Links(c)
      BY <1>1 DEF Reads, Links, Saves, Loading
    <3>2. /\ rows[c.account].forward # Null /\ c.id \in {c.account} \cup OsuIds
          /\ c.id \in OsuIds => rows[c.id].data # Null
      BY <1>1, <2>3, <3>1, Current DEF Sound, Fresh, Lands
    <3>3. c.id \in OsuIds /\ rows[c.id].data # Null
      BY <1>1, <3>2 DEF Found
    <3>4. c.id \in Ids /\ rows[c.id].data.linkedOsuId = c.id
      BY <2>3, <3>3 DEF AccountsInv, RowsOK, Ids
    <3> QED BY <1>2, <3>3, <3>4, NoData DEF Unlinked, OrNew, Found
  <2>4. ~Saves(r) /\ ~Reads(r) /\ ~Links(r)
    BY <2>2 DEF Saves, Reads, Links, Loading
  <2>5. Sound(r, rows, related, stale)
    BY <2>2, <2>3, <2>4 DEF Sound, Belongs, Lands, Fresh
  <2> QED BY <1>1, <2>1, <2>2, <2>5, QuietStep
<1>3. CASE ~Unlinked(t)
  <2>1. Set(t, Idle)
    BY <1>3 DEF LoadAgain
  <2> QED BY <1>1, <2>1, IdleThread, IdleSound, QuietStep
<1> QED BY <1>2, <1>3

-----------------------------------------------------------------------------
(* Linking.                                                                *)

LEMMA Linking ==
    ASSUME AccountsInv, NEW t \in Threads, Links(thread[t])
    PROVE  /\ thread[t] \in Thread /\ thread[t].task # "comment"
           /\ thread[t].account \in Accounts /\ thread[t].account \in Ids
           /\ thread[t].osu \in OsuIds /\ thread[t].osu \in Ids
           /\ thread[t].osu \in related[thread[t].account]
<1>1. thread[t] \in Thread /\ Sound(thread[t], rows, related, stale)
  BY Current
<1>2. thread[t].pc \notin {"idle", "hecked"}
  BY DEF Links, Saves
<1> QED BY <1>1, <1>2 DEF Sound, Belongs, Links, Ids

(* What a request does when it has come to the end of the attempt.         *)
LEMMA AfterLinking ==
    ASSUME AccountsInv, NEW t \in Threads, Links(thread[t]), NEW db, NEW bad \in BOOLEAN,
           ~bad => db[thread[t].account].forward # Null
    PROVE  Linked(t) \in Thread /\ Sound(Linked(t), db, related, bad)
<1> DEFINE c == thread[t]
<1>1. c.account \in Accounts /\ c.account \in Ids
  BY Linking
<1>2. CASE c.task = "login"
  <2> DEFINE r == [Request("login", c.account) EXCEPT !.pc = "again"]
  <2>1. r \in Thread /\ r.pc = "again" /\ r.task = "login" /\ r.account = c.account /\ r.id = c.account
    <3>1. /\ Request("login", c.account) \in Thread
          /\ Request("login", c.account).task = "login"
          /\ Request("login", c.account).account = c.account
          /\ Request("login", c.account).id = c.account
      BY <1>1, RequestThread
    <3> QED BY <3>1 DEF Thread, Loading
  <2>2. Linked(t) = r
    BY <1>2 DEF Linked
  <2> HIDE DEF r
  <2>3. ~Saves(r) /\ ~Links(r)
    BY <2>1 DEF Saves, Links
  <2>4. r.id \in related[r.account] /\ r.id \notin OsuIds
    BY <1>1, <2>1, Rows, AccountsAssumption
  <2> QED BY <1>1, <2>1, <2>2, <2>3, <2>4 DEF Sound, Belongs, Lands, Fresh
<1>3. CASE c.task # "login"
  BY <1>3, IdleThread, IdleSound DEF Linked
<1> QED BY <1>2, <1>3

LEMMA ReadAuthenticatedUserInv ==
    ASSUME AccountsInv, NEW t \in Threads, ReadAuthenticatedUser(t)
    PROVE  AccountsInv'
<1> DEFINE c == thread[t]
           row == rows[c.account]
<1>1. c.pc = "linkRow" /\ UNCHANGED <<rows, related, stale>>
  BY DEF ReadAuthenticatedUser
<1>2. Links(c)
  BY <1>1 DEF Links
<1>3. /\ c \in Thread /\ c.task # "comment" /\ c.account \in Accounts /\ c.account \in Ids
      /\ c.osu \in OsuIds /\ c.osu \in Ids /\ c.osu \in related[c.account]
  BY <1>2, Linking
<1>4. CASE Forwarded(row)
  <2>1. Set(t, Linked(t))
    BY <1>4 DEF ReadAuthenticatedUser
  <2>2. row.forward # Null
    BY <1>4 DEF Forwarded
  <2>3. Linked(t) \in Thread /\ Sound(Linked(t), rows, related, stale)
    BY <1>2, <2>2, AfterLinking DEF AccountsInv, TypeOK
  <2> QED BY <1>1, <2>1, <2>3, QuietStep
<1>5. CASE ~Forwarded(row)
  <2> DEFINE r == [c EXCEPT !.pc = "linkOsu", !.id = c.osu, !.own = row]
  <2>1. Set(t, r)
    BY <1>5 DEF ReadAuthenticatedUser
  <2>2. /\ row \in Row /\ row.forward = Null
        /\ row.data # Null => row.data.comments \subseteq related[c.account]
    BY <1>3, <1>5, Rows DEF Forwarded, AccountsInv, RowsOK
  <2> HIDE DEF row
  <2>3. /\ r \in Thread /\ r.pc = "linkOsu" /\ r.task = c.task /\ r.account = c.account
        /\ r.osu = c.osu /\ r.id = c.osu /\ r.own = row
    BY <1>3, <2>2, LinkOsuThread
  <2> HIDE DEF r
  <2>4. Links(r) /\ ~Saves(r)
    BY <2>3 DEF Links, Saves
  <2> QED BY <1>1, <1>3, <2>1, <2>2, <2>3, <2>4, NoData, QuietStep
          DEF Sound, Belongs, Lands, Fresh
<1> QED BY <1>4, <1>5

LEMMA DataWithId ==
    ASSUME AccountsInv, NEW t \in Threads, Reads(thread[t]), Links(thread[t])
    PROVE  /\ WithId(t) \in Data /\ WithId(t).linkedOsuId = thread[t].osu
           /\ WithId(t).comments = OrNew(Found(t).data).comments
           /\ WithId(t).comments \subseteq related[thread[t].account]
<1>1. OrNew(Found(t).data) \in Data
      /\ OrNew(Found(t).data).comments \subseteq related[thread[t].account]
  BY Read
<1>2. thread[t].osu \in OsuIds
  BY Linking
<1> HIDE DEF OrNew
<1> QED BY <1>1, <1>2 DEF WithId, Data

(* The data that was found, the one or the other, is to be saved.          *)
LEMMA LinkedDataInv ==
    ASSUME AccountsInv, NEW t \in Threads, thread[t].pc \in {"linkOsu", "linkOld"},
           Set(t, ToSave(t, WithId(t), thread[t].osu)), UNCHANGED <<rows, related, stale>>
    PROVE  AccountsInv'
<1> DEFINE c == thread[t]
           r == ToSave(t, WithId(t), c.osu)
<1>1. Reads(c) /\ Links(c) /\ c.pc # "linkRow"
  BY DEF Reads, Links, Loading
<1>2. /\ c \in Thread /\ c.task # "comment" /\ c.account \in Accounts
      /\ c.osu \in OsuIds /\ c.osu \in Ids /\ c.osu \in related[c.account]
  BY <1>1, Linking
<1>3. /\ r \in Thread /\ r.pc = "save" /\ r.task = c.task /\ r.account = c.account
      /\ r.osu = c.osu /\ r.id = c.osu /\ r.data = WithId(t) /\ r.own = c.own
  BY <1>1, <1>2, ToSaveThread, DataWithId
<1> HIDE DEF r
<1>4. Saves(r) /\ Reads(r) /\ Links(r)
  BY <1>2, <1>3 DEF Saves, Reads, Links
<1>5. Belongs(c, related)
  BY <1>1, Current DEF Sound
<1>6. r.data # Null /\ r.data.comments \subseteq related[r.account] /\ r.data.linkedOsuId = r.osu
  BY <1>1, <1>3, DataWithId, NoData
<1>7. Belongs(r, related)
  BY <1>1, <1>2, <1>3, <1>4, <1>5, <1>6 DEF Belongs
<1>8. Lands(r, rows) /\ Fresh(r, rows)
  BY <1>3, <1>4, <1>6 DEF Lands, Fresh
<1>9. Sound(r, rows, related, stale)
  BY <1>7, <1>8 DEF Sound
<1> QED BY <1>3, <1>9, QuietStep DEF r

LEMMA LoadOsuDataInv ==
    ASSUME AccountsInv, NEW t \in Threads, LoadOsuData(t)
    PROVE  AccountsInv'
<1> DEFINE c == thread[t]
           r == [c EXCEPT !.pc = "linkOld", !.id = c.account]
<1>1. c.pc = "linkOsu" /\ UNCHANGED <<rows, related, stale>>
  BY DEF LoadOsuData, Loads
<1>2. CASE Found(t).data = Null
  <2>1. Set(t, r)
    BY <1>2 DEF LoadOsuData
  <2>2. Links(c) /\ Reads(c)
    BY <1>1 DEF Links, Reads, Loading
  <2>3. /\ c \in Thread /\ c.account \in Accounts /\ c.account \in Ids /\ c.osu \in OsuIds
        /\ c.osu \in related[c.account] /\ c.task # "comment"
    BY <2>2, Linking
  <2>4. /\ r \in Thread /\ r.pc = "linkOld" /\ r.task = c.task /\ r.account = c.account
        /\ r.osu = c.osu /\ r.id = c.account /\ r.own = c.own
    BY <2>3 DEF Thread, Loading
  <2> HIDE DEF r
  <2>5. Links(r) /\ ~Saves(r)
    BY <2>4 DEF Links, Saves
  <2>6. r.id \in related[r.account] /\ Belongs(c, related)
    BY <2>2, <2>3, <2>4, Rows, Current DEF Sound
  <2>7. Belongs(r, related)
    BY <1>1, <2>2, <2>3, <2>4, <2>5, <2>6 DEF Belongs
  <2>8. Lands(r, rows) /\ Fresh(r, rows)
    BY <2>4, <2>5 DEF Lands, Fresh
  <2> QED BY <1>1, <2>1, <2>4, <2>7, <2>8, QuietStep DEF Sound
<1>3. CASE Found(t).data # Null
  <2>1. Set(t, ToSave(t, WithId(t), c.osu))
    BY <1>3 DEF LoadOsuData
  <2> QED BY <1>1, <2>1, LinkedDataInv
<1> QED BY <1>2, <1>3

LEMMA LoadOldDataInv ==
    ASSUME AccountsInv, NEW t \in Threads, LoadOldData(t)
    PROVE  AccountsInv'
BY LinkedDataInv DEF LoadOldData, Loads

(* The old place is written as it was read, with a forward to data.        *)
LEMMA Forwarding ==
    ASSUME AccountsInv, NEW t \in Threads, SetForward(t)
    PROVE  LET c == thread[t]  row == [c.own EXCEPT !.forward = c.osu] IN
           /\ Links(c) /\ c.account \in Accounts /\ c.account \in Ids
           /\ c.osu \in OsuIds /\ c.osu \in related[c.account] /\ rows[c.osu].data # Null
           /\ c.own \in Row /\ c.own.forward = Null
           /\ c.own.data # Null => c.own.data.comments \subseteq related[c.account]
           /\ row \in Row /\ row.data = c.own.data /\ row.forward = c.osu
           /\ rows' = [rows EXCEPT ![c.account] = row] /\ UNCHANGED related
           /\ Set(t, Linked(t)) /\ stale' \in BOOLEAN
           /\ ~stale' => ~stale /\ rows[c.account] = c.own
<1> DEFINE c == thread[t]
           row == [c.own EXCEPT !.forward = c.osu]
<1>1. c.pc = "forward"
  BY DEF SetForward
<1>2. Links(c)
  BY <1>1 DEF Links
<1>3. c \in Thread /\ c.account \in Accounts /\ c.account \in Ids /\ c.osu \in OsuIds
      /\ c.osu \in related[c.account]
  BY <1>2, Linking
<1>4. /\ rows[c.osu].data # Null
      /\ c.own # Null /\ c.own.forward = Null
      /\ c.own.data # Null => c.own.data.comments \subseteq related[c.account]
  BY <1>1, <1>2, Current DEF Sound, Belongs, Lands
<1>5. c.own \in Row
  BY <1>3, <1>4, Fields
<1>6. row \in Row /\ row.data = c.own.data /\ row.forward = c.osu
  BY <1>3, <1>5 DEF Row
<1>7. /\ rows' = [rows EXCEPT ![c.account] = row] /\ UNCHANGED related
      /\ Set(t, Linked(t)) /\ stale' = (stale \/ rows[c.account] # c.own)
  BY DEF SetForward
<1>8. stale \in BOOLEAN
  BY Current
<1> QED BY <1>2, <1>3, <1>4, <1>5, <1>6, <1>7, <1>8

LEMMA SetForwardInv ==
    ASSUME AccountsInv, NEW t \in Threads, SetForward(t)
    PROVE  AccountsInv'
<1> DEFINE c == thread[t]
           row == [c.own EXCEPT !.forward = c.osu]
<1>1. /\ Links(c) /\ c.account \in Accounts /\ c.account \in Ids
      /\ c.osu \in OsuIds /\ c.osu \in related[c.account] /\ rows[c.osu].data # Null
      /\ c.own.data # Null => c.own.data.comments \subseteq related[c.account]
      /\ row \in Row /\ row.data = c.own.data /\ row.forward = c.osu
      /\ rows' = [rows EXCEPT ![c.account] = row] /\ UNCHANGED related
      /\ Set(t, Linked(t)) /\ stale' \in BOOLEAN
      /\ ~stale' => ~stale
  BY Forwarding
<1> HIDE DEF row
<1>2. /\ rows \in [Ids -> Row] /\ related \in [Ids -> SUBSET Ids]
      /\ Classes(related) /\ RowsOK(rows, related, stale) /\ stale \in BOOLEAN
  BY DEF AccountsInv, TypeOK
<1>3. /\ rows' \in [Ids -> Row] /\ related' \in [Ids -> SUBSET Ids] /\ Classes(related')
      /\ rows'[c.account] = row /\ \A i \in Ids : i # c.account => rows'[i] = rows[i]
  BY <1>1, <1>2
<1>4. c.account \notin OsuIds /\ \A i \in OsuIds : i \in Ids /\ rows'[i] = rows[i]
  BY <1>1, <1>3, AccountsAssumption DEF Ids
<1>5. RowsOK(rows', related', stale')
  <2> SUFFICES ASSUME NEW i \in Ids
               PROVE  /\ rows'[i].forward # Null =>
                            /\ i \notin OsuIds
                            /\ rows'[i].forward \in related'[i]
                            /\ rows'[rows'[i].forward].data # Null
                      /\ rows'[i].data # Null => rows'[i].data.comments \subseteq related'[i]
                      /\ ~stale' /\ i \in OsuIds /\ rows'[i].data # Null
                            => rows'[i].data.linkedOsuId = i
    BY DEF RowsOK
  <2>1. CASE i = c.account
    BY <2>1, <1>1, <1>3, <1>4
  <2>2. CASE i # c.account
    <3>1. rows'[i] = rows[i] /\ related'[i] = related[i]
      BY <2>2, <1>1, <1>3
    <3>2. rows[i].forward # Null => rows'[rows[i].forward] = rows[rows[i].forward]
      BY <1>4, Rows
    <3> QED BY <3>1, <3>2, <1>1, <1>2 DEF RowsOK
  <2> QED BY <2>1, <2>2
<1>6. row.forward # Null
  BY <1>1, NoData DEF Ids
<1>7. Grows(rows, rows', related, related', stale, stale')
  BY <1>1, <1>2, <1>3, <1>4, <1>6 DEF Grows
<1>8. Linked(t) \in Thread /\ Sound(Linked(t), rows', related, stale')
  <2>1. Links(thread[t]) /\ stale' \in BOOLEAN
    BY <1>1
  <2>2. ~stale' => rows'[thread[t].account].forward # Null
    BY <1>3, <1>6
  <2> HIDE DEF c
  <2> QED BY <2>1, <2>2, AfterLinking
<1>9. Sound(Linked(t), rows', related', stale')
  BY <1>1, <1>8
<1> QED BY <1>1, <1>3, <1>5, <1>7, <1>8, <1>9, StepKept

-----------------------------------------------------------------------------
(* Saving.                                                                 *)

LEMMA ReadForSaveInv ==
    ASSUME AccountsInv, NEW t \in Threads, ReadForSave(t)
    PROVE  AccountsInv'
<1> DEFINE c == thread[t]
           r == [c EXCEPT !.pc = "write"]
<1>1. c.pc = "save" /\ Set(t, r) /\ UNCHANGED <<rows, related, stale>>
  BY DEF ReadForSave, Loads
<1>2. c \in Thread /\ Sound(c, rows, related, stale)
  BY Current
<1>3. /\ r \in Thread /\ r.pc = "write" /\ r.task = c.task /\ r.account = c.account
      /\ r.id = c.id /\ r.osu = c.osu /\ r.data = c.data /\ r.own = c.own /\ r.from = c.from
  BY <1>2 DEF Thread
<1> HIDE DEF r
<1>4. Saves(c) /\ Saves(r) /\ Reads(c) /\ Reads(r) /\ (Links(r) <=> Links(c))
  BY <1>1, <1>3 DEF Saves, Reads, Links
<1>5. Belongs(r, related) /\ Lands(r, rows) /\ (~stale => Fresh(r, rows))
  BY <1>1, <1>2, <1>3, <1>4 DEF Sound, Belongs, Lands, Fresh
<1> QED BY <1>1, <1>3, <1>5, QuietStep DEF Sound

(* A row is replaced by data of its class, and not by another's id.        *)
LEMMA Replacing ==
    ASSUME AccountsInv, NEW t \in Threads, Replace(t)
    PROVE  LET c == thread[t]  row == [data |-> c.data, forward |-> Null] IN
           /\ Saves(c) /\ c \in Thread /\ c.account \in Accounts /\ c.id \in Ids
           /\ c.data \in Data /\ c.data.comments \subseteq related[c.id]
           /\ row \in Row /\ row.data = c.data /\ row.forward = Null
           /\ rows' = [rows EXCEPT ![c.id] = row] /\ UNCHANGED related /\ stale' \in BOOLEAN
           /\ ~stale' => ~stale /\ rows[c.id].forward = Null
           /\ ~stale' /\ c.id \in OsuIds => c.data.linkedOsuId = c.id
<1> DEFINE c == thread[t]
           row == [data |-> c.data, forward |-> Null]
<1>1. /\ c.pc = "write" /\ rows' = [rows EXCEPT ![c.id] = row] /\ UNCHANGED related
      /\ stale' = (stale \/ ~UpToDate(t))
  BY DEF Replace
<1>2. Saves(c) /\ Reads(c)
  BY <1>1 DEF Saves, Reads
<1>3. /\ c \in Thread /\ stale \in BOOLEAN /\ Sound(c, rows, related, stale)
      /\ c.account \in Accounts /\ c.id \in Ids /\ related[c.id] = related[c.account]
  BY <1>2, Current
<1>4. c.data \in Data /\ c.data.comments \subseteq related[c.id]
  BY <1>2, <1>3, Fields DEF Sound, Belongs
<1>5. row \in Row /\ row.data = c.data /\ row.forward = Null
  BY <1>4 DEF Row
<1>6. /\ stale' \in BOOLEAN
      /\ ~stale' => ~stale /\ rows[c.id].forward = Null
                    /\ (c.from = c.id \/ rows[c.id].data = Null)
  BY <1>1, <1>3 DEF UpToDate, Found
<1>7. ASSUME ~stale', c.id \in OsuIds PROVE c.data.linkedOsuId = c.id
  <2>1. CASE Links(c)
    BY <2>1, <1>2, <1>3 DEF Sound, Lands
  <2>2. CASE ~Links(c)
    BY <2>2, <1>2, <1>3, <1>6, <1>7 DEF Sound, Lands, Fresh
  <2> QED BY <2>1, <2>2
<1> QED BY <1>1, <1>2, <1>3, <1>4, <1>5, <1>6, <1>7

LEMMA ReplaceInv ==
    ASSUME AccountsInv, NEW t \in Threads, Replace(t)
    PROVE  AccountsInv'
<1> DEFINE c == thread[t]
           row == [data |-> c.data, forward |-> Null]
           done == [c EXCEPT !.pc = "forward", !.id = Null, !.data = Null, !.old = Null]
<1>1. /\ Saves(c) /\ c \in Thread /\ c.account \in Accounts /\ c.id \in Ids
      /\ c.data \in Data /\ c.data.comments \subseteq related[c.id]
      /\ row \in Row /\ row.data = c.data /\ row.forward = Null
      /\ rows' = [rows EXCEPT ![c.id] = row] /\ UNCHANGED related /\ stale' \in BOOLEAN
      /\ ~stale' => ~stale /\ rows[c.id].forward = Null
      /\ ~stale' /\ c.id \in OsuIds => c.data.linkedOsuId = c.id
  BY Replacing
<1> HIDE DEF row
<1>2. /\ rows \in [Ids -> Row] /\ related \in [Ids -> SUBSET Ids]
      /\ Classes(related) /\ RowsOK(rows, related, stale) /\ stale \in BOOLEAN
  BY DEF AccountsInv, TypeOK
<1>3. /\ rows' \in [Ids -> Row] /\ related' \in [Ids -> SUBSET Ids] /\ Classes(related')
      /\ rows'[c.id] = row /\ \A i \in Ids : i # c.id => rows'[i] = rows[i]
  BY <1>1, <1>2
<1>4. c.data # Null
  BY <1>1, NoData
<1>5. RowsOK(rows', related', stale')
  <2> SUFFICES ASSUME NEW i \in Ids
               PROVE  /\ rows'[i].forward # Null =>
                            /\ i \notin OsuIds
                            /\ rows'[i].forward \in related'[i]
                            /\ rows'[rows'[i].forward].data # Null
                      /\ rows'[i].data # Null => rows'[i].data.comments \subseteq related'[i]
                      /\ ~stale' /\ i \in OsuIds /\ rows'[i].data # Null
                            => rows'[i].data.linkedOsuId = i
    BY DEF RowsOK
  <2>1. CASE i = c.id
    BY <2>1, <1>1, <1>3
  <2>2. CASE i # c.id
    <3>1. rows'[i] = rows[i] /\ related'[i] = related[i]
      BY <2>2, <1>1, <1>3
    <3>2. rows[i].forward # Null =>
             /\ rows[i].forward \in Ids /\ rows[rows[i].forward].data # Null
      BY <1>2, Rows DEF RowsOK, Ids
    <3>3. rows[i].forward # Null => rows'[rows[i].forward].data # Null
      BY <3>2, <1>1, <1>3, <1>4
    <3> QED BY <3>1, <3>3, <1>1, <1>2 DEF RowsOK
  <2> QED BY <2>1, <2>2
<1>6. Grows(rows, rows', related, related', stale, stale')
  <2>1. \A i \in OsuIds : rows[i].data # Null => rows'[i].data # Null
    BY <1>1, <1>3, <1>4 DEF Ids
  <2>2. ~stale' => \A i \in Ids : rows[i].forward # Null => rows'[i].forward # Null
    BY <1>1, <1>3
  <2> QED BY <1>1, <1>2, <2>1, <2>2 DEF Grows
<1>7. CASE c.task = "comment"
  <2>1. Set(t, Idle)
    BY <1>7 DEF Replace
  <2> QED BY <1>1, <1>3, <1>5, <1>6, <2>1, IdleThread, IdleSound, StepKept
<1>8. CASE c.task # "comment"
  <2>1. Set(t, done)
    BY <1>8 DEF Replace
  <2>2. /\ done \in Thread /\ done.pc = "forward" /\ done.task = c.task
        /\ done.account = c.account /\ done.osu = c.osu /\ done.own = c.own
    BY <1>1, ForwardThread
  <2> HIDE DEF done
  <2>3. Links(c) /\ Links(done) /\ ~Saves(done) /\ ~Reads(done) /\ c.pc # "linkRow"
    BY <1>1, <1>8, <2>2 DEF Links, Saves, Reads, Loading
  <2>4. Sound(c, rows, related, stale)
    BY Current
  <2>5. Belongs(done, related)
    BY <1>1, <1>8, <2>2, <2>3, <2>4 DEF Sound, Belongs
  <2>6. c.id = c.osu
    BY <1>1, <2>3, <2>4 DEF Sound, Lands
  <2>7. Lands(done, rows')
    BY <1>1, <1>3, <1>4, <2>2, <2>3, <2>6 DEF Lands
  <2>8. Fresh(done, rows')
    BY <2>2, <2>3 DEF Fresh
  <2>9. Sound(done, rows', related', stale')
    BY <1>1, <2>5, <2>7, <2>8 DEF Sound
  <2> QED BY <1>1, <1>3, <1>5, <1>6, <2>1, <2>2, <2>9, StepKept
<1> QED BY <1>7, <1>8

LEMMA FailInv ==
    ASSUME AccountsInv, NEW t \in Threads, Fail(t)
    PROVE  AccountsInv'
BY IdleThread, IdleSound, QuietStep DEF Fail

-----------------------------------------------------------------------------
LEMMA NextInv == AccountsInv /\ [Next]_vars => AccountsInv'
<1> SUFFICES ASSUME AccountsInv, [Next]_vars PROVE AccountsInv'
  OBVIOUS
<1>1. CASE UNCHANGED vars
  BY <1>1 DEF vars, AccountsInv, TypeOK
<1>2. ASSUME NEW t \in Threads, Step(t) PROVE AccountsInv'
  <2>1. CASE \E account \in Accounts : SaveComment(t, account)
    BY <2>1, SaveCommentInv
  <2>2. CASE \E account \in Accounts : CreateUserData(t, account)
    BY <2>2, CreateUserDataInv
  <2>3. CASE \E identifier \in Ids, osu \in OsuIds : TryLink(t, identifier, osu)
    BY <2>3, TryLinkInv
  <2>4. CASE FollowForward(t)
    BY <2>4, FollowForwardInv
  <2>5. CASE LoadForComment(t)
    BY <2>5, LoadForCommentInv
  <2>6. CASE LoadForLogin(t)
    BY <2>6, LoadForLoginInv
  <2>7. CASE LoadAgain(t)
    BY <2>7, LoadAgainInv
  <2>8. CASE ReadAuthenticatedUser(t)
    BY <2>8, ReadAuthenticatedUserInv
  <2>9. CASE LoadOsuData(t)
    BY <2>9, LoadOsuDataInv
  <2>10. CASE LoadOldData(t)
    BY <2>10, LoadOldDataInv
  <2>11. CASE SetForward(t)
    BY <2>11, SetForwardInv
  <2>12. CASE ReadForSave(t)
    BY <2>12, ReadForSaveInv
  <2>13. CASE Replace(t)
    BY <2>13, ReplaceInv
  <2>14. CASE Fail(t)
    BY <2>14, FailInv
  <2> QED BY <1>2, <2>1, <2>2, <2>3, <2>4, <2>5, <2>6, <2>7, <2>8, <2>9, <2>10, <2>11,
             <2>12, <2>13, <2>14 DEF Step
<1> QED BY <1>1, <1>2 DEF Next

LEMMA Invariance == Spec => []AccountsInv
BY InitInv, NextInv, PTL DEF Spec

(* Type correctness, for all sets of accounts, osu! ids and requests.      *)
THEOREM AccountsTypes == Spec => []TypeOK
<1>1. AccountsInv => TypeOK
  BY DEF AccountsInv
<1> QED BY <1>1, Invariance, PTL

(* Loading and saving follow one forward at most, to data that is there,   *)
(* however requests overlap and fail.                                      *)
THEOREM ForwardsAreFinal == Spec => []ForwardsEnd
<1>1. AccountsInv => ForwardsEnd
  BY DEF AccountsInv, RowsOK, ForwardsEnd
<1> QED BY <1>1, Invariance, PTL

(* A comment never gets to a row that nobody linked to its account.        *)
THEOREM CommentsAreSeparate == Spec => []CommentsSeparate
<1>1. AccountsInv => CommentsSeparate
  BY DEF AccountsInv, RowsOK, CommentsSeparate
<1> QED BY <1>1, Invariance, PTL

(* Only the overwriting of a row by an outdated copy makes a login fail    *)
(* with "This is hecked".                                                  *)
THEOREM LoginWorks == Spec => []HeckedOnlyIfStale
<1>1. AccountsInv => HeckedOnlyIfStale
  BY DEF AccountsInv, Sound, Fresh, HeckedOnlyIfStale, NeverHecked
<1> QED BY <1>1, Invariance, PTL

(* Rows are written in two places only.                                    *)
LEMMA RowsWritten ==
    ASSUME [Next]_vars
    PROVE  UNCHANGED rows \/ \E t \in Threads : SetForward(t) \/ Replace(t)
BY DEF Next, Step, vars, SaveComment, CreateUserData, TryLink, FollowForward, LoadForComment,
       LoadForLogin, LoadAgain, ReadAuthenticatedUser, LoadOsuData, LoadOldData, ReadForSave, Fail

(* A row with a forward is written only by outdated copies.                *)
LEMMA LinkKept ==
    ASSUME AccountsInv, [Next]_vars, ~stale', NEW i \in Ids, rows[i].forward # Null
    PROVE  rows'[i] = rows[i]
<1>1. rows \in [Ids -> Row]
  BY DEF AccountsInv, TypeOK
<1>2. ASSUME NEW t \in Threads, SetForward(t) PROVE rows'[i] = rows[i]
  <2>1. rows[thread[t].account].forward = Null
    BY <1>2, Forwarding
  <2>2. \E row : rows' = [rows EXCEPT ![thread[t].account] = row]
    BY <1>2 DEF SetForward
  <2> QED BY <1>1, <2>1, <2>2
<1>3. ASSUME NEW t \in Threads, Replace(t) PROVE rows'[i] = rows[i]
  <2>1. rows[thread[t].id].forward = Null
    BY <1>3, Replacing
  <2>2. \E row : rows' = [rows EXCEPT ![thread[t].id] = row]
    BY <1>3 DEF Replace
  <2> QED BY <1>1, <2>1, <2>2
<1> QED BY <1>2, <1>3, RowsWritten

(* Until a row is overwritten by an outdated copy, links are final, the    *)
(* old place is a backup, and who is linked finds the osu! id.             *)
THEOREM LinksAreKept == Spec => LinksKept
<1>1. ASSUME AccountsInv, AccountsInv', [Next]_vars
      PROVE  [\A id \in Ids :
                ~stale' /\ rows[id].forward # Null
                => /\ rows'[id] = rows[id]
                   /\ Shown(id)'.linkedOsuId = rows[id].forward ]_vars
  <2> SUFFICES ASSUME NEW id \in Ids, ~stale', rows[id].forward # Null
               PROVE  /\ rows'[id] = rows[id]
                      /\ Shown(id)'.linkedOsuId = rows[id].forward
    OBVIOUS
  <2> DEFINE f == rows[id].forward
  <2>1. rows'[id] = rows[id]
    BY <1>1, LinkKept
  <2>2. f \in OsuIds /\ f \in Ids
    BY <1>1, Rows DEF Ids
  <2>3. rows'[f].data # Null /\ rows'[f].data.linkedOsuId = f
    BY <1>1, <2>1, <2>2 DEF AccountsInv, RowsOK
  <2>4. Shown(id)' = rows'[f].data
    BY <2>1, <2>3 DEF Shown, OrNew
  <2> QED BY <2>1, <2>3, <2>4
<1> QED BY <1>1, Invariance, PTL DEF Spec, LinksKept

-----------------------------------------------------------------------------
(* Comments.  As long as no row is overwritten by an outdated copy, the    *)
(* comments of a row grow, and a request that links an account carries     *)
(* along those that the account had when it began, if the account has not  *)
(* been linked meanwhile.                                                  *)
CommentsIn(data) == OrNew(data).comments

Carried(r, db) ==
    Links(r) /\ db[r.account].forward = Null =>
        /\ r.pc = "linkOld" => r.id = r.account
        /\ r.pc \in {"linkOsu", "linkOld"} =>
              CommentsIn(r.own.data) \subseteq CommentsIn(db[r.account].data)
        /\ Saves(r) /\ r.from # r.osu => CommentsIn(r.own.data) \subseteq CommentsIn(r.data)
        /\ r.pc = "forward" /\ r.from # r.osu =>
              CommentsIn(r.own.data) \subseteq CommentsIn(db[r.osu].data)

CommentsInv ==
    /\ AccountsInv
    /\ \A t \in Threads :
          /\ Saves(thread[t]) => CommentsIn(thread[t].old) \subseteq CommentsIn(thread[t].data)
          /\ ~stale => Carried(thread[t], rows)

LEMMA RowsGrow ==
    ASSUME CommentsInv, [Next]_vars, ~stale', NEW i \in Ids
    PROVE  /\ rows[i].forward # Null => rows'[i].forward # Null
           /\ CommentsIn(rows[i].data) \subseteq CommentsIn(rows'[i].data)
<1>1. AccountsInv /\ rows \in [Ids -> Row]
  BY DEF CommentsInv, AccountsInv, TypeOK
<1>2. rows[i].forward # Null => rows'[i].forward # Null
  BY <1>1, LinkKept
<1>3. ASSUME NEW t \in Threads, SetForward(t)
      PROVE  CommentsIn(rows[i].data) \subseteq CommentsIn(rows'[i].data)
  <2> DEFINE row == [thread[t].own EXCEPT !.forward = thread[t].osu]
  <2>1. /\ thread[t].account \in Ids /\ row.data = thread[t].own.data
        /\ rows' = [rows EXCEPT ![thread[t].account] = row]
        /\ rows[thread[t].account] = thread[t].own
    BY <1>1, <1>3, Forwarding
  <2> HIDE DEF row
  <2>2. rows'[i].data = rows[i].data
    BY <1>1, <2>1
  <2> QED BY <2>2
<1>4. ASSUME NEW t \in Threads, Replace(t)
      PROVE  CommentsIn(rows[i].data) \subseteq CommentsIn(rows'[i].data)
  <2> DEFINE c == thread[t]
             row == [data |-> c.data, forward |-> Null]
  <2>1. /\ Saves(c) /\ c.id \in Ids /\ row.data = c.data
        /\ rows' = [rows EXCEPT ![c.id] = row]
    BY <1>1, <1>4, Replacing
  <2>2. \/ rows[c.id].data = c.old
        \/ rows[c.id].data = Null
    BY <1>1, <1>4, Current DEF Replace, UpToDate, Found
  <2>3. CommentsIn(rows[c.id].data) \subseteq CommentsIn(c.data)
    BY <2>1, <2>2, NoData DEF CommentsInv, CommentsIn, OrNew
  <2> HIDE DEF row
  <2>4. CASE i = c.id
    BY <1>1, <2>1, <2>3, <2>4
  <2>5. CASE i # c.id
    BY <1>1, <2>1, <2>5
  <2> QED BY <2>4, <2>5
<1> QED BY <1>2, <1>3, <1>4, RowsWritten

(* What a step leaves to the other requests.                               *)
LEMMA CarriedKept ==
    ASSUME CommentsInv, [Next]_vars, ~stale', NEW t \in Threads, ~stale
    PROVE  Carried(thread[t], rows')
<1> DEFINE c == thread[t]
<1>1. Carried(c, rows) /\ AccountsInv
  BY DEF CommentsInv
<1>2. SUFFICES ASSUME Links(c), rows'[c.account].forward = Null PROVE Carried(c, rows')
  BY DEF Carried
<1>3. c.account \in Ids /\ c.osu \in Ids
  BY <1>1, <1>2, Linking
<1>4. /\ rows[c.account].forward = Null
      /\ CommentsIn(rows[c.account].data) \subseteq CommentsIn(rows'[c.account].data)
      /\ CommentsIn(rows[c.osu].data) \subseteq CommentsIn(rows'[c.osu].data)
  BY <1>2, <1>3, RowsGrow
<1> QED BY <1>1, <1>2, <1>4 DEF Carried

(* A step of a thread, from what it does to its request.                   *)
LEMMA CarryingStep ==
    ASSUME CommentsInv, [Next]_vars, NEW t \in Threads, NEW r, Set(t, r),
           Saves(r) => CommentsIn(r.old) \subseteq CommentsIn(r.data),
           ~stale' => Carried(r, rows')
    PROVE  CommentsInv'
<1>1. AccountsInv /\ AccountsInv'
  BY NextInv DEF CommentsInv
<1>2. ~stale' => ~stale
  BY <1>1, Forwarding, Replacing
     DEF Next, Step, vars, SaveComment, CreateUserData, TryLink, FollowForward, LoadForComment,
         LoadForLogin, LoadAgain, ReadAuthenticatedUser, LoadOsuData, LoadOldData, ReadForSave, Fail
<1>3. ASSUME NEW u \in Threads
      PROVE  /\ Saves(thread'[u]) => CommentsIn(thread'[u].old) \subseteq CommentsIn(thread'[u].data)
             /\ ~stale' => Carried(thread'[u], rows')
  <2>1. CASE u = t
    <3>1. thread'[u] = r
      BY <1>1, <2>1 DEF Set, AccountsInv, TypeOK
    <3> QED BY <3>1
  <2>2. CASE u # t
    <3>1. thread'[u] = thread[u]
      BY <1>1, <2>2 DEF Set, AccountsInv, TypeOK
    <3>2. Saves(thread[u]) => CommentsIn(thread[u].old) \subseteq CommentsIn(thread[u].data)
      BY DEF CommentsInv
    <3>3. ~stale' => Carried(thread[u], rows')
      BY <1>2, CarriedKept
    <3> QED BY <3>1, <3>2, <3>3
  <2> QED BY <2>1, <2>2
<1> QED BY <1>1, <1>3 DEF CommentsInv

(* A request that does not carry anything (yet, or any more).              *)
LEMMA NotCarrying ==
    ASSUME CommentsInv, [Next]_vars, NEW t \in Threads, NEW r, Set(t, r),
           r.pc \in {"idle", "hecked", "comment", "login", "again", "linkRow"}
    PROVE  CommentsInv'
<1>1. ~Saves(r) /\ Carried(r, rows')
  BY DEF Saves, Carried
<1> QED BY <1>1, CarryingStep

LEMMA PlainRequests ==
    ASSUME NEW t
    PROVE  /\ Idle.pc = "idle"
           /\ [Idle EXCEPT !.pc = "hecked"].pc = "hecked"
           /\ Linked(t).pc \in {"idle", "again"}
           /\ \A account :
                 /\ [Request("comment", account) EXCEPT !.pc = "comment"].pc = "comment"
                 /\ [Request("login", account) EXCEPT !.pc = "login"].pc = "login"
                 /\ \A osu : [Request("link", account) EXCEPT !.pc = "linkRow", !.osu = osu].pc = "linkRow"
BY DEF Linked, Request, Idle

LEMMA RequestsCarry ==
    ASSUME CommentsInv, [Next]_vars, NEW t \in Threads,
           \/ \E account \in Accounts : SaveComment(t, account) \/ CreateUserData(t, account)
           \/ \E identifier \in Ids, osu \in OsuIds : TryLink(t, identifier, osu)
           \/ LoadForLogin(t) \/ LoadAgain(t) \/ SetForward(t) \/ Fail(t)
    PROVE  CommentsInv'
<1>1. CASE \E account \in Accounts : SaveComment(t, account)
  <2>1. PICK account \in Accounts : SaveComment(t, account)
    BY <1>1
  <2> DEFINE r == [Request("comment", account) EXCEPT !.pc = "comment"]
  <2>2. r.pc = "comment"
    BY PlainRequests
  <2>3. Set(t, r)
    BY <2>1 DEF SaveComment
  <2> HIDE DEF r
  <2> QED BY <2>2, <2>3, NotCarrying
<1>2. CASE \E account \in Accounts : CreateUserData(t, account)
  <2>1. PICK account \in Accounts : CreateUserData(t, account)
    BY <1>2
  <2> DEFINE r == [Request("login", account) EXCEPT !.pc = "login"]
  <2>2. r.pc = "login"
    BY PlainRequests
  <2>3. Set(t, r)
    BY <2>1 DEF CreateUserData
  <2> HIDE DEF r
  <2> QED BY <2>2, <2>3, NotCarrying
<1>3. CASE \E identifier \in Ids, osu \in OsuIds : TryLink(t, identifier, osu)
  <2>1. PICK identifier \in Ids, osu \in OsuIds : TryLink(t, identifier, osu)
    BY <1>3
  <2> DEFINE r == [Request("link", identifier) EXCEPT !.pc = "linkRow", !.osu = osu]
  <2>2. r.pc = "linkRow"
    BY PlainRequests
  <2>3. Set(t, r)
    BY <2>1 DEF TryLink
  <2> HIDE DEF r
  <2> QED BY <2>2, <2>3, NotCarrying
<1>4. CASE LoadForLogin(t)
  <2>1. CASE Unlinked(t)
    <3> DEFINE r == [thread[t] EXCEPT !.pc = "linkRow", !.osu = OsuOf[thread[t].account]]
    <3>1. thread[t] \in Thread
      BY DEF CommentsInv, AccountsInv, TypeOK
    <3>2. r.pc = "linkRow"
      BY <3>1 DEF Thread
    <3>3. Set(t, r)
      BY <1>4, <2>1 DEF LoadForLogin
    <3> QED BY <3>2, <3>3, NotCarrying
  <2>2. CASE ~Unlinked(t)
    BY <1>4, <2>2, PlainRequests, NotCarrying DEF LoadForLogin
  <2> QED BY <2>1, <2>2
<1>5. CASE LoadAgain(t)
  BY <1>5, PlainRequests, NotCarrying DEF LoadAgain
<1>6. CASE SetForward(t)
  BY <1>6, PlainRequests, NotCarrying DEF SetForward
<1>7. CASE Fail(t)
  BY <1>7, PlainRequests, NotCarrying DEF Fail
<1> QED BY <1>1, <1>2, <1>3, <1>4, <1>5, <1>6, <1>7

LEMMA FollowForwardCarries ==
    ASSUME CommentsInv, [Next]_vars, NEW t \in Threads, FollowForward(t)
    PROVE  CommentsInv'
<1> DEFINE c == thread[t]
           r == [c EXCEPT !.id = Found(t).forward]
<1>1. Set(t, r) /\ UNCHANGED <<rows, stale>> /\ Found(t).forward # Null
  BY DEF FollowForward
<1>2. c \in Thread /\ AccountsInv
  BY DEF CommentsInv, AccountsInv, TypeOK
<1>3. /\ r.pc = c.pc /\ r.task = c.task /\ r.account = c.account /\ r.osu = c.osu
      /\ r.own = c.own /\ r.data = c.data /\ r.from = c.from /\ r.old = c.old
  BY <1>2 DEF Thread
<1> HIDE DEF r
<1>4. (Saves(r) <=> Saves(c)) /\ (Links(r) <=> Links(c))
  BY <1>3 DEF Saves, Links
<1>5. Saves(r) => CommentsIn(r.old) \subseteq CommentsIn(r.data)
  BY <1>3, <1>4 DEF CommentsInv
<1>6. ~stale' => Carried(r, rows')
  <2>1. SUFFICES ASSUME ~stale, Links(c), rows[c.account].forward = Null PROVE Carried(r, rows)
    BY <1>1, <1>3, <1>4 DEF Carried
  <2>2. c.pc = "linkOld" => c.id = c.account
    BY <2>1 DEF CommentsInv, Carried
  <2>3. c.pc # "linkOld"
    BY <1>1, <2>1, <2>2 DEF Found
  <2> QED BY <1>3, <1>4, <2>1, <2>3 DEF CommentsInv, Carried
<1> QED BY <1>1, <1>5, <1>6, CarryingStep

LEMMA LoadForCommentCarries ==
    ASSUME CommentsInv, [Next]_vars, NEW t \in Threads, LoadForComment(t)
    PROVE  CommentsInv'
<1> DEFINE c == thread[t]
           r == ToSave(t, Commented(t), c.account)
<1>1. c.pc = "comment" /\ Set(t, r) /\ AccountsInv
  BY DEF LoadForComment, Loads, CommentsInv
<1>2. Reads(c)
  BY <1>1 DEF Reads, Loading
<1>3. c.task = "comment" /\ c.account \in Ids
  BY <1>1, <1>2, Current DEF Sound, Belongs
<1>4. r.pc = "save" /\ r.task = c.task /\ r.old = Found(t).data /\ r.data = Commented(t)
  BY <1>1, <1>2, <1>3, ToSaveThread, CommentsOf
<1> HIDE DEF r
<1>5. CommentsIn(r.old) \subseteq CommentsIn(r.data)
  <2>1. Commented(t) # Null
    BY <1>1, <1>2, CommentsOf, NoData
  <2> QED BY <1>1, <1>2, <1>4, <2>1, CommentsOf DEF CommentsIn, OrNew
<1>6. ~Links(r)
  BY <1>3, <1>4 DEF Links
<1> QED BY <1>1, <1>5, <1>6, CarryingStep DEF Carried

LEMMA ReadAuthenticatedUserCarries ==
    ASSUME CommentsInv, [Next]_vars, NEW t \in Threads, ReadAuthenticatedUser(t)
    PROVE  CommentsInv'
<1> DEFINE c == thread[t]
           row == rows[c.account]
           r == [c EXCEPT !.pc = "linkOsu", !.id = c.osu, !.own = row]
<1>1. CASE Forwarded(row)
  BY <1>1, PlainRequests, NotCarrying DEF ReadAuthenticatedUser
<1>2. CASE ~Forwarded(row)
  <2>1. Set(t, r) /\ UNCHANGED rows
    BY <1>2 DEF ReadAuthenticatedUser
  <2>2. c \in Thread
    BY DEF CommentsInv, AccountsInv, TypeOK
  <2>3. r.pc = "linkOsu" /\ r.account = c.account /\ r.own = row
    BY <2>2 DEF Thread
  <2> HIDE DEF r
  <2>4. ~Saves(r) /\ Carried(r, rows')
    BY <2>1, <2>3 DEF Saves, Carried
  <2> QED BY <2>1, <2>4, CarryingStep
<1> QED BY <1>1, <1>2

LEMMA LinkedDataCarries ==
    ASSUME CommentsInv, [Next]_vars, NEW t \in Threads, thread[t].pc \in {"linkOsu", "linkOld"},
           Set(t, ToSave(t, WithId(t), thread[t].osu)), UNCHANGED <<rows, stale>>
    PROVE  CommentsInv'
<1> DEFINE c == thread[t]
           r == ToSave(t, WithId(t), c.osu)
<1>1. Reads(c) /\ Links(c) /\ AccountsInv
  BY DEF Reads, Links, Loading, CommentsInv
<1>2. WithId(t) \in Data /\ c.osu \in Ids
  BY <1>1, DataWithId, Linking
<1>3. /\ r.pc = "save" /\ r.account = c.account /\ r.osu = c.osu /\ r.data = WithId(t)
      /\ r.own = c.own /\ r.from = c.id /\ r.old = rows[c.id].data
  BY <1>1, <1>2, ToSaveThread DEF Found
<1>4. CommentsIn(r.data) = CommentsIn(rows[c.id].data)
  BY <1>1, <1>2, <1>3, DataWithId, NoData DEF CommentsIn, OrNew, Found
<1> HIDE DEF r
<1>5. ASSUME ~stale, rows[c.account].forward = Null, c.id # c.osu
      PROVE  CommentsIn(c.own.data) \subseteq CommentsIn(rows[c.id].data)
  <2>1. c.pc = "linkOld"
    BY <1>1, <1>5, Current DEF Sound, Lands
  <2> QED BY <1>1, <1>5, <2>1 DEF CommentsInv, Carried
<1>6. ~stale' => Carried(r, rows')
  BY <1>3, <1>4, <1>5 DEF Carried
<1> QED BY <1>3, <1>4, <1>6, CarryingStep DEF r

LEMMA LoadOsuDataCarries ==
    ASSUME CommentsInv, [Next]_vars, NEW t \in Threads, LoadOsuData(t)
    PROVE  CommentsInv'
<1> DEFINE c == thread[t]
           r == [c EXCEPT !.pc = "linkOld", !.id = c.account]
<1>1. c.pc = "linkOsu" /\ UNCHANGED <<rows, stale>>
  BY DEF LoadOsuData, Loads
<1>2. CASE Found(t).data = Null
  <2>1. Set(t, r)
    BY <1>2 DEF LoadOsuData
  <2>2. c \in Thread
    BY DEF CommentsInv, AccountsInv, TypeOK
  <2>3. r.pc = "linkOld" /\ r.account = c.account /\ r.id = c.account /\ r.own = c.own
    BY <2>2 DEF Thread
  <2> HIDE DEF r
  <2>4. ~Saves(r) /\ (~stale' => Carried(r, rows'))
    BY <1>1, <2>3 DEF Saves, Links, Carried, CommentsInv
  <2> QED BY <2>1, <2>4, CarryingStep
<1>3. CASE Found(t).data # Null
  BY <1>1, <1>3, LinkedDataCarries DEF LoadOsuData
<1> QED BY <1>2, <1>3

LEMMA ReadForSaveCarries ==
    ASSUME CommentsInv, [Next]_vars, NEW t \in Threads, ReadForSave(t)
    PROVE  CommentsInv'
<1> DEFINE c == thread[t]
           r == [c EXCEPT !.pc = "write"]
<1>1. c.pc = "save" /\ Set(t, r) /\ UNCHANGED <<rows, stale>>
  BY DEF ReadForSave, Loads
<1>2. c \in Thread
  BY DEF CommentsInv, AccountsInv, TypeOK
<1>3. /\ r.pc = "write" /\ r.task = c.task /\ r.account = c.account /\ r.osu = c.osu
      /\ r.own = c.own /\ r.data = c.data /\ r.from = c.from /\ r.old = c.old
  BY <1>2 DEF Thread
<1> HIDE DEF r
<1>4. Saves(r) /\ Saves(c) /\ (Links(r) <=> Links(c))
  BY <1>1, <1>3 DEF Saves, Links
<1>5. CommentsIn(r.old) \subseteq CommentsIn(r.data)
  BY <1>3, <1>4 DEF CommentsInv
<1>6. ~stale' => Carried(r, rows')
  BY <1>1, <1>3, <1>4 DEF Carried, CommentsInv
<1> QED BY <1>1, <1>5, <1>6, CarryingStep

LEMMA ReplaceCarries ==
    ASSUME CommentsInv, [Next]_vars, NEW t \in Threads, Replace(t)
    PROVE  CommentsInv'
<1> DEFINE c == thread[t]
           row == [data |-> c.data, forward |-> Null]
           r == [c EXCEPT !.pc = "forward", !.id = Null, !.data = Null, !.old = Null]
<1>1. CASE c.task = "comment"
  BY <1>1, PlainRequests, NotCarrying DEF Replace
<1>2. CASE c.task # "comment"
  <2>1. Set(t, r)
    BY <1>2 DEF Replace
  <2>2. /\ Saves(c) /\ c \in Thread /\ c.id \in Ids /\ row.data = c.data
        /\ rows' = [rows EXCEPT ![c.id] = row] /\ (~stale' => ~stale) /\ AccountsInv
    BY Replacing DEF CommentsInv
  <2> HIDE DEF row
  <2>3. r.pc = "forward" /\ r.account = c.account /\ r.osu = c.osu /\ r.own = c.own /\ r.from = c.from
    BY <2>2 DEF Thread
  <2> HIDE DEF r
  <2>4. Links(c) /\ ~Saves(r)
    BY <1>2, <2>2, <2>3 DEF Links, Saves
  <2>5. c.id = c.osu /\ rows'[c.osu].data = c.data
    BY <2>2, <2>4, Current DEF Sound, Lands, AccountsInv, TypeOK
  <2>6. ~stale' => Carried(c, rows')
    BY <2>2, CarriedKept
  <2>7. ~stale' => Carried(r, rows')
    BY <2>2, <2>3, <2>4, <2>5, <2>6 DEF Carried
  <2> QED BY <2>1, <2>4, <2>7, CarryingStep
<1> QED BY <1>1, <1>2

LEMMA CommentsInvariance == Spec => []CommentsInv
<1>1. Init => CommentsInv
  BY InitInv DEF Init, Idle, CommentsInv, Saves, Links, Carried
<1>2. ASSUME CommentsInv, [Next]_vars PROVE CommentsInv'
  <2>1. CASE UNCHANGED vars
    BY <1>2, <2>1, NextInv DEF vars, CommentsInv
  <2>2. ASSUME NEW t \in Threads, Step(t) PROVE CommentsInv'
    <3>1. CASE LoadOldData(t)
      BY <1>2, <3>1, LinkedDataCarries DEF LoadOldData, Loads
    <3> QED BY <1>2, <2>2, <3>1, RequestsCarry, FollowForwardCarries, LoadForCommentCarries,
               ReadAuthenticatedUserCarries, LoadOsuDataCarries, ReadForSaveCarries, ReplaceCarries
            DEF Step
  <2> QED BY <1>2, <2>1, <2>2 DEF Next
<1> QED BY <1>1, <1>2, PTL DEF Spec

(* Until a row is overwritten by an outdated copy, an account loses no     *)
(* comment, unless it is linked to an osu! user that has data already.     *)
THEOREM CommentsAreKept == Spec => CommentsKept
<1>1. ASSUME CommentsInv, [Next]_vars
      PROVE  [\A id \in Accounts :
                ~stale' /\ ~TakesOver(id)
                => Shown(id).comments \subseteq Shown(id)'.comments ]_vars
  <2> SUFFICES ASSUME NEW id \in Accounts, ~stale', ~TakesOver(id)
               PROVE  Shown(id).comments \subseteq Shown(id)'.comments
    OBVIOUS
  <2>1. id \in Ids /\ AccountsInv /\ rows \in [Ids -> Row]
    BY <1>1 DEF Ids, CommentsInv, AccountsInv, TypeOK
  <2>2. CASE rows[id].forward # Null
    <3> DEFINE f == rows[id].forward
    <3>1. rows'[id] = rows[id]
      BY <1>1, <2>1, <2>2, LinkKept
    <3>2. f \in Ids
      BY <2>1, <2>2, Rows DEF Ids
    <3>3. CommentsIn(rows[f].data) \subseteq CommentsIn(rows'[f].data)
      BY <1>1, <3>2, RowsGrow
    <3> QED BY <2>2, <3>1, <3>3 DEF Shown, CommentsIn
  <2>3. CASE rows[id].forward = Null /\ rows'[id].forward = Null
    <3>1. CommentsIn(rows[id].data) \subseteq CommentsIn(rows'[id].data)
      BY <1>1, <2>1, RowsGrow
    <3> QED BY <2>3, <3>1 DEF Shown, CommentsIn
  <2>4. CASE rows[id].forward = Null /\ rows'[id].forward # Null
    <3>1. PICK t \in Threads : SetForward(t) /\ thread[t].account = id
      <4>1. ASSUME NEW t \in Threads, Replace(t) PROVE FALSE
        BY <2>1, <2>4, <4>1, Replacing
      <4>2. ASSUME NEW t \in Threads, SetForward(t) PROVE thread[t].account = id
        BY <2>1, <2>4, <4>2, Forwarding
      <4> QED BY <1>1, <2>4, <4>1, <4>2, RowsWritten
    <3> DEFINE c == thread[t]
               row == [c.own EXCEPT !.forward = c.osu]
    <3>2. /\ Links(c) /\ c.osu \in OsuIds /\ row.forward = c.osu
          /\ rows' = [rows EXCEPT ![id] = row] /\ ~stale /\ rows[id] = c.own
      BY <2>1, <3>1, Forwarding
    <3> HIDE DEF row
    <3>3. id \notin OsuIds /\ c.osu \in Ids
      BY <3>2, AccountsAssumption DEF Ids
    <3>4. rows'[id].forward = c.osu /\ rows'[c.osu] = rows[c.osu]
      BY <2>1, <3>2, <3>3
    <3>5. c.pc = "forward" /\ c.from # c.osu
      BY <3>1 DEF SetForward, TakesOver
    <3>6. CommentsIn(c.own.data) \subseteq CommentsIn(rows[c.osu].data)
      BY <1>1, <2>4, <3>1, <3>2, <3>5 DEF CommentsInv, Carried
    <3>7. Shown(id) = OrNew(c.own.data) /\ Shown(id)' = OrNew(rows[c.osu].data)
      BY <2>4, <3>2, <3>4 DEF Shown
    <3> QED BY <3>6, <3>7 DEF CommentsIn
  <2> QED BY <2>2, <2>3, <2>4
<1> QED BY <1>1, CommentsInvariance, PTL DEF Spec, CommentsKept
=============================================================================
