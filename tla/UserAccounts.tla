----------------------------- MODULE UserAccounts -----------------------------
(***************************************************************************)
(* The data of the users of ppaddict and the links between their accounts  *)
(* (PpaddictUserDataService, UserDataServiceImpl).  Every account of a     *)
(* login provider has a row.  Linking an account to an osu! user copies    *)
(* its data to the row of the osu! user, unless there is some already, and *)
(* forwards the account to it.  An account of osu! itself is linked when   *)
(* its user logs in, another one when its user presents a token.           *)
(*                                                                         *)
(* Each request is a thread; statements on the database are steps of their *)
(* own, for there are no transactions, and each may fail.  Of the data     *)
(* there are the osu! id and the comments, of which those written from one *)
(* account are one; they stand for the settings and the last request too,  *)
(* which are saved in the same way.                                        *)
(***************************************************************************)
CONSTANTS
    Accounts,  \* identifiers from login providers
    OsuIds,    \* osu! ids, and the identifiers "osu:" + id
    OsuOf,     \* the osu! id of each account that is one of osu! itself
    Threads,
    Null

ASSUME AccountsAssumption ==
    /\ Accounts \cap OsuIds = {} /\ Null \notin Accounts \cup OsuIds
    /\ DOMAIN OsuOf \subseteq Accounts
    /\ OsuOf \in [DOMAIN OsuOf -> OsuIds]

Ids == Accounts \cup OsuIds
OsuAccounts == DOMAIN OsuOf

Data == [linkedOsuId : OsuIds \cup {Null}, comments : SUBSET Accounts]
NewData == [linkedOsuId |-> Null, comments |-> {}]
OrNew(data) == IF data = Null THEN NewData ELSE data

Row == [data : Data \cup {Null}, forward : OsuIds \cup {Null}]
NoRow == [data |-> Null, forward |-> Null]
ASSUME NullAssumption == Null \notin Data \cup Row

VARIABLES
    rows,     \* table ppaddictusers by identifier
    thread,   \* where each request is and what it holds
    related,  \* history: the identifiers that were asked to be linked, as classes
    stale     \* history: has a row been replaced by a copy that was out of date

vars == <<rows, thread, related, stale>>

Loading == {"comment", "login", "again", "linkOsu", "linkOld"}
Thread == [
    pc : {"idle", "linkRow", "save", "write", "forward", "hecked"} \cup Loading,
    task : {"comment", "login", "link"},
    account : Ids \cup {Null},   \* identifier of the credentials or of the token
    osu : OsuIds \cup {Null},    \* osuUserId
    id : Ids \cup {Null},        \* of the row that is read or written next
    data : Data \cup {Null},     \* userData, osuData
    own : Row \cup {Null},       \* authenticatedUser
    from : Ids \cup {Null},      \* history: the row the data is from
    old : Data \cup {Null}]      \* history: its data when it was loaded

Idle == [pc |-> "idle", task |-> "comment", account |-> Null, osu |-> Null, id |-> Null,
         data |-> Null, own |-> Null, from |-> Null, old |-> Null]

Init ==
    /\ rows = [id \in Ids |-> NoRow]
    /\ thread = [t \in Threads |-> Idle]
    /\ related = [id \in Ids |-> {id}]
    /\ stale = FALSE

Set(t, request) == thread' = [thread EXCEPT ![t] = request]

Related(i, j) ==
    LET class == related[i] \cup related[j] IN
    related' = [k \in Ids |-> IF k \in class THEN class ELSE related[k]]

-----------------------------------------------------------------------------
(* Requests.                                                               *)

Request(task, account) == [Idle EXCEPT !.task = task, !.account = account, !.id = account]

SaveComment(t, account) ==
    /\ thread[t].pc = "idle"
    /\ Set(t, [Request("comment", account) EXCEPT !.pc = "comment"])
    /\ UNCHANGED <<rows, related, stale>>

CreateUserData(t, account) ==
    /\ thread[t].pc = "idle"
    /\ Set(t, [Request("login", account) EXCEPT !.pc = "login"])
    /\ UNCHANGED <<rows, related, stale>>

\* Mutant: osu! ids can be linked themselves.
MutLinkable(identifier) == TRUE
Linkable(identifier) == identifier \notin OsuIds

\* With a valid token for the identifier.  The site gives out tokens for every
\* account; in the repository only logins and tests present them.
TryLink(t, identifier, osu) ==
    /\ thread[t].pc = "idle"
    /\ Linkable(identifier)
    /\ Set(t, [Request("link", identifier) EXCEPT !.pc = "linkRow", !.osu = osu])
    /\ Related(identifier, osu)
    /\ UNCHANGED <<rows, stale>>

-----------------------------------------------------------------------------
(* loadUserData, which follows forwards.                                   *)

Found(t) == rows[thread[t].id]

FollowForward(t) ==
    /\ thread[t].pc \in Loading \cup {"save"}
    /\ Found(t).forward # Null
    /\ Set(t, [thread[t] EXCEPT !.id = Found(t).forward])
    /\ UNCHANGED <<rows, related, stale>>

Loads(t, what) == thread[t].pc = what /\ Found(t).forward = Null

\* data is saved to the row of identifier, or where that is forwarded to.
ToSave(t, data, identifier) ==
    [thread[t] EXCEPT !.pc = "save", !.id = identifier, !.data = data,
                      !.from = thread[t].id, !.old = Found(t).data]

\* Mutants: the comments that are there are forgotten; what is new is one object
\* that requests share.
MutCommented(t) ==
    [OrNew(Found(t).data) EXCEPT !.comments = {thread[t].account}]
MutSharedData(t) ==
    [OrNew(Found(t).data) EXCEPT !.comments =
        {thread[t].account} \cup
        IF Found(t).data # Null THEN @
        ELSE UNION {thread[u].data.comments : u \in {v \in Threads : thread[v].data # Null}}]
Commented(t) ==
    [OrNew(Found(t).data) EXCEPT !.comments = @ \cup {thread[t].account}]

LoadForComment(t) ==
    /\ Loads(t, "comment")
    /\ Set(t, ToSave(t, Commented(t), thread[t].account))
    /\ UNCHANGED <<rows, related, stale>>

Unlinked(t) ==
    thread[t].account \in OsuAccounts /\ OrNew(Found(t).data).linkedOsuId = Null

LoadForLogin(t) ==
    /\ Loads(t, "login")
    /\ IF Unlinked(t)
       THEN LET osu == OsuOf[thread[t].account] IN
            /\ Set(t, [thread[t] EXCEPT !.pc = "linkRow", !.osu = osu])
            /\ Related(thread[t].account, osu)
       ELSE Set(t, Idle) /\ UNCHANGED related
    /\ UNCHANGED <<rows, stale>>

\* "This is hecked. Please get an adult."
LoadAgain(t) ==
    /\ Loads(t, "again")
    /\ Set(t, IF Unlinked(t) THEN [Idle EXCEPT !.pc = "hecked"] ELSE Idle)
    /\ UNCHANGED <<rows, related, stale>>

-----------------------------------------------------------------------------
(* tryLinkToPpaddict.                                                      *)

\* What follows the attempt to link.
Linked(t) ==
    IF thread[t].task = "login"
    THEN [Request("login", thread[t].account) EXCEPT !.pc = "again"]
    ELSE Idle

\* Mutant: an existing forward is changed.
MutForwarded(row) == FALSE
Forwarded(row) == row.forward # Null

ReadAuthenticatedUser(t) ==
    LET row == rows[thread[t].account] IN
    /\ thread[t].pc = "linkRow"
    /\ Set(t, IF Forwarded(row)
              THEN Linked(t)
              ELSE [thread[t] EXCEPT !.pc = "linkOsu", !.id = thread[t].osu, !.own = row])
    /\ UNCHANGED <<rows, related, stale>>

\* Mutant: the data is copied as it is.
MutWithId(t) == OrNew(Found(t).data)
WithId(t) == [OrNew(Found(t).data) EXCEPT !.linkedOsuId = thread[t].osu]

LoadOsuData(t) ==
    /\ Loads(t, "linkOsu")
    /\ Set(t, IF Found(t).data = Null
              THEN [thread[t] EXCEPT !.pc = "linkOld", !.id = thread[t].account]
              ELSE ToSave(t, WithId(t), thread[t].osu))
    /\ UNCHANGED <<rows, related, stale>>

LoadOldData(t) ==
    /\ Loads(t, "linkOld")
    /\ Set(t, ToSave(t, WithId(t), thread[t].osu))
    /\ UNCHANGED <<rows, related, stale>>

\* Once the data is in its new place; the old place keeps what was read there.
SetForward(t) ==
    LET account == thread[t].account  own == thread[t].own IN
    /\ thread[t].pc = "forward"
    /\ rows' = [rows EXCEPT ![account] = [own EXCEPT !.forward = thread[t].osu]]
    /\ stale' = (stale \/ rows[account] # own)
    /\ Set(t, Linked(t))
    /\ UNCHANGED related

-----------------------------------------------------------------------------
(* saveUserData, which follows forwards as well and keeps the row it read. *)

ReadForSave(t) ==
    /\ Loads(t, "save")
    /\ Set(t, [thread[t] EXCEPT !.pc = "write"])
    /\ UNCHANGED <<rows, related, stale>>

\* Is the data still that of the row it came from, and is it that of this row?
UpToDate(t) ==
    LET r == thread[t] IN
    /\ Found(t).forward = Null
    /\ rows[r.from].data = r.old
    /\ r.from = r.id \/ Found(t).data = Null

Replace(t) ==
    LET r == thread[t] IN
    /\ r.pc = "write"
    /\ rows' = [rows EXCEPT ![r.id] = [data |-> r.data, forward |-> Null]]
    /\ stale' = (stale \/ ~UpToDate(t))
    /\ Set(t, IF r.task = "comment" THEN Idle
              ELSE [r EXCEPT !.pc = "forward", !.id = Null, !.data = Null, !.old = Null])
    /\ UNCHANGED related

\* An exception at any statement ends the request.
Fail(t) ==
    /\ thread[t].pc # "idle"
    /\ Set(t, Idle)
    /\ UNCHANGED <<rows, related, stale>>

-----------------------------------------------------------------------------
Step(t) ==
    \/ \E account \in Accounts : SaveComment(t, account) \/ CreateUserData(t, account)
    \/ \E identifier \in Ids, osu \in OsuIds : TryLink(t, identifier, osu)
    \/ FollowForward(t)
    \/ LoadForComment(t) \/ LoadForLogin(t) \/ LoadAgain(t)
    \/ ReadAuthenticatedUser(t) \/ LoadOsuData(t) \/ LoadOldData(t) \/ SetForward(t)
    \/ ReadForSave(t) \/ Replace(t)
    \/ Fail(t)

Next == \E t \in Threads : Step(t)

Spec == Init /\ [][Next]_vars

-----------------------------------------------------------------------------
TypeOK ==
    /\ rows \in [Ids -> Row]
    /\ thread \in [Threads -> Thread]
    /\ related \in [Ids -> SUBSET Ids]
    /\ stale \in BOOLEAN

(* Links are not chained, and whoever is forwarded finds data: loading and *)
(* saving follow one forward at most, to a row that was written before.    *)
ForwardsEnd ==
    \A id \in Ids : rows[id].forward # Null =>
        /\ id \notin OsuIds
        /\ rows[rows[id].forward].data # Null

(* However requests overlap and fail, a comment never gets to a row that   *)
(* nobody has asked to link, however indirectly, to the account that it    *)
(* was written from.                                                       *)
CommentsSeparate ==
    \A id \in Ids : rows[id].data # Null => rows[id].data.comments \subseteq related[id]

(* What an account shows.                                                  *)
Shown(id) ==
    OrNew(IF rows[id].forward = Null THEN rows[id].data ELSE rows[rows[id].forward].data)

(* As long as no row is replaced by a copy that is out of date: a link is  *)
(* final and the old place is a backup, and whoever is forwarded finds the *)
(* osu! id, so that logging in never ends with "This is hecked".           *)
LinksKept ==
    [][ \A id \in Ids :
          ~stale' /\ rows[id].forward # Null
          => /\ rows'[id] = rows[id]
             /\ Shown(id)'.linkedOsuId = rows[id].forward ]_vars
NeverHecked == \A t \in Threads : thread[t].pc # "hecked"
HeckedOnlyIfStale == ~stale => NeverHecked

(* Likewise, no step takes a comment from what an account shows, unless it *)
(* links the account to an osu! user that has data already.                *)
TakesOver(id) ==
    \E t \in Threads : thread[t].pc = "forward" /\ thread[t].account = id
                       /\ thread[t].from = thread[t].osu
CommentsKept ==
    [][ \A id \in Accounts :
          ~stale' /\ ~TakesOver(id)
          => Shown(id).comments \subseteq Shown(id)'.comments ]_vars
=============================================================================
