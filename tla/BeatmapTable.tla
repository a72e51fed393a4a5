---------------------------- MODULE BeatmapTable -----------------------------
(***************************************************************************)
(* The beatmap table of the ppaddict page.  The page keeps the request     *)
(* that says what the user wants to see (window.__rangeRequest).  Every    *)
(* control of the table changes it and posts it (rangeReq); the answer     *)
(* replaces the whole table, whichever control it was for and however old  *)
(* it is.  The last row of a table that is not complete posts a copy with  *)
(* another start as soon as it is scrolled into view, and is replaced by   *)
(* the rows it gets.  As in PageDialogs, each element has one request      *)
(* under way and one waiting, and what waits is lost with the element.     *)
(*                                                                         *)
(* Of the filters there is the least length of a beatmap, a time on the    *)
(* page and a number of seconds in the request.  The beatmaps stay the     *)
(* same.                                                                   *)
(***************************************************************************)
EXTENDS Integers, Sequences, FiniteSets

CONSTANTS
    Null, NaN,
    Texts,       \* what the user types into the filter
    MaxInt,      \* the largest int of the server, 2^31 - 1
    PageLength,  \* BeatmapRangeRequest.length, 100 in the code
    Available,   \* the number of beatmaps, by least length
    MaxPosts,    \* bound on the updates under way
    MaxLoads     \* bound on the requests for more rows under way

(* The parts of a text between its colons, as parseInt reads them.         *)
Text == Seq(Int \cup {NaN})

ToTime(text) ==
    IF Len(text) < 2 \/ NaN \in {text[1], text[2]} THEN Null ELSE text[1] * 60 + text[2]

\* Division in Java rounds towards zero.
Quotient(a, b) == IF a >= 0 THEN a \div b ELSE -((-a) \div b)
Remainder(a, b) == a - b * Quotient(a, b)

\* Mutant: the minutes are not taken off the seconds.
MutFormatTime(v) == IF v = Null THEN <<0, 0>> ELSE <<Quotient(v, 60), v>>
FormatTime(v) == IF v = Null THEN <<0, 0>> ELSE <<Quotient(v, 60), Remainder(v, 60)>>

Times == {Null} \cup {ToTime(text) : text \in Texts}

ASSUME TableAssumption ==
    /\ Null \notin Int /\ NaN \notin Int
    /\ \A text \in Texts : text \in Text
    /\ MaxInt \in Nat /\ MaxPosts \in Nat /\ MaxLoads \in Nat
    /\ PageLength \in Nat \ {0}
    /\ Available \in [Times -> Nat]

VARIABLES
    rangeRequest,  \* window.__rangeRequest
    table,         \* the table on the page: its request, its rows, its last row
    posts,         \* updates under way
    waiting,       \* controls with a request that waits for the one under way
    loads,         \* requests for more rows under way
    clean          \* history: the last answer to an update was for the last update

tableVars == <<rangeRequest, table, posts, waiting, loads, clean>>

Sorts == {Null, "descending", "ascending"}
Request == [min : Times, sortBy : Sorts, start : Nat]
Row == [min : Times, sortBy : Sorts, at : Nat]
Pager == {"first", "previous", "next", "far", "last"}
Controls == Pager \cup {"filter", "sort"}
Gone == "gone"
Table == [of : Request, rows : Seq(Row), loader : Nat \cup {Null}, loading : BOOLEAN]
Post == [body : Request, from : Controls \cup {Gone}, newest : BOOLEAN]
Load == [body : Request, live : BOOLEAN]

-----------------------------------------------------------------------------
(* The server.                                                             *)

RowOf(body, at) == [min |-> body.min, sortBy |-> body.sortBy, at |-> at]
NumRows(body) ==
    LET left == Available[body.min] - body.start IN
    IF left <= 0 THEN 0 ELSE IF left < PageLength THEN left ELSE PageLength
Rows(body) == [k \in 1..NumRows(body) |-> RowOf(body, body.start + k - 1)]
NextStart(body) ==
    IF body.start + PageLength < Available[body.min] THEN body.start + PageLength ELSE Null
Rendered(body) ==
    [of |-> body, rows |-> Rows(body), loader |-> NextStart(body), loading |-> FALSE]

Refused(body) == body.min # Null /\ body.min > MaxInt

-----------------------------------------------------------------------------
(* The page.                                                               *)

\* The objects of rangeRequest by their leaves, of which source has some.
DeepMerge(target, source) ==
    [key \in DOMAIN target |-> IF key \in DOMAIN source THEN source[key] ELSE target[key]]

\* What a new page may start with: the user's last request is kept by the server.
FirstRequest(body) == ~Refused(body) /\ body.start = 0

TableInit ==
    /\ rangeRequest \in [min : Times, sortBy : Sorts, start : {0}]
    /\ FirstRequest(rangeRequest)
    /\ table = Rendered(rangeRequest)
    /\ posts = {} /\ waiting = {} /\ loads = {}
    /\ clean = TRUE

NewTable ==
    /\ rangeRequest' \in [min : Times, sortBy : Sorts, start : {0}]
    /\ FirstRequest(rangeRequest')
    /\ table' = Rendered(rangeRequest')
    /\ posts' = {} /\ waiting' = {} /\ loads' = {}
    /\ clean' = TRUE

NextSort == [s \in Sorts |->
    CASE s = "descending" -> "ascending" [] s = "ascending" -> Null [] OTHER -> "descending"]

\* The page a button leads to is that of the table it is part of.
PageStart(c) ==
    LET start == table.of.start  available == Available[table.of.min] IN
    CASE c = "first"    -> 0
      [] c = "previous" -> IF start < PageLength THEN 0 ELSE start - PageLength
      [] c = "next"     -> start + PageLength
      [] c = "far"      -> start + 10 * PageLength
      [] c = "last"     -> available - PageLength

Enabled(c) ==
    c \in Pager =>
        /\ PageStart(c) \in 0..(Available[table.of.min] - 1)
        /\ PageStart(c) # table.of.start

\* What a control changes when its request is sent.
Mods(c) ==
    CASE c = "filter" -> {[min |-> ToTime(text)] : text \in Texts}
      [] c = "sort"   -> {[sortBy |-> NextSort[table.of.sortBy], start |-> 0]}
      [] c \in Pager  -> {[start |-> PageStart(c)]}

Busy(c) == \E p \in posts : p.from = c

Send(c, others) ==
    \E mod \in Mods(c) :
        /\ rangeRequest' = DeepMerge(rangeRequest, mod)
        /\ posts' = {[p EXCEPT !.newest = FALSE] : p \in others}
                    \cup {[body |-> rangeRequest', from |-> c, newest |-> TRUE]}
        /\ clean' = FALSE

UseControl(c) ==
    /\ Enabled(c)
    /\ IF Busy(c)
       THEN /\ waiting' = waiting \cup {c}
            /\ UNCHANGED <<rangeRequest, posts, clean>>
       ELSE /\ Cardinality(posts) < MaxPosts
            /\ Send(c, posts)
            /\ UNCHANGED waiting
    /\ UNCHANGED <<table, loads>>

\* A copy of the request with another start.
ScrollToEnd ==
    /\ table.loader # Null /\ ~table.loading
    /\ Cardinality(loads) < MaxLoads
    /\ table' = [table EXCEPT !.loading = TRUE]
    /\ loads' = loads \cup
          {[body |-> DeepMerge(rangeRequest, [start |-> table.loader]), live |-> TRUE]}
    /\ UNCHANGED <<rangeRequest, posts, waiting, clean>>

\* The new table has new controls and a new last row.
PostAnswered(p) ==
    /\ ~Refused(p.body)
    /\ table' = Rendered(p.body)
    /\ posts' = {[q EXCEPT !.from = Gone] : q \in posts \ {p}}
    /\ waiting' = {}
    /\ loads' = {[l EXCEPT !.live = FALSE] : l \in loads}
    /\ clean' = p.newest
    /\ UNCHANGED rangeRequest

\* The table stays. What waited for the answer is sent.
PostFailed(p) ==
    /\ IF p.from \in waiting
       THEN Send(p.from, posts \ {p})
       ELSE posts' = posts \ {p} /\ UNCHANGED <<rangeRequest, clean>>
    /\ waiting' = waiting \ {p.from}
    /\ UNCHANGED <<table, loads>>

\* Mutant: the rows are added to whatever table there is.
MutApplies(l) == TRUE
Applies(l) == l.live

LoadAnswered(l) ==
    /\ ~Refused(l.body)
    /\ loads' = loads \ {l}
    /\ table' = IF Applies(l)
                THEN [table EXCEPT !.rows = @ \o Rows(l.body),
                                   !.loader = NextStart(l.body), !.loading = FALSE]
                ELSE table
    /\ UNCHANGED <<rangeRequest, posts, waiting, clean>>

\* The last row asks only once.
LoadFailed(l) ==
    /\ loads' = loads \ {l}
    /\ UNCHANGED <<rangeRequest, table, posts, waiting, clean>>

TableNext ==
    \/ NewTable
    \/ \E c \in Controls : UseControl(c)
    \/ ScrollToEnd
    \/ \E p \in posts : PostAnswered(p) \/ PostFailed(p)
    \/ \E l \in loads : LoadAnswered(l) \/ LoadFailed(l)

TableSpec == TableInit /\ [][TableNext]_tableVars

-----------------------------------------------------------------------------
TableTypeOK ==
    /\ rangeRequest \in Request
    /\ table \in Table
    /\ posts \subseteq Post /\ loads \subseteq Load
    /\ waiting \subseteq Controls
    /\ clean \in BOOLEAN

(* Each row follows the one before it in the order of the beatmaps, and    *)
(* the last one asks for the rows after it.                                *)
WithoutGap ==
    /\ \A k \in DOMAIN table.rows : table.rows[k].at = table.of.start + k - 1
    /\ table.loader # Null => table.loader = table.of.start + Len(table.rows)

(* Whatever was changed, scrolled, overtaken and lost, no place in the     *)
(* order of the beatmaps is left out or shown twice.  From the answer to   *)
(* the last update until another update is sent or an older one answered,  *)
(* the table also is the one that the page's request asks for, without a   *)
(* row of another selection, and ends only where the beatmaps do.  An      *)
(* older update that is answered later, or the loss of the last one, ends  *)
(* this: the code compares no answer with the request, and what the table  *)
(* then shows is another selection until the next answer.                  *)
TableAsRequested ==
    /\ WithoutGap
    /\ clean =>
        /\ table.of = rangeRequest
        /\ \A k \in DOMAIN table.rows :
              table.rows[k] = RowOf(rangeRequest, rangeRequest.start + k - 1)
        /\ table.loader = Null =>
              rangeRequest.start + Len(table.rows) >= Available[rangeRequest.min]

(* The text that the server writes into the filter says the length that    *)
(* the rows were selected by, as the page reads it.                        *)
FilterReadBack ==
    table.of.min # Null => ToTime(FormatTime(table.of.min)) = table.of.min
=============================================================================
