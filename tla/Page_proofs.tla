----------------------------- MODULE Page_proofs ------------------------------
(***************************************************************************)
(* Proofs about BeatmapTable, for all texts, page lengths and numbers of   *)
(* beatmaps, and any number of requests under way; and that the page       *)
(* implements its two components, so that what is proved of each holds of  *)
(* the page: where they act together each still takes one of its own       *)
(* steps.                                                                  *)
(***************************************************************************)
EXTENDS Page, PageDialogs_proofs

(* Only the last row of the table can have a request that still counts, a  *)
(* single one, for the rows that follow.  When the last update was         *)
(* answered last, it also asks for the selection of the page.              *)
LoadsAsRequested ==
    \A l \in loads : l.live =>
        /\ table.loading
        /\ table.loader # Null
        /\ l.body.start = table.loader
        /\ clean => l.body = [rangeRequest EXCEPT !.start = table.loader]
        /\ \A q \in loads : q.live => q = l

(* The last update asks for what the page's request says.                  *)
NewestAsRequested ==
    \A p \in posts : p.newest => p.body = rangeRequest

(* The controls that wait were there to be used in the table there is.     *)
WaitingEnabled == \A c \in waiting : Enabled(c)

TableInv ==
    TableTypeOK /\ TableAsRequested /\ LoadsAsRequested /\ NewestAsRequested /\ WaitingEnabled

-----------------------------------------------------------------------------
(* Times, requests and rows.                                               *)

LEMMA TimesType == Times \subseteq Int \cup {Null}
<1> SUFFICES ASSUME NEW text \in Texts PROVE ToTime(text) \in Int \cup {Null}
  BY DEF Times
<1>1. text \in Seq(Int \cup {NaN}) /\ NaN \notin Int
  BY TableAssumption DEF Text
<1>2. CASE Len(text) < 2 \/ NaN \in {text[1], text[2]}
  BY <1>2 DEF ToTime
<1>3. CASE ~(Len(text) < 2 \/ NaN \in {text[1], text[2]})
  <2>1. Len(text) \in Nat /\ Len(text) >= 2
    BY <1>1, <1>3
  <2>2. text[1] \in Int /\ text[2] \in Int
    BY <1>1, <1>3, <2>1
  <2> QED BY <1>3, <2>2 DEF ToTime
<1> QED BY <1>2, <1>3

(* A time is read back from the page as the number that was written.       *)
LEMMA TimeReadBack ==
    ASSUME NEW v \in Int
    PROVE  ToTime(FormatTime(v)) = v
<1> DEFINE q == Quotient(v, 60)
<1>1. q \in Int
  BY DEF Quotient
<1> HIDE DEF q
<1>2. v # Null
  BY TableAssumption
<1>3. FormatTime(v) = <<q, v - 60 * q>>
  BY <1>2 DEF FormatTime, Remainder, q
<1>4. v - 60 * q \in Int /\ q * 60 + (v - 60 * q) = v
  BY <1>1
<1>5. ~(NaN \in {q, v - 60 * q})
  BY <1>1, <1>4, TableAssumption
<1> QED BY <1>3, <1>4, <1>5 DEF ToTime

LEMMA RequestFields ==
    ASSUME NEW r \in Request
    PROVE  /\ DOMAIN r = {"min", "sortBy", "start"}
           /\ r.min \in Times /\ r.sortBy \in Sorts /\ r.start \in Nat
BY DEF Request

(* The changes that there are leave a request well-formed.                 *)
LEMMA MergeStart ==
    ASSUME NEW r \in Request, NEW n \in Nat
    PROVE  /\ DeepMerge(r, [start |-> n]) = [r EXCEPT !.start = n]
           /\ DeepMerge(r, [start |-> n]) \in Request
<1>1. DOMAIN [start |-> n] = {"start"}
  OBVIOUS
<1>2. DeepMerge(r, [start |-> n]) = [r EXCEPT !.start = n]
  BY <1>1, RequestFields DEF DeepMerge, Request
<1> QED BY <1>2 DEF Request

LEMMA MergeMin ==
    ASSUME NEW r \in Request, NEW v \in Times
    PROVE  DeepMerge(r, [min |-> v]) \in Request
<1>1. DOMAIN [min |-> v] = {"min"}
  OBVIOUS
<1>2. DeepMerge(r, [min |-> v]) = [r EXCEPT !.min = v]
  BY <1>1, RequestFields DEF DeepMerge, Request
<1> QED BY <1>2 DEF Request

LEMMA MergeSort ==
    ASSUME NEW r \in Request, NEW v \in Sorts
    PROVE  DeepMerge(r, [sortBy |-> v, start |-> 0]) \in Request
<1> DEFINE m == [sortBy |-> v, start |-> 0]
<1>1. DOMAIN m = {"sortBy", "start"}
  OBVIOUS
<1>2. DeepMerge(r, m) = [key \in {"min", "sortBy", "start"} |->
                           IF key \in {"sortBy", "start"} THEN m[key] ELSE r[key]]
  BY <1>1, RequestFields DEF DeepMerge
<1>3. DeepMerge(r, m) = [min |-> r.min, sortBy |-> v, start |-> 0]
  BY <1>2
<1> QED BY <1>3, RequestFields DEF Request

LEMMA AvailableType == \A r \in Request : Available[r.min] \in Nat
BY TableAssumption DEF Request

(* What the server answers: the rows from the start that was asked for.    *)
LEMMA RowsType ==
    ASSUME NEW r \in Request
    PROVE  /\ Rows(r) \in Seq(Row) /\ Len(Rows(r)) = NumRows(r)
           /\ \A k \in 1..NumRows(r) : Rows(r)[k] = RowOf(r, r.start + k - 1)
           /\ NumRows(r) \in Nat
           /\ NextStart(r) # Null =>
                 NextStart(r) \in Nat /\ NextStart(r) = r.start + NumRows(r)
           /\ NextStart(r) = Null => r.start + NumRows(r) >= Available[r.min]
<1>1. /\ r.start \in Nat /\ r.min \in Times /\ r.sortBy \in Sorts
      /\ Available[r.min] \in Nat /\ PageLength \in Nat \ {0} /\ Null \notin Nat
  BY AvailableType, TableAssumption DEF Request
<1>2. /\ NumRows(r) \in Nat
      /\ NextStart(r) # Null =>
            NextStart(r) \in Nat /\ NextStart(r) = r.start + NumRows(r)
      /\ NextStart(r) = Null => r.start + NumRows(r) >= Available[r.min]
  BY <1>1 DEF NumRows, NextStart
<1>3. \A k \in 1..NumRows(r) : RowOf(r, r.start + k - 1) \in Row
  BY <1>1, <1>2 DEF RowOf, Row
<1> QED BY <1>2, <1>3 DEF Rows

LEMMA RenderedType ==
    ASSUME NEW r \in Request
    PROVE  /\ Rendered(r) \in Table
           /\ Rendered(r).of = r /\ ~Rendered(r).loading
           /\ \A k \in DOMAIN Rendered(r).rows :
                 Rendered(r).rows[k] = RowOf(r, r.start + k - 1)
           /\ LET end == r.start + Len(Rendered(r).rows) IN
              IF Rendered(r).loader = Null THEN end >= Available[r.min]
                                           ELSE Rendered(r).loader = end
<1>1. NextStart(r) \in Nat \cup {Null} /\ DOMAIN Rows(r) = 1..NumRows(r)
  BY RowsType
<1> QED BY <1>1, RowsType DEF Rendered, Table

(* A control changes a request into one that is well-formed.               *)
LEMMA ModsType ==
    ASSUME TableTypeOK, NEW c \in Controls, Enabled(c), NEW mod \in Mods(c)
    PROVE  DeepMerge(rangeRequest, mod) \in Request
<1>1. rangeRequest \in Request /\ table.of \in Request
  BY DEF TableTypeOK, Table
<1>2. CASE c = "filter"
  <2>1. PICK text \in Texts : mod = [min |-> ToTime(text)]
    BY <1>2 DEF Mods, Pager
  <2>2. ToTime(text) \in Times
    BY DEF Times
  <2>3. DeepMerge(rangeRequest, [min |-> ToTime(text)]) \in Request
    BY <1>1, <2>2, MergeMin
  <2> QED BY <2>1, <2>3
<1>3. CASE c = "sort"
  <2> DEFINE v == NextSort[table.of.sortBy]
  <2>1. v \in Sorts
    BY <1>1 DEF NextSort, Sorts, Request
  <2>2. mod = [sortBy |-> v, start |-> 0]
    BY <1>3 DEF Mods, Pager
  <2> HIDE DEF v
  <2>3. DeepMerge(rangeRequest, [sortBy |-> v, start |-> 0]) \in Request
    BY <1>1, <2>1, MergeSort
  <2> QED BY <2>2, <2>3
<1>4. CASE c \in Pager
  <2> DEFINE n == PageStart(c)
  <2>1. mod = [start |-> n]
    BY <1>4 DEF Mods, Pager
  <2>2. n \in Nat
    <3>1. n \in 0..(Available[table.of.min] - 1)
      BY <1>4 DEF Enabled
    <3> QED BY <3>1, <1>1, AvailableType
  <2> HIDE DEF n
  <2>3. DeepMerge(rangeRequest, [start |-> n]) \in Request
    BY <1>1, <2>2, MergeStart
  <2> QED BY <2>1, <2>3
<1> QED BY <1>2, <1>3, <1>4 DEF Controls

-----------------------------------------------------------------------------
(* Types.                                                                  *)

LEMMA SendType ==
    ASSUME TableTypeOK, NEW c \in Controls, Enabled(c),
           NEW others, others \subseteq posts, Send(c, others)
    PROVE  rangeRequest' \in Request /\ posts' \subseteq Post /\ clean' \in BOOLEAN
<1>1. rangeRequest' \in Request /\ clean' = FALSE
  BY ModsType DEF Send
<1>2. \A p \in others : p \in Post
  BY DEF TableTypeOK
<1>3. \A p \in others : [p EXCEPT !.newest = FALSE] \in Post
  BY <1>2 DEF Post
<1>4. [body |-> rangeRequest', from |-> c, newest |-> TRUE] \in Post
  BY <1>1 DEF Post
<1> QED BY <1>1, <1>3, <1>4 DEF Send

LEMMA EnabledStays ==
    ASSUME TableTypeOK, table'.of = table.of, NEW c \in Controls, Enabled(c)
    PROVE  Enabled(c)'
BY DEF Enabled, PageStart

LEMMA TableTypeInit == TableInit => TableTypeOK /\ WaitingEnabled
<1> SUFFICES ASSUME TableInit PROVE TableTypeOK /\ WaitingEnabled
  OBVIOUS
<1>1. rangeRequest \in Request
  BY DEF TableInit, Request
<1> QED BY <1>1, RenderedType DEF TableInit, TableTypeOK, WaitingEnabled

LEMMA TableTypeNext ==
    ASSUME TableTypeOK, WaitingEnabled, TableNext
    PROVE  TableTypeOK' /\ WaitingEnabled'
<1>1. /\ rangeRequest \in Request /\ table \in Table /\ clean \in BOOLEAN
      /\ \A p \in posts : p \in Post
      /\ \A l \in loads : l \in Load
      /\ waiting \subseteq Controls
  BY DEF TableTypeOK
<1>2. CASE NewTable
  <2>1. rangeRequest' \in Request
    BY <1>2 DEF NewTable, Request
  <2> QED BY <1>2, <2>1, RenderedType DEF NewTable, TableTypeOK, WaitingEnabled
<1>3. ASSUME NEW c \in Controls, UseControl(c) PROVE TableTypeOK' /\ WaitingEnabled'
  <2>1. Enabled(c) /\ UNCHANGED <<table, loads>>
    BY <1>3 DEF UseControl
  <2>2. \A d \in waiting \cup {c} : Enabled(d)'
    BY <1>1, <2>1, EnabledStays DEF WaitingEnabled
  <2>3. waiting' \subseteq waiting \cup {c}
    BY <1>3 DEF UseControl
  <2>4. rangeRequest' \in Request /\ posts' \subseteq Post /\ clean' \in BOOLEAN
    <3>1. CASE Busy(c)
      BY <1>3, <3>1 DEF UseControl, TableTypeOK
    <3>2. CASE ~Busy(c)
      BY <1>3, <3>2, <2>1, SendType DEF UseControl
    <3> QED BY <3>1, <3>2
  <2> QED BY <1>1, <2>1, <2>2, <2>3, <2>4 DEF TableTypeOK, WaitingEnabled
<1>4. CASE ScrollToEnd
  <2>1. table.loader \in Nat
    BY <1>1, <1>4 DEF ScrollToEnd, Table
  <2>2. table' \in Table /\ table'.of = table.of
    BY <1>1, <1>4 DEF ScrollToEnd, Table
  <2>3. DeepMerge(rangeRequest, [start |-> table.loader]) \in Request
    BY <1>1, <2>1, MergeStart
  <2>4. loads' \subseteq Load
    <3> DEFINE more == DeepMerge(rangeRequest, [start |-> table.loader])
    <3>1. loads' = loads \cup {[body |-> more, live |-> TRUE]}
      BY <1>4 DEF ScrollToEnd
    <3>2. [body |-> more, live |-> TRUE] \in Load
      BY <2>3 DEF Load
    <3> QED BY <1>1, <3>1, <3>2
  <2>5. UNCHANGED <<rangeRequest, posts, waiting, clean>>
    BY <1>4 DEF ScrollToEnd
  <2> QED BY <1>1, <2>2, <2>4, <2>5, EnabledStays DEF TableTypeOK, WaitingEnabled
<1>5. ASSUME NEW p \in posts, PostAnswered(p) PROVE TableTypeOK' /\ WaitingEnabled'
  <2>1. p.body \in Request /\ p.newest \in BOOLEAN
    BY <1>1 DEF Post
  <2>2. table' \in Table
    BY <1>5, <2>1, RenderedType DEF PostAnswered
  <2>3. \A q \in posts : [q EXCEPT !.from = Gone] \in Post
    BY <1>1 DEF Post
  <2>4. \A l \in loads : [l EXCEPT !.live = FALSE] \in Load
    BY <1>1 DEF Load
  <2> QED BY <1>1, <1>5, <2>1, <2>2, <2>3, <2>4 DEF PostAnswered, TableTypeOK, WaitingEnabled
<1>6. ASSUME NEW p \in posts, PostFailed(p) PROVE TableTypeOK' /\ WaitingEnabled'
  <2>1. UNCHANGED <<table, loads>> /\ waiting' = waiting \ {p.from}
    BY <1>6 DEF PostFailed
  <2>2. rangeRequest' \in Request /\ posts' \subseteq Post /\ clean' \in BOOLEAN
    <3>1. CASE p.from \in waiting
      <4>1. p.from \in Controls /\ Enabled(p.from) /\ Send(p.from, posts \ {p})
        BY <1>1, <1>6, <3>1 DEF PostFailed, WaitingEnabled
      <4> QED BY <4>1, SendType
    <3>2. CASE p.from \notin waiting
      BY <1>1, <1>6, <3>2 DEF PostFailed
    <3> QED BY <3>1, <3>2
  <2> QED BY <1>1, <2>1, <2>2, EnabledStays DEF TableTypeOK, WaitingEnabled
<1>7. ASSUME NEW l \in loads, LoadAnswered(l) PROVE TableTypeOK' /\ WaitingEnabled'
  <2>1. l.body \in Request
    BY <1>1 DEF Load
  <2>2. /\ table.rows \in Seq(Row) /\ Rows(l.body) \in Seq(Row)
        /\ NextStart(l.body) \in Nat \cup {Null}
    BY <1>1, <2>1, RowsType DEF Table
  <2>3. table.rows \o Rows(l.body) \in Seq(Row)
    BY <2>2
  <2>4. table' \in Table /\ table'.of = table.of
    BY <1>1, <1>7, <2>2, <2>3 DEF LoadAnswered, Table
  <2>5. loads' \subseteq loads /\ UNCHANGED <<rangeRequest, posts, waiting, clean>>
    BY <1>7 DEF LoadAnswered
  <2> QED BY <1>1, <2>4, <2>5, EnabledStays DEF TableTypeOK, WaitingEnabled
<1>8. ASSUME NEW l \in loads, LoadFailed(l) PROVE TableTypeOK' /\ WaitingEnabled'
  BY <1>1, <1>8, EnabledStays DEF LoadFailed, TableTypeOK, WaitingEnabled
<1> QED BY <1>2, <1>3, <1>4, <1>5, <1>6, <1>7, <1>8 DEF TableNext

-----------------------------------------------------------------------------
(* The table and the request.                                              *)

(* What the invariant says of a table that was just rendered.              *)
LEMMA FreshTable ==
    ASSUME NEW r \in Request
    PROVE  /\ Rendered(r).of = r
           /\ \A k \in DOMAIN Rendered(r).rows :
                 /\ Rendered(r).rows[k] = RowOf(r, r.start + k - 1)
                 /\ Rendered(r).rows[k].at = r.start + k - 1
           /\ Rendered(r).loader # Null => Rendered(r).loader = r.start + Len(Rendered(r).rows)
           /\ Rendered(r).loader = Null => r.start + Len(Rendered(r).rows) >= Available[r.min]
<1>1. \A n \in Int : RowOf(r, n).at = n
  BY DEF RowOf
<1>2. \A k \in DOMAIN Rendered(r).rows : k \in Int
  BY RowsType DEF Rendered, Rows
<1>3. r.start \in Nat
  BY DEF Request
<1> QED BY <1>1, <1>2, <1>3, RenderedType

(* After an update, or the loss of one, what is said of the page's         *)
(* selection is void; the table and its last row stay.                     *)
LEMMA TableRests ==
    ASSUME TableAsRequested, LoadsAsRequested, UNCHANGED <<table, loads>>,
           ~clean' \/ UNCHANGED <<rangeRequest, clean>>
    PROVE  TableAsRequested' /\ LoadsAsRequested'
<1>1. WithoutGap'
  BY DEF TableAsRequested, WithoutGap
<1>2. CASE ~clean'
  BY <1>1, <1>2 DEF TableAsRequested, LoadsAsRequested
<1>3. CASE UNCHANGED <<rangeRequest, clean>>
  BY <1>1, <1>3 DEF TableAsRequested, LoadsAsRequested
<1> QED BY <1>2, <1>3

LEMMA TableInitInv == TableInit => TableInv
<1> SUFFICES ASSUME TableInit PROVE TableInv
  OBVIOUS
<1>1. TableTypeOK /\ WaitingEnabled /\ rangeRequest \in Request
  BY TableTypeInit DEF TableTypeOK
<1>2. TableAsRequested
  BY <1>1, FreshTable DEF TableInit, TableAsRequested, WithoutGap
<1> QED BY <1>1, <1>2 DEF TableInit, TableInv, LoadsAsRequested, NewestAsRequested

(* After an update only what it asks for counts.                           *)
LEMMA SendRequested ==
    ASSUME NEW c, NEW others, others \subseteq Post, Send(c, others)
    PROVE  ~clean' /\ NewestAsRequested'
<1>1. /\ ~clean'
      /\ posts' = {[p EXCEPT !.newest = FALSE] : p \in others}
                  \cup {[body |-> rangeRequest', from |-> c, newest |-> TRUE]}
  BY DEF Send
<1>2. \A p \in others : [p EXCEPT !.newest = FALSE].newest = FALSE
  BY DEF Post
<1>3. ASSUME NEW p \in posts', p.newest PROVE p.body = rangeRequest'
  <2>1. CASE p = [body |-> rangeRequest', from |-> c, newest |-> TRUE]
    BY <2>1
  <2>2. CASE \E q \in others : p = [q EXCEPT !.newest = FALSE]
    BY <1>2, <1>3, <2>2
  <2> QED BY <1>1, <1>3, <2>1, <2>2
<1> QED BY <1>1, <1>3 DEF NewestAsRequested

LEMMA TableNextInv == TableInv /\ [TableNext]_tableVars => TableInv'
<1> SUFFICES ASSUME TableInv, [TableNext]_tableVars PROVE TableInv'
  OBVIOUS
<1>1. CASE UNCHANGED tableVars
  <2>1. \A c \in waiting : Enabled(c)'
    BY <1>1 DEF TableInv, WaitingEnabled, Enabled, PageStart, tableVars
  <2> QED BY <1>1, <2>1
    DEF TableInv, TableTypeOK, TableAsRequested, WithoutGap, LoadsAsRequested,
        NewestAsRequested, WaitingEnabled, tableVars
<1>2. ASSUME TableNext
      PROVE  TableAsRequested' /\ LoadsAsRequested' /\ NewestAsRequested'
  <2> USE DEF LoadsAsRequested, NewestAsRequested
  <2>1. /\ TableAsRequested /\ LoadsAsRequested /\ NewestAsRequested
        /\ rangeRequest \in Request /\ table \in Table
        /\ posts \subseteq Post /\ loads \subseteq Load
    BY DEF TableInv, TableTypeOK
  <2>3. CASE NewTable
    <3>1. rangeRequest' \in Request
      BY <2>3 DEF NewTable, Request
    <3>2. TableAsRequested'
      BY <2>3, <3>1, FreshTable DEF NewTable, TableAsRequested, WithoutGap
    <3> QED BY <2>3, <3>2 DEF NewTable
  <2>4. ASSUME NEW c \in Controls, UseControl(c)
        PROVE  TableAsRequested' /\ LoadsAsRequested' /\ NewestAsRequested'
    <3>1. CASE Busy(c)
      BY <2>1, <2>4, <3>1, TableRests DEF UseControl
    <3>2. CASE ~Busy(c)
      <4>1. Send(c, posts)
        BY <2>4, <3>2 DEF UseControl
      <4>2. UNCHANGED <<table, loads>>
        BY <2>4 DEF UseControl
      <4> QED BY <2>1, <4>1, <4>2, SendRequested, TableRests
    <3> QED BY <3>1, <3>2
  <2>5. CASE ScrollToEnd
    <3> DEFINE more == DeepMerge(rangeRequest, [start |-> table.loader])
    <3>1. /\ table.loader \in Nat /\ table.loader # Null /\ ~table.loading
          /\ table' = [table EXCEPT !.loading = TRUE]
          /\ loads' = loads \cup {[body |-> more, live |-> TRUE]}
          /\ UNCHANGED <<rangeRequest, posts, waiting, clean>>
      BY <2>1, <2>5 DEF ScrollToEnd, Table
    <3>2. more = [rangeRequest EXCEPT !.start = table.loader]
      BY <2>1, <3>1, MergeStart
    <3>3. /\ table'.of = table.of /\ table'.rows = table.rows
          /\ table'.loader = table.loader /\ table'.loading
      BY <2>1, <3>1 DEF Table
    <3> HIDE DEF more
    <3>4. TableAsRequested'
      BY <2>1, <3>1, <3>3 DEF TableAsRequested, WithoutGap
    <3>5. LoadsAsRequested'
      <4>1. \A l \in loads' : l.live => l = [body |-> more, live |-> TRUE]
        BY <2>1, <3>1
      <4>2. more.start = table.loader
        BY <2>1, <3>2 DEF Request
      <4>3. clean' => more = [rangeRequest' EXCEPT !.start = table'.loader]
        BY <3>1, <3>2, <3>3
      <4>4. [body |-> more, live |-> TRUE].body = more
        OBVIOUS
      <4> SUFFICES ASSUME NEW l \in loads', l.live
                   PROVE  /\ l.body.start = table.loader
                          /\ clean' => l.body = [rangeRequest' EXCEPT !.start = table'.loader]
                          /\ \A q \in loads' : q.live => q = l
        BY <3>1, <3>3
      <4>5. l.body = more
        BY <4>1, <4>4
      <4> QED BY <4>1, <4>2, <4>3, <4>5
    <3> QED BY <2>1, <3>1, <3>4, <3>5
  <2>6. ASSUME NEW p \in posts, PostAnswered(p)
        PROVE  TableAsRequested' /\ LoadsAsRequested' /\ NewestAsRequested'
    <3>1. /\ table' = Rendered(p.body) /\ clean' = p.newest
          /\ posts' = {[q EXCEPT !.from = Gone] : q \in posts \ {p}}
          /\ loads' = {[l EXCEPT !.live = FALSE] : l \in loads}
          /\ rangeRequest' = rangeRequest
      BY <2>6 DEF PostAnswered
    <3>2. p.newest => p.body = rangeRequest
      BY <2>1
    <3>3. TableAsRequested'
      <4>1. p.body \in Request
        BY <2>1 DEF Post
      <4>2. WithoutGap'
        BY <3>1, <4>1, FreshTable DEF WithoutGap
      <4>3. ~p.newest => TableAsRequested'
        BY <3>1, <4>2 DEF TableAsRequested
      <4>4. p.newest => TableAsRequested'
        BY <3>1, <3>2, <4>1, <4>2, FreshTable DEF TableAsRequested
      <4> QED BY <4>3, <4>4
    <3>4. \A l \in loads' : ~l.live
      BY <2>1, <3>1 DEF Load
    <3>5. \A q \in posts' : q.newest => q.body = rangeRequest'
      <4> SUFFICES ASSUME NEW s \in posts', s.newest
                   PROVE  s.body = rangeRequest
        BY <3>1
      <4>1. PICK q \in posts : s = [q EXCEPT !.from = Gone]
        BY <3>1
      <4>2. q \in Post
        BY <2>1
      <4>3. s.newest = q.newest /\ s.body = q.body
        BY <4>1, <4>2 DEF Post
      <4> QED BY <2>1, <4>3
    <3> QED BY <3>3, <3>4, <3>5
  <2>7. ASSUME NEW p \in posts, PostFailed(p)
        PROVE  TableAsRequested' /\ LoadsAsRequested' /\ NewestAsRequested'
    <3>1. UNCHANGED <<table, loads>>
      BY <2>7 DEF PostFailed
    <3>2. CASE p.from \in waiting
      <4>1. Send(p.from, posts \ {p})
        BY <2>7, <3>2 DEF PostFailed
      <4> QED BY <2>1, <3>1, <4>1, SendRequested, TableRests
    <3>3. CASE p.from \notin waiting
      <4>1. posts' = posts \ {p} /\ UNCHANGED <<rangeRequest, clean>>
        BY <2>7, <3>3 DEF PostFailed
      <4> QED BY <2>1, <3>1, <4>1, TableRests
    <3> QED BY <3>2, <3>3
  <2>8. ASSUME NEW l \in loads, LoadAnswered(l)
        PROVE  TableAsRequested' /\ LoadsAsRequested' /\ NewestAsRequested'
    <3>1. /\ loads' = loads \ {l} /\ UNCHANGED <<rangeRequest, posts, waiting, clean>>
          /\ table' = IF l.live
                      THEN [table EXCEPT !.rows = table.rows \o Rows(l.body),
                                   !.loader = NextStart(l.body), !.loading = FALSE]
                      ELSE table
      BY <2>8 DEF LoadAnswered, Applies
    <3>2. CASE ~l.live
      BY <2>1, <3>1, <3>2 DEF TableAsRequested, WithoutGap
    <3>3. CASE l.live
      <4> DEFINE n == Len(table.rows)  m == NumRows(l.body)
      <4>1. /\ l.body.start = table.loader /\ table.loader = table.of.start + n
            /\ \A k \in DOMAIN table.rows : table.rows[k].at = table.of.start + k - 1
            /\ table.loader # Null
        BY <2>1, <3>3 DEF TableAsRequested, WithoutGap
      <4>2. /\ l.body \in Request /\ table.of \in Request /\ table.rows \in Seq(Row)
            /\ table.of.start \in Nat /\ n \in Nat
        BY <2>1 DEF Load, Table, Request
      <4>3. /\ Rows(l.body) \in Seq(Row) /\ Len(Rows(l.body)) = m /\ m \in Nat
            /\ \A k \in 1..m : Rows(l.body)[k] = RowOf(l.body, l.body.start + k - 1)
            /\ NextStart(l.body) # Null => NextStart(l.body) = l.body.start + m
            /\ NextStart(l.body) = Null => l.body.start + m >= Available[l.body.min]
        BY <4>2, RowsType
      <4>4. /\ table'.of = table.of /\ table'.rows = table.rows \o Rows(l.body)
            /\ table'.loader = NextStart(l.body) /\ ~table'.loading
        BY <2>1, <3>1, <3>3 DEF Table
      <4> HIDE DEF m, n
      <4>5. Len(table'.rows) = n + m /\ DOMAIN table'.rows = 1..(n + m)
        <5>1. \A x, y \in Seq(Row) :
                 Len(x \o y) = Len(x) + Len(y) /\ DOMAIN (x \o y) = 1..(Len(x) + Len(y))
          OBVIOUS
        <5> QED BY <5>1, <4>2, <4>3, <4>4 DEF n
      <4>6. \A k \in DOMAIN table.rows : k \in 1..n /\ table'.rows[k] = table.rows[k]
        <5>1. \A x, y \in Seq(Row) : \A k \in DOMAIN x :
                 k \in 1..Len(x) /\ (x \o y)[k] = x[k]
          OBVIOUS
        <5> QED BY <5>1, <4>2, <4>3, <4>4 DEF n
      <4>7. ASSUME NEW k \in DOMAIN table'.rows, k \notin DOMAIN table.rows
            PROVE  table'.rows[k] = RowOf(l.body, table.of.start + k - 1)
        <5>1. k \in Nat /\ k > n /\ k - n \in 1..m
          BY <4>2, <4>3, <4>5, <4>7 DEF n
        <5>2. \A x, y \in Seq(Row) : \A j \in 1..Len(y) : (x \o y)[Len(x) + j] = y[j]
          OBVIOUS
        <5>3. table'.rows[n + (k - n)] = Rows(l.body)[k - n]
          BY <4>2, <4>3, <4>4, <5>1, <5>2 DEF n
        <5>4. n + (k - n) = k /\ l.body.start + (k - n) - 1 = table.of.start + k - 1
          <6>1. l.body.start = table.of.start + n /\ table.of.start \in Nat /\ n \in Nat
            BY <4>1, <4>2
          <6>2. \A a, b, c \in Int : b + (c - b) = c /\ (a + b) + (c - b) - 1 = a + c - 1
            OBVIOUS
          <6> QED BY <5>1, <6>1, <6>2
        <5> QED BY <4>3, <5>1, <5>3, <5>4
      <4>8. WithoutGap'
        <5>1. ASSUME NEW k \in DOMAIN table'.rows
              PROVE  table'.rows[k].at = table.of.start + k - 1
          <6>1. RowOf(l.body, table.of.start + k - 1).at = table.of.start + k - 1
            BY DEF RowOf
          <6> QED BY <4>1, <4>6, <4>7, <5>1, <6>1
        <5>2. table'.loader # Null => table'.loader = table.of.start + (n + m)
          BY <4>1, <4>2, <4>3, <4>4
        <5> QED BY <4>4, <4>5, <5>1, <5>2 DEF WithoutGap
      <4>9. LoadsAsRequested'
        <5>1. \A q \in loads' : ~q.live
          <6>1. \A q \in loads : q.live => q = l
            BY <2>1, <3>3
          <6> QED BY <3>1, <6>1
        <5> QED BY <5>1
      <4>10. CASE ~clean
        BY <2>1, <3>1, <4>8, <4>9, <4>10 DEF TableAsRequested
      <4>11. CASE clean
        <5> DEFINE r == rangeRequest
        <5>1. /\ l.body = [r EXCEPT !.start = table.loader] /\ table.of = r
              /\ \A k \in DOMAIN table.rows : table.rows[k] = RowOf(r, r.start + k - 1)
          BY <2>1, <3>3, <4>11 DEF TableAsRequested
        <5>2. l.body.min = r.min /\ l.body.sortBy = r.sortBy
          BY <2>1, <5>1 DEF Request
        <5>3. \A i \in Int : RowOf(l.body, i) = RowOf(r, i)
          BY <5>2 DEF RowOf
        <5>4. ASSUME NEW k \in DOMAIN table'.rows
              PROVE  table'.rows[k] = RowOf(r, r.start + k - 1)
          <6>1. r.start + k - 1 \in Int
            BY <4>2, <4>3, <4>5, <5>1
          <6> QED BY <4>6, <4>7, <5>1, <5>3, <6>1
        <5>5. table'.loader = Null => r.start + (n + m) >= Available[r.min]
          BY <4>1, <4>2, <4>3, <4>4, <5>1, <5>2
        <5> QED BY <2>1, <3>1, <4>4, <4>5, <4>8, <4>9, <5>1, <5>4, <5>5 DEF TableAsRequested
      <4> QED BY <4>10, <4>11
    <3> QED BY <3>2, <3>3
  <2>9. ASSUME NEW l \in loads, LoadFailed(l)
        PROVE  TableAsRequested' /\ LoadsAsRequested' /\ NewestAsRequested'
    BY <2>1, <2>9 DEF LoadFailed, TableAsRequested, WithoutGap
  <2> QED BY <1>2, <2>3, <2>4, <2>5, <2>6, <2>7, <2>8, <2>9 DEF TableNext
<1> QED BY <1>1, <1>2, TableTypeNext DEF TableInv

LEMMA TableInvariant == TableSpec => []TableInv
<1> QED BY TableInitInv, TableNextInv, PTL DEF TableSpec

(* The requests, the table and what is under way keep their types.         *)
THEOREM TableTypes == TableSpec => []TableTypeOK
<1>1. TableInv => TableTypeOK
  BY DEF TableInv
<1> QED BY <1>1, TableInvariant, PTL

(* Whatever is lost, late or overtaken, no place in the order of the       *)
(* beatmaps is left out or shown twice, and the last update under way asks *)
(* for all that the page's request says: when it is answered, the table    *)
(* shows just that, however far it is scrolled, until another update is    *)
(* sent or an older one answered.                                          *)
THEOREM TableFollowsRequest == TableSpec => [](TableAsRequested /\ NewestAsRequested)
<1>1. TableInv => TableAsRequested /\ NewestAsRequested
  BY DEF TableInv
<1> QED BY <1>1, TableInvariant, PTL

(* The filter that the user sees is the one the rows were selected by, for *)
(* every text that can be typed.                                           *)
THEOREM FilterShown == TableSpec => []FilterReadBack
<1>1. TableTypeOK => FilterReadBack
  <2> SUFFICES ASSUME TableTypeOK, table.of.min # Null
               PROVE  ToTime(FormatTime(table.of.min)) = table.of.min
    BY DEF FilterReadBack
  <2>1. table.of.min \in Int
    BY TimesType DEF TableTypeOK, Table, Request
  <2> QED BY <2>1, TimeReadBack
<1> QED BY <1>1, TableTypes, PTL

-----------------------------------------------------------------------------
(* The page.                                                               *)

(* Every step of the page is one of the dialogs or leaves them alone, and  *)
(* one of the table or leaves it alone.                                    *)
LEMMA PageStep ==
    ASSUME [PageNext]_pageVars
    PROVE  [DialogsNext]_dialogVars /\ [TableNext]_tableVars
<1>1. CASE FirstTable
  BY <1>1 DEF FirstTable, DialogsNext, Server
<1>2. CASE NextTable
  BY <1>2 DEF NextTable, DialogsNext, Server, TableNext
<1>3. CASE UseTable
  BY <1>3 DEF UseTable, DialogsNext, User, TableNext, Controls
<1>4. CASE TableAlone
  BY <1>4 DEF TableAlone, TableNext
<1>5. CASE Leave
  BY <1>5 DEF Leave, DialogsNext, User, Browser, TableNext
<1>6. CASE DialogsAlone
  BY <1>6 DEF DialogsAlone, DialogsNext, User, Server, Browser
<1>7. CASE UNCHANGED pageVars
  BY <1>7 DEF pageVars
<1> QED BY <1>1, <1>2, <1>3, <1>4, <1>5, <1>6, <1>7 DEF PageNext

(* A page is a system of dialogs and a table.                              *)
THEOREM PageImplements == PageSpec => DialogsSpec /\ TableSpec
<1>1. PageInit => DialogsInit /\ TableInit
  BY DEF PageInit
<1>2. [PageNext]_pageVars => [DialogsNext]_dialogVars /\ [TableNext]_tableVars
  BY PageStep
<1> QED BY <1>1, <1>2, PTL DEF PageSpec, DialogsSpec, TableSpec

(* The invariants of both hold on the page as a whole.                     *)
THEOREM PageInvariants ==
    PageSpec => /\ [](DialogsTypeOK /\ TableTypeOK)
                /\ [](FiltersRestored /\ OneCountdown /\ DialogsNested)
                /\ [](TableAsRequested /\ FilterReadBack)
                /\ HelpKeepsSettings
BY PageImplements, DialogsTypes, TableTypes, HelpRestoresFilters, CountdownAlone,
   DialogsNest, TableFollowsRequest, FilterShown, HelpDismissed, PTL
=============================================================================
