------------------------------- MODULE MCPage --------------------------------
(***************************************************************************)
(* An instance of Page for TLC.  Two beatmaps, of which none is long       *)
(* enough for the filter, on pages of one; one text is too large a number  *)
(* for the server.                                                         *)
(***************************************************************************)
EXTENDS Page

Typed == {<<1, 30>>, <<99, 0>>}

\* Edges of the filter: 0:00, seconds below ten, above 59 and below zero, minutes
\* below zero, an empty part, a number without a colon, and a third part.
Edges == {<<0, 0>>, <<1, 5>>, <<0, 90>>, <<0, -90>>, <<-1, 30>>, <<NaN, 30>>,
          <<7>>, <<1, 0, 2>>}
AllTexts == Typed \cup Edges

Counts == [v \in Times |-> IF v = Null THEN 2 ELSE 0]

\* Bound: the edges are typed one at a time, into a table that is neither sorted
\* nor being extended.
Common == {Null} \cup {ToTime(text) : text \in Typed}
AtRest == rangeRequest.sortBy = Null /\ loads = {} /\ Cardinality(posts) <= 1
EdgesApart == {rangeRequest.min, table.of.min} \subseteq Common \/ AtRest

\* Bound: the settings are used while the table rests, the table while of the
\* dialogs only those of the table are used.
Focus ==
    \/ posts = {} /\ loads = {} /\ clean /\ rangeRequest.sortBy = Null
    \/ /\ page.ready /\ ~page.form /\ (Reachable \/ OnTop("edit"))
       /\ view.help = {} /\ view.filters /\ ~view.welcome
       /\ interval = NoTimer /\ request = [e \in Elements |-> "none"]

FocusSpec == PageInit /\ [][PageNext /\ Focus' /\ EdgesApart']_pageVars /\ Timely
=============================================================================
