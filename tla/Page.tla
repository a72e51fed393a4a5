-------------------------------- MODULE Page ---------------------------------
(***************************************************************************)
(* The page as a whole: dialogs and table, which meet in four places.  The *)
(* answer to an update of the table takes the dialogs of the table away, a *)
(* button of the table can only be clicked when no modal dialog is open    *)
(* and dismisses help like any click on the page, there is no table before *)
(* the first answer of the server, and a reload starts both anew.          *)
(***************************************************************************)
EXTENDS PageDialogs, BeatmapTable

pageVars == <<dialogVars, tableVars>>

PageInit == DialogsInit /\ TableInit

FirstTable == ~page.table /\ TableAnswered /\ UNCHANGED tableVars

NextTable == page.table /\ TableAnswered /\ \E p \in posts : PostAnswered(p)

\* A field also changes when it loses the focus to a dialog that opens.
UseTable ==
    /\ page.table
    /\ \/ /\ view.filters
          /\ UseControl("filter")
          /\ UNCHANGED dialogVars
       \/ /\ \E c \in Controls : UseControl(c)
          /\ ClickPage

TableAlone ==
    /\ page.table
    /\ \/ ScrollToEnd
       \/ \E p \in posts : PostFailed(p)
       \/ \E l \in loads : LoadAnswered(l) \/ LoadFailed(l)
    /\ UNCHANGED dialogVars

Leave ==
    /\ Reload \/ \E i \in Timers : CountdownOver(i) /\ Tick(i)
    /\ NewTable

DialogsAlone ==
    /\ \/ ShowHelp \/ ClickPage \/ ClickInside \/ ClickBackdrop \/ Escape
       \/ \E shown \in BOOLEAN : ToggleFilters(shown)
       \/ \E d \in TableDialogs : OpenFromTable(d)
       \/ OpenApiKey \/ SaveComment \/ CommentAnswered
       \/ ClickSettings \/ Save
       \/ \E ok \in BOOLEAN : SettingsAnswered(ok) \/ SaveAnswered(ok)
       \/ ShowWelcomeIfNeeded
       \/ \E i \in Timers : ~CountdownOver(i) /\ Tick(i)
    /\ UNCHANGED tableVars

PageNext == FirstTable \/ NextTable \/ UseTable \/ TableAlone \/ Leave \/ DialogsAlone

PageSpec == PageInit /\ [][PageNext]_pageVars
=============================================================================
