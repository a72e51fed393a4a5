----------------------------- MODULE PageDialogs -----------------------------
(***************************************************************************)
(* The dialogs, the help and the reload countdown of the ppaddict page     *)
(* (code.js) for a user who is logged in.  Scripts run to completion: an   *)
(* action is one event with all the handlers that it reaches on its way    *)
(* through the page.  Events are what the user does, answers of the        *)
(* server, which htmx puts into the page, and the browser's timers.        *)
(*                                                                         *)
(* Modal dialogs make everything outside the last one opened inert.  An    *)
(* element that issues a request while its last one is under way queues    *)
(* one request (htmx).  When an element is replaced, its requests no       *)
(* longer reach a handler.                                                 *)
(***************************************************************************)
EXTENDS Integers, SequencesExt

CONSTANTS
    Seconds,  \* the length of the countdown, 5 in the code
    Timers,   \* names of the browser's intervals
    NoTimer

ASSUME DialogsAssumption == Seconds \in Nat \ {0} /\ NoTimer \notin Timers

VARIABLES
    page,       \* has onload run, is the table there, is there a settings form
    cookie,     \* welcomeDisplayed is WELCOME_VERSION
    modals,     \* the modal dialogs that are open, the last one on top
    view,       \* popups by container, filter row, welcome dialog
    interval,   \* _countdownInterval
    remaining,  \* of each interval of the browser; 0 if it does not run
    request,    \* the requests of the settings button, its form, the edit form
    chosen      \* history: the filter row as the user last wanted it

dialogVars == <<page, cookie, modals, view, interval, remaining, request, chosen>>

TableDialogs == {"edit", "more"}
Dialogs == TableDialogs \cup {"settings", "apikey"}
Containers == {"body", "settings"}
Elements == {"settings", "form", "edit"}
View == [help : SUBSET Containers, filters : BOOLEAN, autoOpened : BOOLEAN,
         welcome : BOOLEAN]

IsOpen(d) == Contains(modals, d)
OnTop(d) == modals # <<>> /\ Last(modals) = d
Reachable == modals = <<>>

Close(d) == RemoveFirst(modals, d)
ShowModal(open, d) == IF Contains(open, d) THEN open ELSE Append(open, d)

(* htmx: one request per element under way, one waiting.                   *)
Issue(e) == [request EXCEPT ![e] = IF @ = "none" THEN "sent" ELSE "queued"]
Answered(e) == [request EXCEPT ![e] = IF @ = "queued" THEN "sent" ELSE "none"]

NewPage == [ready |-> FALSE, table |-> FALSE, form |-> FALSE]
NewView == [help |-> {}, filters |-> FALSE, autoOpened |-> FALSE, welcome |-> FALSE]

DialogsInit ==
    /\ page = NewPage /\ modals = <<>> /\ view = NewView
    /\ cookie \in BOOLEAN
    /\ interval = NoTimer /\ remaining = [i \in Timers |-> 0]
    /\ request = [e \in Elements |-> "none"]
    /\ chosen = FALSE

\* The cookie is all that outlives the page.
LeavePage ==
    /\ page' = NewPage /\ modals' = <<>> /\ view' = NewView
    /\ interval' = NoTimer /\ remaining' = [i \in Timers |-> 0]
    /\ request' = [e \in Elements |-> "none"]
    /\ chosen' = FALSE
    /\ UNCHANGED cookie

Reload == LeavePage

\* onload comes late, when everything has been fetched: the user may have
\* clicked before.
ShowWelcomeIfNeeded ==
    /\ ~page.ready
    /\ page' = [page EXCEPT !.ready = TRUE]
    /\ view' = [view EXCEPT !.welcome = ~cookie]
    /\ cookie' = TRUE
    /\ UNCHANGED <<modals, interval, remaining, request, chosen>>

-----------------------------------------------------------------------------
(* Help.                                                                   *)

SetFilters(v, shown) == [v EXCEPT !.filters = shown]

\* Mutant: the flag is not reset.
MutCloseAllHelp(v) ==
    [v EXCEPT !.help = {}, !.filters = @ /\ ~v.autoOpened, !.welcome = FALSE]
CloseAllHelp(v) ==
    [v EXCEPT !.help = {}, !.filters = @ /\ ~v.autoOpened, !.autoOpened = FALSE,
              !.welcome = FALSE]

\* Of the dialogs that can be open when a help link is clicked only the settings
\* have help; the page always has, that of the link itself.
HelpContainer == IF IsOpen("settings") /\ page.form THEN "settings" ELSE "body"

Popups(v, container) ==
    [v EXCEPT !.help = {container},
              !.autoOpened = container = "body" /\ page.table /\ ~v.filters,
              !.filters = v.filters \/ (container = "body" /\ page.table)]

\* The help link of the page or the one in the settings, which outsideClick ignores.
ShowHelp ==
    /\ Reachable \/ (OnTop("settings") /\ page.form)
    /\ view' = Popups(CloseAllHelp(view), HelpContainer)
    /\ UNCHANGED <<page, cookie, modals, interval, remaining, request, chosen>>

\* outsideClick for a click outside all dialogs.
ClickOutside ==
    /\ view' = CloseAllHelp(view)
    /\ modals' = Close("settings")

ClickPage ==
    /\ Reachable
    /\ ClickOutside
    /\ UNCHANGED <<page, cookie, interval, remaining, request, chosen>>

\* Mutant: a click in a dialog counts as a click outside of it.
MutKept == Close("settings")
Kept == modals

\* outsideClick for a click in the dialog on top.
ClickInside ==
    /\ ~Reachable
    /\ view' = CloseAllHelp(view)
    /\ modals' = Kept
    /\ UNCHANGED <<page, cookie, interval, remaining, request, chosen>>

\* outsideClick for a click on the dialog element, which is its backdrop. The
\* backdrop of the help in the dialog would cover it.
ClickBackdrop ==
    /\ ~Reachable
    /\ OnTop("settings") => "settings" \notin view.help
    /\ modals' = Front(modals)
    /\ view' = CloseAllHelp(view)
    /\ UNCHANGED <<page, cookie, interval, remaining, request, chosen>>

\* The browser closes a dialog itself, without closeAllHelp.
Escape ==
    /\ IF Reachable
       THEN /\ view.welcome
            /\ view' = [view EXCEPT !.welcome = FALSE]
            /\ UNCHANGED modals
       ELSE /\ modals' = Front(modals)
            /\ UNCHANGED view
    /\ UNCHANGED <<page, cookie, interval, remaining, request, chosen>>

\* The buttons "show filters" and "hide filters", then outsideClick. What is
\* clicked, with the keyboard, while the help has opened the row goes with the help.
ToggleFilters(shown) ==
    /\ Reachable /\ page.table
    /\ shown \/ view.filters
    /\ view' = CloseAllHelp(SetFilters(view, shown))
    /\ chosen' = IF view.autoOpened THEN chosen ELSE shown
    /\ UNCHANGED <<page, cookie, modals, interval, remaining, request>>

-----------------------------------------------------------------------------
(* Dialogs with a button of their own: "...", "Edit", "Create API key".    *)

OpenFromTable(d) ==
    /\ Reachable /\ page.table
    /\ d \in TableDialogs
    /\ view' = CloseAllHelp(view)
    /\ modals' = ShowModal(modals, d)
    /\ UNCHANGED <<page, cookie, interval, remaining, request, chosen>>

\* Also what the enter key does in the form, of which this is the first button.
OpenApiKey ==
    /\ OnTop("settings") /\ page.form
    /\ view' = CloseAllHelp(view)
    /\ modals' = ShowModal(modals, "apikey")
    /\ UNCHANGED <<page, cookie, interval, remaining, request, chosen>>

\* A table, the first one or an update, replaces what is in .table-container.
TableAnswered ==
    /\ page' = [page EXCEPT !.table = TRUE]
    /\ modals' = RemoveFirst(Close("edit"), "more")
    /\ request' = [request EXCEPT !["edit"] = "none"]
    /\ UNCHANGED <<cookie, view, interval, remaining, chosen>>

SaveComment ==
    /\ OnTop("edit")
    /\ request' = Issue("edit")
    /\ view' = CloseAllHelp(view)
    /\ UNCHANGED <<page, cookie, modals, interval, remaining, chosen>>

\* The dialog is closed whatever the answer is and whichever row it is open for.
CommentAnswered ==
    /\ request["edit"] # "none"
    /\ request' = Answered("edit")
    /\ modals' = Close("edit")
    /\ UNCHANGED <<page, cookie, view, interval, remaining, chosen>>

-----------------------------------------------------------------------------
(* Settings.                                                               *)

ClickSettings ==
    /\ Reachable
    /\ request' = Issue("settings")
    /\ ClickOutside
    /\ UNCHANGED <<page, cookie, interval, remaining, chosen>>

\* An answer replaces what is in the dialog, the popups, the form and the dialog
\* for the API key; an error does not. Either way the dialog is opened.
SettingsAnswered(ok) ==
    /\ request["settings"] # "none"
    /\ request' = IF ok THEN [Answered("settings") EXCEPT !["form"] = "none"]
                        ELSE Answered("settings")
    /\ page' = [page EXCEPT !.form = @ \/ ok]
    /\ view' = IF ok THEN [view EXCEPT !.help = @ \ {"settings"}] ELSE view
    /\ modals' = ShowModal(IF ok THEN Close("apikey") ELSE modals, "settings")
    /\ UNCHANGED <<cookie, interval, remaining, chosen>>

Save ==
    /\ OnTop("settings") /\ page.form
    /\ request' = Issue("form")
    /\ view' = CloseAllHelp(view)
    /\ UNCHANGED <<page, cookie, modals, interval, remaining, chosen>>

\* clearInterval(_countdownInterval)
\* Mutant: the countdown that runs is not stopped.
MutCleared == remaining
Cleared == [i \in Timers |-> IF i = interval THEN 0 ELSE remaining[i]]

StartCountdown ==
    \E i \in Timers \ {interval} :
        /\ remaining[i] = 0
        /\ remaining' = [Cleared EXCEPT ![i] = Seconds]
        /\ interval' = i

\* "Saved." starts the countdown. Other answers are messages.
SaveAnswered(saved) ==
    /\ request["form"] # "none"
    /\ request' = Answered("form")
    /\ IF saved THEN StartCountdown ELSE UNCHANGED <<interval, remaining>>
    /\ UNCHANGED <<page, cookie, modals, view, chosen>>

(* The function of interval i, which knows intervals as _countdownInterval. *)

\* Mutant: the countdown pauses while the settings are closed.
MutTickEnds(i) == FALSE
TickEnds(i) == ~IsOpen("settings") /\ remaining[i] > 0
CountdownOver(i) == IsOpen("settings") /\ remaining[i] = 1
Tick(i) ==
    \/ /\ TickEnds(i)
       /\ remaining' = [j \in Timers |-> IF j = interval THEN 0 ELSE remaining[j]]
       /\ interval' = NoTimer
       /\ UNCHANGED <<page, cookie, modals, view, request, chosen>>
    \/ /\ CountdownOver(i)
       /\ Reload
    \/ /\ IsOpen("settings") /\ remaining[i] > 1
       /\ remaining' = [remaining EXCEPT ![i] = @ - 1]
       /\ UNCHANGED <<page, cookie, modals, view, interval, request, chosen>>

-----------------------------------------------------------------------------
User ==
    \/ Reload
    \/ ShowHelp \/ ClickPage \/ ClickInside \/ ClickBackdrop \/ Escape
    \/ \E shown \in BOOLEAN : ToggleFilters(shown)
    \/ \E d \in TableDialogs : OpenFromTable(d)
    \/ OpenApiKey \/ SaveComment \/ ClickSettings \/ Save
Server ==
    \/ TableAnswered \/ CommentAnswered
    \/ \E ok \in BOOLEAN : SettingsAnswered(ok) \/ SaveAnswered(ok)
Browser == ShowWelcomeIfNeeded \/ \E i \in Timers : Tick(i)

DialogsNext == User \/ Server \/ Browser

DialogsSpec == DialogsInit /\ [][DialogsNext]_dialogVars

\* The browser calls the function of an interval while it runs.
Timely == \A i \in Timers : WF_dialogVars(Tick(i))

-----------------------------------------------------------------------------
DialogsTypeOK ==
    /\ page \in [ready : BOOLEAN, table : BOOLEAN, form : BOOLEAN]
    /\ cookie \in BOOLEAN
    /\ modals \in Seq(Dialogs)
    /\ view \in View
    /\ interval \in Timers \cup {NoTimer}
    /\ remaining \in [Timers -> 0..Seconds]
    /\ request \in [Elements -> {"none", "sent", "queued"}]
    /\ chosen \in BOOLEAN

(* Help opens the filter row if it is hidden and hides it again when it is *)
(* dismissed, in whichever way: without help on the page the filter row is *)
(* as the user last wanted it.                                             *)
FiltersRestored ==
    /\ view.autoOpened => "body" \in view.help /\ view.filters /\ ~chosen
    /\ ~view.autoOpened => view.filters = chosen

(* However often the settings are saved, closed and opened again, no       *)
(* countdown runs but the one that was started last.                       *)
OneCountdown == \A i \in Timers : remaining[i] > 0 <=> i = interval

(* Dismissing the help in the settings keeps the settings open.            *)
HelpKeepsSettings ==
    [][ /\ IsOpen("settings") /\ page.form /\ "settings" \in view.help
        /\ page'.form /\ "settings" \notin view'.help
        => Contains(modals', "settings") ]_dialogVars

(* A dialog is open at most once, and the dialog for the API key only over *)
(* the settings of which it is a part: closing or replacing the settings   *)
(* does not leave it on a page that it makes inert.                        *)
DialogsNested ==
    /\ IsInjective(modals)
    /\ IsOpen("apikey") => OnTop("apikey") /\ Len(modals) > 1
                           /\ modals[Len(modals) - 1] = "settings"

(* A countdown ends, with a reload or because the dialog was closed,       *)
(* unless the settings are saved again and again.                          *)
SavedAgain == SaveAnswered(TRUE) /\ request["form"] # "none"
CountdownEnds == []<>(interval = NoTimer) \/ []<><<SavedAgain>>_dialogVars
=============================================================================
