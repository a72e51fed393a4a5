-------------------------- MODULE PageDialogs_proofs --------------------------
(***************************************************************************)
(* Proofs about PageDialogs, for every length of the countdown and any     *)
(* number of intervals.                                                    *)
(***************************************************************************)
EXTENDS PageDialogs, TLAPS

-----------------------------------------------------------------------------
(* The stack of dialogs.                                                   *)

(* A stack of modal dialogs, each open once.                               *)
Stack(s) ==
    /\ s \in Seq(Dialogs)
    /\ \A i, j \in 1..Len(s) : s[i] = s[j] => i = j

(* The dialog for the API key is on top, directly over the settings.       *)
Nested(s) ==
    \A i \in 1..Len(s) :
        s[i] = "apikey" => i = Len(s) /\ i > 1 /\ s[i - 1] = "settings"

DialogsInv == DialogsTypeOK /\ Stack(modals) /\ Nested(modals)

(* What RemoveAt leaves of a sequence.                                     *)
LEMMA RemoveAtElements ==
    ASSUME NEW S, NEW s \in Seq(S), NEW i \in 1..Len(s)
    PROVE  /\ RemoveAt(s, i) \in Seq(S)
           /\ Len(RemoveAt(s, i)) = Len(s) - 1
           /\ \A k \in 1..(Len(s) - 1) :
                 RemoveAt(s, i)[k] = IF k < i THEN s[k] ELSE s[k + 1]
<1> DEFINE a == SubSeq(s, 1, i - 1)  b == SubSeq(s, i + 1, Len(s))
<1>1. /\ a \in Seq(S) /\ Len(a) = i - 1
      /\ \A k \in 1..(i - 1) : a[k] = s[k]
  OBVIOUS
<1>2. /\ b \in Seq(S) /\ Len(b) = Len(s) - i
      /\ \A k \in 1..(Len(s) - i) : b[k] = s[k + i]
  OBVIOUS
<1>3. RemoveAt(s, i) = a \o b
  BY DEF RemoveAt
<1> HIDE DEF a, b
<1>4. a \o b \in Seq(S) /\ Len(a \o b) = Len(s) - 1
  <2>1. \A x, y \in Seq(S) : x \o y \in Seq(S) /\ Len(x \o y) = Len(x) + Len(y)
    OBVIOUS
  <2>2. Len(s) \in Nat
    OBVIOUS
  <2>3. a \o b \in Seq(S) /\ Len(a \o b) = Len(a) + Len(b)
    BY <2>1, <1>1, <1>2
  <2> QED BY <2>2, <2>3, <1>1, <1>2
<1>5. ASSUME NEW k \in 1..(Len(s) - 1)
      PROVE  (a \o b)[k] = IF k < i THEN s[k] ELSE s[k + 1]
  BY <1>1, <1>2, <1>5
<1> QED BY <1>3, <1>4, <1>5

(* Closing a dialog that is open takes it off the stack, wherever it is.   *)
LEMMA RemoveFirstIndex ==
    ASSUME NEW s, Stack(s), NEW i \in 1..Len(s)
    PROVE  RemoveFirst(s, s[i]) = RemoveAt(s, i)
<1>1. {j \in 1..Len(s) : s[j] = s[i]} = {i}
  BY DEF Stack
<1>2. Min({i}) = i
  BY DEF Min
<1>3. SelectInSeq(s, LAMBDA v : v = s[i]) = i
  BY <1>1, <1>2 DEF SelectInSeq
<1> QED BY <1>3 DEF RemoveFirst

(* A stack stays one when a dialog is closed, and loses only that dialog.  *)
LEMMA CloseStack ==
    ASSUME NEW s, Stack(s), NEW d \in Dialogs
    PROVE  /\ Stack(RemoveFirst(s, d))
           /\ \A e \in Dialogs :
                 Contains(RemoveFirst(s, d), e) <=> Contains(s, e) /\ e # d
<1>1. CASE \E i \in 1..Len(s) : s[i] = d
  <2>1. PICK i \in 1..Len(s) : s[i] = d
    BY <1>1
  <2> DEFINE t == RemoveAt(s, i)
  <2>2. RemoveFirst(s, d) = t
    BY <2>1, RemoveFirstIndex
  <2>3. /\ t \in Seq(Dialogs) /\ Len(t) = Len(s) - 1
        /\ \A k \in 1..(Len(s) - 1) : t[k] = IF k < i THEN s[k] ELSE s[k + 1]
    BY RemoveAtElements DEF Stack
  <2>4. s \in Seq(Dialogs) /\ Len(s) \in Nat
        /\ \A j, k \in 1..Len(s) : s[j] = s[k] => j = k
    BY DEF Stack
  <2> HIDE DEF t
  <2>5. Stack(t)
    <3> SUFFICES ASSUME NEW j \in 1..Len(t), NEW k \in 1..Len(t), t[j] = t[k]
                 PROVE  j = k
      BY <2>3 DEF Stack
    <3> QED BY <2>3, <2>4
  <2>6. ASSUME NEW e \in Dialogs PROVE Contains(t, e) <=> Contains(s, e) /\ e # d
    <3>1. ASSUME Contains(t, e) PROVE Contains(s, e) /\ e # d
      <4>1. PICK k \in 1..Len(t) : t[k] = e
        BY <3>1 DEF Contains
      <4> QED BY <4>1, <2>1, <2>3, <2>4 DEF Contains
    <3>2. ASSUME Contains(s, e), e # d PROVE Contains(t, e)
      <4>1. PICK k \in 1..Len(s) : s[k] = e
        BY <3>2 DEF Contains
      <4>2. CASE k < i
        BY <4>1, <4>2, <2>3, <2>4 DEF Contains
      <4>3. CASE k > i
        <5>1. k - 1 \in 1..Len(t) /\ t[k - 1] = e
          BY <4>1, <4>3, <2>3, <2>4
        <5> QED BY <5>1 DEF Contains
      <4> QED BY <4>1, <4>2, <4>3, <2>1, <3>2, <2>4
    <3> QED BY <3>1, <3>2
  <2> QED BY <2>2, <2>5, <2>6
<1>2. CASE ~\E i \in 1..Len(s) : s[i] = d
  BY <1>2 DEF RemoveFirst, Contains
<1> QED BY <1>1, <1>2

(* Closing a dialog keeps the one for the API key over the settings,       *)
(* unless the settings are closed under it.                                *)
LEMMA CloseNested ==
    ASSUME NEW s, Stack(s), Nested(s), NEW d \in Dialogs \ {"settings"}
    PROVE  Nested(RemoveFirst(s, d))
<1>1. CASE \E i \in 1..Len(s) : s[i] = d
  <2>1. PICK i \in 1..Len(s) : s[i] = d
    BY <1>1
  <2> DEFINE t == RemoveAt(s, i)
  <2>2. RemoveFirst(s, d) = t
    BY <2>1, RemoveFirstIndex
  <2>3. /\ t \in Seq(Dialogs) /\ Len(t) = Len(s) - 1
        /\ \A k \in 1..(Len(s) - 1) : t[k] = IF k < i THEN s[k] ELSE s[k + 1]
    BY RemoveAtElements DEF Stack
  <2>4. /\ Len(s) \in Nat
        /\ \A j, k \in 1..Len(s) : s[j] = s[k] => j = k
    BY DEF Stack
  <2> HIDE DEF t
  <2>5. ASSUME NEW k \in 1..Len(t), t[k] = "apikey"
        PROVE  k = Len(t) /\ k > 1 /\ t[k - 1] = "settings"
    <3>1. CASE k < i
      <4>1. s[k] = "apikey" /\ k = Len(s)
        BY <2>3, <2>5, <3>1, <2>4 DEF Nested
      <4> QED BY <4>1, <3>1, <2>4
    <3>2. CASE k >= i
      <4>1. s[k + 1] = "apikey" /\ k + 1 \in 1..Len(s)
        BY <2>3, <2>5, <3>2, <2>4
      <4>2. k + 1 = Len(s) /\ s[k] = "settings"
        BY <4>1, <2>4 DEF Nested
      <4>3. k # i
        BY <4>2, <2>1
      <4> QED BY <4>2, <4>3, <3>2, <2>3, <2>4
    <3> QED BY <3>1, <3>2, <2>3, <2>4
  <2> QED BY <2>2, <2>5 DEF Nested
<1>2. CASE ~\E i \in 1..Len(s) : s[i] = d
  BY <1>2 DEF RemoveFirst
<1> QED BY <1>1, <1>2

(* Front takes off the top, and what is below stays as it was.             *)
LEMMA FrontStack ==
    ASSUME NEW s, Stack(s), Nested(s), s # <<>>
    PROVE  /\ Stack(Front(s)) /\ Nested(Front(s))
           /\ \A e \in Dialogs :
                 Contains(s, e) => Contains(Front(s), e) \/ Last(s) = e
<1>1. /\ s \in Seq(Dialogs) /\ Len(s) \in Nat \ {0}
      /\ \A i, j \in 1..Len(s) : s[i] = s[j] => i = j
  BY DEF Stack
<1> DEFINE t == Front(s)
<1>2. /\ t \in Seq(Dialogs) /\ Len(t) = Len(s) - 1
      /\ \A i \in 1..(Len(s) - 1) : t[i] = s[i]
  <2>1. ASSUME NEW n \in 0..Len(s)
        PROVE  /\ SubSeq(s, 1, n) \in Seq(Dialogs) /\ Len(SubSeq(s, 1, n)) = n
               /\ \A i \in 1..n : SubSeq(s, 1, n)[i] = s[i]
    BY <1>1
  <2>2. Len(s) - 1 \in 0..Len(s)
    BY <1>1
  <2> QED BY <2>1, <2>2 DEF Front
<1> HIDE DEF t
<1>3. Stack(t)
  BY <1>1, <1>2 DEF Stack
<1>4. Nested(t)
  BY <1>1, <1>2 DEF Nested
<1>5. ASSUME NEW e \in Dialogs, Contains(s, e) PROVE Contains(t, e) \/ Last(s) = e
  BY <1>1, <1>2, <1>5 DEF Contains, Last
<1> QED BY <1>3, <1>4, <1>5 DEF t

(* A dialog that is shown is on the stack, over those that were open.      *)
LEMMA ShowStack ==
    ASSUME NEW s, Stack(s), NEW d \in Dialogs
    PROVE  /\ Stack(ShowModal(s, d)) /\ Contains(ShowModal(s, d), d)
           /\ \A e \in Dialogs : Contains(s, e) => Contains(ShowModal(s, d), e)
<1>1. /\ s \in Seq(Dialogs) /\ Len(s) \in Nat
      /\ \A i, j \in 1..Len(s) : s[i] = s[j] => i = j
  BY DEF Stack
<1>2. CASE Contains(s, d)
  BY <1>2 DEF ShowModal
<1>3. CASE ~Contains(s, d)
  <2> DEFINE t == Append(s, d)
  <2>1. /\ t \in Seq(Dialogs) /\ Len(t) = Len(s) + 1 /\ t[Len(s) + 1] = d
        /\ \A i \in 1..Len(s) : t[i] = s[i]
    BY <1>1
  <2>2. \A i \in 1..Len(s) : s[i] # d
    BY <1>3 DEF Contains
  <2> HIDE DEF t
  <2>3. Stack(t)
    <3> SUFFICES ASSUME NEW i \in 1..Len(t), NEW j \in 1..Len(t), t[i] = t[j]
                 PROVE  i = j
      BY <2>1 DEF Stack
    <3> QED BY <1>1, <2>1, <2>2
  <2>4. Contains(t, d)
    BY <1>1, <2>1 DEF Contains
  <2>5. \A e \in Dialogs : Contains(s, e) => Contains(t, e)
    BY <1>1, <2>1 DEF Contains
  <2>6. ShowModal(s, d) = t
    BY <1>3 DEF ShowModal, t
  <2> QED BY <2>3, <2>4, <2>5, <2>6
<1> QED BY <1>2, <1>3

(* Where it is shown: nested if only settings are under the new one, or if *)
(* there was no dialog for the API key and this is not one.                *)
LEMMA ShowNested ==
    ASSUME NEW s, Stack(s), NEW d \in Dialogs,
           \/ d = "apikey" /\ s # <<>> /\ Last(s) = "settings" /\ Nested(s)
           \/ d # "apikey" /\ (Contains(s, d) \/ ~Contains(s, "apikey")) /\ Nested(s)
    PROVE  Nested(ShowModal(s, d))
<1>1. /\ s \in Seq(Dialogs) /\ Len(s) \in Nat
      /\ \A i, j \in 1..Len(s) : s[i] = s[j] => i = j
  BY DEF Stack
<1>2. CASE Contains(s, d)
  BY <1>2 DEF ShowModal
<1>3. CASE ~Contains(s, d)
  <2> DEFINE t == Append(s, d)
  <2>1. /\ t \in Seq(Dialogs) /\ Len(t) = Len(s) + 1 /\ t[Len(s) + 1] = d
        /\ \A i \in 1..Len(s) : t[i] = s[i]
    BY <1>1
  <2>2. \A i \in 1..Len(s) : s[i] # "apikey"
    BY <1>3 DEF Contains
  <2>3. s # <<>> => Len(s) > 0
    BY <1>1
  <2> HIDE DEF t
  <2>4. Nested(t)
    BY <1>1, <2>1, <2>2, <2>3 DEF Nested, Last
  <2>5. ShowModal(s, d) = t
    BY <1>3 DEF ShowModal, t
  <2> QED BY <2>4, <2>5
<1> QED BY <1>2, <1>3

-----------------------------------------------------------------------------
(* Types.                                                                  *)

(* A page that was just loaded.                                            *)
LEMMA NewTypes ==
    /\ NewPage \in [ready : BOOLEAN, table : BOOLEAN, form : BOOLEAN]
    /\ NewView \in View
    /\ [i \in Timers |-> 0] \in [Timers -> 0..Seconds]
    /\ [e \in Elements |-> "none"] \in [Elements -> {"none", "sent", "queued"}]
    /\ Stack(<<>>) /\ Nested(<<>>)
<1>1. NewView \in View
  BY DEF NewView, View
<1>2. [i \in Timers |-> 0] \in [Timers -> 0..Seconds]
  BY DialogsAssumption
<1>3. Stack(<<>>) /\ Nested(<<>>)
  BY DEF Stack, Nested
<1> QED BY <1>1, <1>2, <1>3 DEF NewPage

LEMMA DialogsInitInv == DialogsInit => DialogsInv
<1> SUFFICES ASSUME DialogsInit PROVE DialogsInv
  OBVIOUS
<1>1. Stack(modals) /\ Nested(modals)
  BY NewTypes DEF DialogsInit
<1>2. modals \in Seq(Dialogs)
  BY <1>1 DEF Stack
<1>3. DialogsTypeOK
  BY <1>2, NewTypes DEF DialogsInit, DialogsTypeOK
<1> QED BY <1>1, <1>3 DEF DialogsInv

LEMMA IssueType ==
    ASSUME DialogsTypeOK, NEW e \in Elements
    PROVE  /\ Issue(e) \in [Elements -> {"none", "sent", "queued"}]
           /\ Answered(e) \in [Elements -> {"none", "sent", "queued"}]
BY DEF DialogsTypeOK, Issue, Answered

LEMMA HelpType ==
    ASSUME NEW v \in View
    PROVE  /\ CloseAllHelp(v) \in View
           /\ \A shown \in BOOLEAN : SetFilters(v, shown) \in View
BY DEF View, CloseAllHelp, SetFilters

LEMMA LeaveInv == LeavePage /\ DialogsTypeOK => DialogsTypeOK'
BY NewTypes DEF LeavePage, DialogsTypeOK, Stack

(* The actions on the stack of dialogs, one by one.                        *)
LEMMA StackNext ==
    ASSUME DialogsInv, DialogsNext
    PROVE  Stack(modals') /\ Nested(modals')
<1>1. Stack(modals) /\ Nested(modals) /\ Stack(<<>>) /\ Nested(<<>>)
  BY DEF DialogsInv, Stack, Nested
<1>2. modals # <<>> => Stack(Front(modals)) /\ Nested(Front(modals))
  BY <1>1, FrontStack
<1>3. ASSUME NEW d \in Dialogs \ {"settings"}
      PROVE  Stack(RemoveFirst(modals, d)) /\ Nested(RemoveFirst(modals, d))
  BY <1>1, CloseStack, CloseNested
<1>4. Reachable => RemoveFirst(modals, "settings") = modals
  BY DEF Reachable, RemoveFirst
<1>5. CASE \/ ShowWelcomeIfNeeded \/ ShowHelp \/ ClickInside \/ SaveComment \/ Save
           \/ \E shown \in BOOLEAN : ToggleFilters(shown) \/ SaveAnswered(shown)
  BY <1>1, <1>5
     DEF ShowWelcomeIfNeeded, ShowHelp, ClickInside, Kept, SaveComment, Save,
         ToggleFilters, SaveAnswered
<1>6. CASE Reload
  BY <1>1, <1>6 DEF Reload, LeavePage
<1>7. CASE ClickPage \/ ClickSettings
  BY <1>1, <1>4, <1>7 DEF ClickPage, ClickSettings, ClickOutside, Close
<1>8. CASE ClickBackdrop \/ Escape
  BY <1>1, <1>2, <1>8 DEF ClickBackdrop, Escape, Reachable
<1>9. ASSUME NEW d \in TableDialogs, OpenFromTable(d) PROVE Stack(modals') /\ Nested(modals')
  <2>1. /\ modals = <<>> /\ modals' = ShowModal(modals, d)
        /\ d \in Dialogs /\ d # "apikey" /\ ~Contains(<<>>, "apikey")
    BY <1>9 DEF OpenFromTable, Reachable, TableDialogs, Dialogs, Contains
  <2> QED BY <2>1, <1>1, ShowStack, ShowNested
<1>10. CASE OpenApiKey
  <2>1. /\ modals # <<>> /\ Last(modals) = "settings"
        /\ modals' = ShowModal(modals, "apikey") /\ "apikey" \in Dialogs
    BY <1>10 DEF OpenApiKey, OnTop, Dialogs
  <2> QED BY <2>1, <1>1, ShowStack, ShowNested
<1>11. CASE TableAnswered
  <2>1. "edit" \in Dialogs \ {"settings"} /\ "more" \in Dialogs \ {"settings"}
    BY DEF Dialogs, TableDialogs
  <2>2. Stack(RemoveFirst(modals, "edit")) /\ Nested(RemoveFirst(modals, "edit"))
    BY <2>1, <1>3
  <2> QED BY <1>11, <2>1, <2>2, CloseStack, CloseNested DEF TableAnswered, Close
<1>12. CASE CommentAnswered
  <2>1. "edit" \in Dialogs \ {"settings"}
    BY DEF Dialogs, TableDialogs
  <2> QED BY <1>12, <2>1, <1>3 DEF CommentAnswered, Close
<1>13. ASSUME NEW ok \in BOOLEAN, SettingsAnswered(ok)
       PROVE  Stack(modals') /\ Nested(modals')
  <2> DEFINE s == IF ok THEN RemoveFirst(modals, "apikey") ELSE modals
  <2>1. "apikey" \in Dialogs \ {"settings"} /\ "settings" \in Dialogs
    BY DEF Dialogs
  <2>2. Stack(s) /\ Nested(s)
    BY <1>1, <1>3, <2>1
  <2>3. modals' = ShowModal(s, "settings")
    BY <1>13 DEF SettingsAnswered, Close
  <2>4. Contains(s, "settings") \/ ~Contains(s, "apikey")
    <3>1. CASE ok
      BY <3>1, <2>1, <1>1, CloseStack
    <3>2. CASE ~ok
      <4> SUFFICES ASSUME Contains(modals, "apikey") PROVE Contains(modals, "settings")
        BY <3>2
      <4>1. PICK i \in 1..Len(modals) : modals[i] = "apikey"
        BY DEF Contains
      <4>2. i > 1 /\ modals[i - 1] = "settings" /\ i - 1 \in 1..Len(modals)
        BY <4>1, <1>1 DEF Nested, Stack
      <4> QED BY <4>2 DEF Contains
    <3> QED BY <3>1, <3>2
  <2> HIDE DEF s
  <2> QED BY <2>1, <2>2, <2>3, <2>4, ShowStack, ShowNested
<1>14. ASSUME NEW i \in Timers, Tick(i) PROVE Stack(modals') /\ Nested(modals')
  BY <1>1, <1>14 DEF Tick, Reload, LeavePage
<1> QED
  BY <1>5, <1>6, <1>7, <1>8, <1>9, <1>10, <1>11, <1>12, <1>13, <1>14
     DEF DialogsNext, User, Server, Browser

LEMMA DialogsTypeNext ==
    ASSUME DialogsInv, DialogsNext
    PROVE  DialogsTypeOK'
<1> USE DEF DialogsTypeOK
<1>1. DialogsTypeOK /\ modals' \in Seq(Dialogs)
  BY StackNext DEF DialogsInv, Stack
<1>2. CASE ShowWelcomeIfNeeded
  BY <1>1, <1>2 DEF ShowWelcomeIfNeeded, View
<1>3. CASE ShowHelp
  <2>1. HelpContainer \in Containers
    BY DEF HelpContainer, Containers
  <2>2. \A v \in View, c \in Containers : Popups(v, c) \in View
    BY <1>1 DEF Popups, View
  <2> QED BY <1>1, <1>3, <2>1, <2>2, HelpType DEF ShowHelp
<1>4. CASE ClickPage \/ ClickInside \/ ClickBackdrop
  <2>1. CASE ClickPage
    BY <1>1, <2>1, HelpType DEF ClickPage, ClickOutside
  <2>2. CASE ClickInside
    BY <1>1, <2>2, HelpType DEF ClickInside, ClickOutside
  <2>3. CASE ClickBackdrop
    BY <1>1, <2>3, HelpType DEF ClickBackdrop
  <2> QED BY <1>4, <2>1, <2>2, <2>3
<1>5. CASE Escape
  <2>1. view' \in View
    <3>1. view \in View /\ (view' = view \/ view' = [view EXCEPT !.welcome = FALSE])
      BY <1>1, <1>5 DEF Escape
    <3>2. [view EXCEPT !.welcome = FALSE] \in View
      BY <3>1 DEF View
    <3> QED BY <3>1, <3>2
  <2> QED BY <1>1, <1>5, <2>1 DEF Escape
<1>6. ASSUME NEW shown \in BOOLEAN, ToggleFilters(shown) PROVE DialogsTypeOK'
  BY <1>1, <1>6, HelpType DEF ToggleFilters
<1>7. ASSUME NEW d \in TableDialogs, OpenFromTable(d) PROVE DialogsTypeOK'
  BY <1>1, <1>7, HelpType DEF OpenFromTable
<1>8. CASE OpenApiKey
  BY <1>1, <1>8, HelpType DEF OpenApiKey
<1>9. CASE TableAnswered
  BY <1>1, <1>9 DEF TableAnswered, Elements
<1>10. CASE SaveComment \/ Save \/ ClickSettings
  <2>1. Elements = {"settings", "form", "edit"}
    BY DEF Elements
  <2>2. \A e \in Elements : Issue(e) \in [Elements -> {"none", "sent", "queued"}]
    BY <1>1, IssueType
  <2> QED BY <1>1, <1>10, <2>1, <2>2, HelpType DEF SaveComment, Save, ClickSettings, ClickOutside
<1>11. CASE CommentAnswered
  <2>1. Answered("edit") \in [Elements -> {"none", "sent", "queued"}]
    BY <1>1, IssueType DEF Elements
  <2> QED BY <1>1, <1>11, <2>1 DEF CommentAnswered
<1>12. ASSUME NEW ok \in BOOLEAN, SettingsAnswered(ok) PROVE DialogsTypeOK'
  <2>1. Answered("settings") \in [Elements -> {"none", "sent", "queued"}]
    BY <1>1, IssueType DEF Elements
  <2>2. request' \in [Elements -> {"none", "sent", "queued"}]
    BY <1>12, <2>1 DEF SettingsAnswered
  <2>3. view' \in View
    BY <1>1, <1>12 DEF SettingsAnswered, View
  <2>4. page' \in [ready : BOOLEAN, table : BOOLEAN, form : BOOLEAN]
    BY <1>1, <1>12 DEF SettingsAnswered
  <2> QED BY <1>1, <1>12, <2>2, <2>3, <2>4 DEF SettingsAnswered
<1>13. ASSUME NEW saved \in BOOLEAN, SaveAnswered(saved) PROVE DialogsTypeOK'
  <2>1. Answered("form") \in [Elements -> {"none", "sent", "queued"}]
    BY <1>1, IssueType DEF Elements
  <2>2. Cleared \in [Timers -> 0..Seconds]
    BY <1>1, DialogsAssumption DEF Cleared
  <2>3. interval' \in Timers \cup {NoTimer} /\ remaining' \in [Timers -> 0..Seconds]
    <3>1. CASE saved
      <4>1. PICK i \in Timers : interval' = i /\ remaining' = [Cleared EXCEPT ![i] = Seconds]
        BY <1>13, <3>1 DEF SaveAnswered, StartCountdown
      <4> QED BY <4>1, <2>2, DialogsAssumption
    <3>2. CASE ~saved
      BY <1>1, <1>13, <3>2 DEF SaveAnswered
    <3> QED BY <3>1, <3>2
  <2> QED BY <1>1, <1>13, <2>1, <2>3 DEF SaveAnswered
<1>14. CASE Reload
  BY <1>1, <1>14, LeaveInv DEF Reload
<1>15. ASSUME NEW i \in Timers, Tick(i) PROVE DialogsTypeOK'
  <2>1. CASE Reload
    BY <1>1, <2>1, LeaveInv DEF Reload
  <2>2. CASE ~Reload
    <3>1. interval' \in Timers \cup {NoTimer} /\ remaining' \in [Timers -> 0..Seconds]
      BY <1>1, <1>15, <2>2, DialogsAssumption DEF Tick
    <3> QED BY <1>1, <1>15, <2>2, <3>1 DEF Tick
  <2> QED BY <2>1, <2>2
<1> QED
  BY <1>2, <1>3, <1>4, <1>5, <1>6, <1>7, <1>8, <1>9, <1>10, <1>11, <1>12, <1>13, <1>14, <1>15
     DEF DialogsNext, User, Server, Browser

LEMMA DialogsNextInv == DialogsInv /\ [DialogsNext]_dialogVars => DialogsInv'
<1> SUFFICES ASSUME DialogsInv, [DialogsNext]_dialogVars PROVE DialogsInv'
  OBVIOUS
<1>1. CASE DialogsNext
  BY <1>1, DialogsTypeNext, StackNext DEF DialogsInv
<1>2. CASE UNCHANGED dialogVars
  BY <1>2 DEF DialogsInv, DialogsTypeOK, dialogVars
<1> QED BY <1>1, <1>2

LEMMA DialogsInvariant == DialogsSpec => []DialogsInv
<1> QED BY DialogsInitInv, DialogsNextInv, PTL DEF DialogsSpec

(* The state of dialogs, help, countdown and requests keeps its type.      *)
THEOREM DialogsTypes == DialogsSpec => []DialogsTypeOK
<1>1. DialogsInv => DialogsTypeOK
  BY DEF DialogsInv
<1> QED BY <1>1, DialogsInvariant, PTL

(* Closing and replacing dialogs, in whatever order answers come, never    *)
(* leaves the dialog for the API key without the settings under it.        *)
THEOREM DialogsNest == DialogsSpec => []DialogsNested
<1>1. DialogsInv => DialogsNested
  <2> SUFFICES ASSUME DialogsInv PROVE DialogsNested
    OBVIOUS
  <2>1. Stack(modals) /\ Nested(modals) /\ modals \in Seq(Dialogs)
    BY DEF DialogsInv, Stack
  <2>2. IsInjective(modals)
    BY <2>1 DEF Stack, IsInjective
  <2>3. ASSUME NEW i \in 1..Len(modals), modals[i] = "apikey"
        PROVE  /\ OnTop("apikey") /\ Len(modals) > 1
               /\ modals[Len(modals) - 1] = "settings"
    BY <2>1, <2>3 DEF Nested, OnTop, Last
  <2> QED BY <2>2, <2>3 DEF DialogsNested, IsOpen, Contains
<1> QED BY <1>1, DialogsInvariant, PTL

-----------------------------------------------------------------------------
(* Help and the filter row.                                                *)

LEMMA FiltersInit == DialogsInit => FiltersRestored
<1> SUFFICES ASSUME DialogsInit PROVE FiltersRestored
  OBVIOUS
<1>1. view.autoOpened = FALSE /\ view.filters = FALSE /\ chosen = FALSE
  BY DEF DialogsInit, NewView
<1> QED BY <1>1 DEF FiltersRestored

(* What dismissing the help makes of a filter row, opened by it or not.    *)
LEMMA FiltersDismissed ==
    ASSUME DialogsTypeOK, FiltersRestored
    PROVE  /\ ~CloseAllHelp(view).autoOpened
           /\ CloseAllHelp(view).filters = chosen
BY DEF DialogsTypeOK, View, CloseAllHelp, FiltersRestored

LEMMA FiltersNext ==
    DialogsTypeOK /\ FiltersRestored /\ [DialogsNext]_dialogVars => FiltersRestored'
<1> SUFFICES ASSUME DialogsTypeOK, FiltersRestored, [DialogsNext]_dialogVars
             PROVE  FiltersRestored'
  OBVIOUS
<1>1. view \in View /\ chosen \in BOOLEAN
  BY DEF DialogsTypeOK
<1>2. ASSUME view' = CloseAllHelp(view), UNCHANGED chosen PROVE FiltersRestored'
  BY <1>2, FiltersDismissed DEF FiltersRestored
<1>3. CASE ShowHelp
  <2> DEFINE v == CloseAllHelp(view)
  <2>1. v \in View /\ ~v.autoOpened /\ v.filters = chosen
    BY <1>1, HelpType, FiltersDismissed
  <2>2. view' = Popups(v, HelpContainer) /\ chosen' = chosen
    BY <1>3 DEF ShowHelp
  <2> HIDE DEF v
  <2> QED BY <1>1, <2>1, <2>2 DEF Popups, View, FiltersRestored
<1>4. ASSUME NEW shown \in BOOLEAN, ToggleFilters(shown) PROVE FiltersRestored'
  <2> DEFINE v == SetFilters(view, shown)
  <2>1. v \in View /\ v.filters = shown /\ v.autoOpened = view.autoOpened
    BY <1>1 DEF SetFilters, View
  <2>2. view' = CloseAllHelp(v) /\ chosen' = IF view.autoOpened THEN chosen ELSE shown
    BY <1>4 DEF ToggleFilters
  <2>3. view.autoOpened => ~chosen
    BY DEF FiltersRestored
  <2> HIDE DEF v
  <2> QED BY <1>1, <2>1, <2>2, <2>3 DEF CloseAllHelp, View, FiltersRestored
<1>5. CASE ClickPage \/ ClickInside \/ ClickBackdrop \/ ClickSettings
  BY <1>2, <1>5 DEF ClickPage, ClickInside, ClickBackdrop, ClickSettings, ClickOutside
<1>6. CASE SaveComment \/ Save \/ OpenApiKey \/ \E d \in TableDialogs : OpenFromTable(d)
  BY <1>2, <1>6 DEF SaveComment, Save, OpenApiKey, OpenFromTable
<1>7. CASE Escape \/ ShowWelcomeIfNeeded
  BY <1>1, <1>7 DEF Escape, ShowWelcomeIfNeeded, View, FiltersRestored
<1>8. ASSUME NEW ok \in BOOLEAN, SettingsAnswered(ok) PROVE FiltersRestored'
  <2>1. /\ view'.autoOpened = view.autoOpened /\ view'.filters = view.filters
        /\ view'.help = view.help \ {"settings"} \/ view'.help = view.help
        /\ chosen' = chosen
    BY <1>1, <1>8 DEF SettingsAnswered, View
  <2> QED BY <2>1 DEF FiltersRestored
<1>9. CASE \/ TableAnswered \/ CommentAnswered \/ UNCHANGED dialogVars
           \/ \E saved \in BOOLEAN : SaveAnswered(saved)
  BY <1>9 DEF TableAnswered, CommentAnswered, SaveAnswered, dialogVars, FiltersRestored
<1>10. CASE Reload
  BY <1>10 DEF Reload, LeavePage, NewView, FiltersRestored
<1>11. ASSUME NEW i \in Timers, Tick(i) PROVE FiltersRestored'
  BY <1>10, <1>11 DEF Tick, FiltersRestored
<1> QED
  BY <1>3, <1>4, <1>5, <1>6, <1>7, <1>8, <1>9, <1>10, <1>11
     DEF DialogsNext, User, Server, Browser

(* Help gives the filter row back as the user last wanted it, in whichever *)
(* way and order it is shown and dismissed.                                *)
THEOREM HelpRestoresFilters == DialogsSpec => []FiltersRestored
BY FiltersInit, FiltersNext, DialogsTypes, PTL DEF DialogsSpec

(* No step dismisses the help in the settings together with the settings.  *)
THEOREM HelpDismissed == DialogsSpec => HelpKeepsSettings
<1> DEFINE Keeps ==
      /\ IsOpen("settings") /\ page.form /\ "settings" \in view.help
      /\ page'.form /\ "settings" \notin view'.help
      => Contains(modals', "settings")
<1>1. ASSUME DialogsInv, [DialogsNext]_dialogVars PROVE Keeps
  <2> SUFFICES ASSUME IsOpen("settings"), page.form, "settings" \in view.help,
                      page'.form, "settings" \notin view'.help
               PROVE  Contains(modals', "settings")
    OBVIOUS
  <2>1. /\ Stack(modals) /\ Nested(modals) /\ Contains(modals, "settings")
        /\ modals # <<>> /\ "settings" \in Dialogs
    BY <1>1 DEF DialogsInv, IsOpen, Contains, Dialogs
  <2>2. ~Reachable
    BY <2>1 DEF Reachable
  <2>3. CASE \/ ShowWelcomeIfNeeded \/ ShowHelp \/ ClickInside \/ SaveComment \/ Save
             \/ UNCHANGED dialogVars
             \/ \E shown \in BOOLEAN : ToggleFilters(shown) \/ SaveAnswered(shown)
    BY <2>1, <2>3
       DEF ShowWelcomeIfNeeded, ShowHelp, ClickInside, Kept, SaveComment, Save,
           ToggleFilters, SaveAnswered, dialogVars
  <2>4. CASE ClickBackdrop
    <3>1. Last(modals) # "settings"
      BY <2>1, <2>4 DEF ClickBackdrop, OnTop
    <3> QED BY <2>1, <2>4, <3>1, FrontStack DEF ClickBackdrop
  <2>5. CASE OpenApiKey
    BY <2>1, <2>5, ShowStack DEF OpenApiKey, Dialogs
  <2>6. ASSUME NEW ok \in BOOLEAN, SettingsAnswered(ok) PROVE Contains(modals', "settings")
    <3> DEFINE s == IF ok THEN RemoveFirst(modals, "apikey") ELSE modals
    <3>1. Stack(s)
      BY <2>1, CloseStack DEF Dialogs
    <3>2. modals' = ShowModal(s, "settings")
      BY <2>6 DEF SettingsAnswered, Close
    <3> QED BY <2>1, <3>1, <3>2, ShowStack
  <2>7. CASE \/ Reload \/ Escape \/ TableAnswered \/ CommentAnswered
             \/ \E i \in Timers : Tick(i)
    BY <2>2, <2>7
       DEF Reload, LeavePage, NewPage, Escape, TableAnswered, CommentAnswered, Tick
  <2>8. CASE ClickPage \/ ClickSettings \/ \E d \in TableDialogs : OpenFromTable(d)
    BY <2>2, <2>8 DEF ClickPage, ClickSettings, OpenFromTable
  <2> QED
    BY <1>1, <2>3, <2>4, <2>5, <2>6, <2>7, <2>8 DEF DialogsNext, User, Server, Browser
<1>2. DialogsInv /\ [DialogsNext]_dialogVars => [Keeps]_dialogVars
  BY <1>1
<1> QED BY <1>2, DialogsInvariant, PTL DEF DialogsSpec, HelpKeepsSettings

-----------------------------------------------------------------------------
(* The countdown.                                                          *)

LEMMA CountdownInit == DialogsInit => OneCountdown
BY DialogsAssumption DEF DialogsInit, OneCountdown

LEMMA CountdownNext ==
    DialogsTypeOK /\ OneCountdown /\ [DialogsNext]_dialogVars => OneCountdown'
<1> SUFFICES ASSUME DialogsTypeOK, OneCountdown, [DialogsNext]_dialogVars
             PROVE  OneCountdown'
  OBVIOUS
<1>1. remaining \in [Timers -> 0..Seconds] /\ interval \in Timers \cup {NoTimer}
  BY DEF DialogsTypeOK
<1>2. CASE UNCHANGED <<interval, remaining>>
  BY <1>2 DEF OneCountdown
<1>3. ASSUME NEW saved \in BOOLEAN, SaveAnswered(saved) PROVE OneCountdown'
  <2>1. CASE saved
    <3>1. PICK i \in Timers : interval' = i /\ remaining' = [Cleared EXCEPT ![i] = Seconds]
      BY <1>3, <2>1 DEF SaveAnswered, StartCountdown
    <3>2. \A j \in Timers : Cleared[j] = 0
      BY <1>1 DEF Cleared, OneCountdown
    <3>3. \A j \in Timers : remaining'[j] = IF j = i THEN Seconds ELSE 0
      BY <3>1, <3>2 DEF Cleared
    <3> QED BY <3>1, <3>3, DialogsAssumption DEF OneCountdown
  <2>2. CASE ~saved
    BY <1>2, <1>3, <2>2 DEF SaveAnswered
  <2> QED BY <2>1, <2>2
<1>4. CASE Reload
  BY <1>4, DialogsAssumption DEF Reload, LeavePage, OneCountdown
<1>5. ASSUME NEW i \in Timers, Tick(i) PROVE OneCountdown'
  <2>1. CASE TickEnds(i) /\ interval' = NoTimer
                 /\ remaining' = [j \in Timers |-> IF j = interval THEN 0 ELSE remaining[j]]
    BY <1>1, <2>1, DialogsAssumption DEF OneCountdown
  <2>2. CASE remaining[i] > 1 /\ remaining' = [remaining EXCEPT ![i] = @ - 1]
             /\ interval' = interval
    <3>1. i = interval
      BY <2>2, <1>1 DEF OneCountdown
    <3>2. remaining'[i] > 0 /\ \A j \in Timers \ {i} : remaining'[j] = remaining[j]
      BY <2>2, <1>1
    <3> QED BY <2>2, <3>1, <3>2 DEF OneCountdown
  <2> QED BY <1>4, <1>5, <2>1, <2>2 DEF Tick
<1>6. CASE \/ ShowWelcomeIfNeeded \/ ShowHelp \/ ClickInside \/ SaveComment \/ Save
           \/ ClickPage \/ ClickSettings \/ ClickBackdrop \/ Escape \/ OpenApiKey
  BY <1>2, <1>6
     DEF ShowWelcomeIfNeeded, ShowHelp, ClickInside, SaveComment, Save, ClickPage,
         ClickSettings, ClickBackdrop, Escape, OpenApiKey
<1>7. CASE \/ TableAnswered \/ CommentAnswered \/ UNCHANGED dialogVars
           \/ \E d \in TableDialogs : OpenFromTable(d)
           \/ \E shown \in BOOLEAN : ToggleFilters(shown) \/ SettingsAnswered(shown)
  BY <1>2, <1>7
     DEF TableAnswered, CommentAnswered, dialogVars, OpenFromTable, ToggleFilters,
         SettingsAnswered
<1> QED
  BY <1>3, <1>4, <1>5, <1>6, <1>7 DEF DialogsNext, User, Server, Browser

(* Of all the intervals that were ever started at most one runs, the last. *)
THEOREM CountdownAlone == DialogsSpec => []OneCountdown
BY CountdownInit, CountdownNext, DialogsTypes, PTL DEF DialogsSpec
=============================================================================
