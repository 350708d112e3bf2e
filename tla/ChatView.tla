------------------------------- MODULE ChatView -------------------------------
(***************************************************************************)
(* The chat page (src/views/chat_view.cpp) as operators on its state, a    *)
(* record of                                                               *)
(*   attached    whether the page exists and observes the view model       *)
(*   list        the messages (MessageListView)                            *)
(*   tip         the title that slides in over them: none, waiting, shown, *)
(*               closing, gone                                             *)
(*   section     the page chosen; visible, the pages not hidden; fading    *)
(*   editor      the dialog in which a message is typed                    *)
(*   failure     the dialog of a failed initialization: active, hidden     *)
(*   help        whether the help covers the page                          *)
(*   indicator   whether the page indicator is visible                     *)
(*   infoPage    what the radio page shows                                 *)
(* Colours, sizes and texts are left out.  The pager's copies of the three *)
(* active flags are those of the dialogs.                                  *)
(***************************************************************************)
EXTENDS MessageListView

NewEditor == [active |-> FALSE, hidden |-> TRUE, focusPending |-> FALSE, inGroup |-> FALSE,
              text |-> <<>>, cursor |-> 0, status |-> ""]

-----------------------------------------------------------------------------
(* ComposeDialog.                                                          *)

\* A text set by the program puts the cursor at its end.
EditorDraft(e, draft) ==
    IF draft = e.text THEN e ELSE [e EXCEPT !.text = draft, !.cursor = Len(draft)]

EditorStatus(e, status) == [e EXCEPT !.status = status]

\* Mutation: the text area stays in the keyboard's group.
StayInGroup(e) == e

\* removeInputFromGroup.
LeaveGroup(e) == [e EXCEPT !.inGroup = FALSE]

EditorActive(e, active) ==
    IF active = e.active THEN e
    ELSE IF active THEN [e EXCEPT !.active = TRUE, !.hidden = FALSE, !.focusPending = TRUE]
    ELSE LeaveGroup([e EXCEPT !.active = FALSE, !.focusPending = FALSE])

\* focusInput: the keyboard's group has no other object.
FocusInput(e) == IF e.focusPending THEN [e EXCEPT !.focusPending = FALSE, !.inGroup = TRUE] ELSE e

\* The dialog is hidden when its closing animation is done.
HiddenOrNot(d) == IF d.active THEN {d} ELSE {d, [d EXCEPT !.hidden = TRUE]}

EditorTick(e) == HiddenOrNot(FocusInput(e))

\* What LVGL's text area does with a key, and whether it says that its text
\* changed.  A full one takes no more.
Inserted(e, c)  == [e EXCEPT !.text = SubSeq(e.text, 1, e.cursor) \o <<c>> \o SubSeq(e.text, e.cursor + 1, Len(e.text)),
                             !.cursor = @ + 1]
DeletedAt(e, k) == [e EXCEPT !.text = RemoveAt(e.text, k), !.cursor = k - 1]

-----------------------------------------------------------------------------
(* The dialog of a failed initialization, the help, the title.             *)

FailureActive(f, active) ==
    IF active = f.active THEN f
    ELSE IF active THEN [active |-> TRUE, hidden |-> FALSE]
    ELSE [f EXCEPT !.active = FALSE]

ShowTitle(tip)    == IF tip = "waiting" THEN "shown" ELSE tip
DismissTitle(tip) == IF tip = "shown" THEN "closing" ELSE tip
TitleTick(tip) ==
    CASE tip = "shown"   -> {"shown", "closing"}
      [] tip = "closing" -> {"closing", "gone"}
      [] OTHER           -> {tip}

-----------------------------------------------------------------------------
(* RadioInfoView::setInfo.                                                 *)

InfoPage(info) ==
    [status |-> info.state,
     offer  |-> IF info.state = "Error" THEN "retry" ELSE "backend",
     stats  |-> IF info.state = "Error" \/ info.text = "sendFailed" THEN "diagnostics" ELSE "counters"]

-----------------------------------------------------------------------------
(* ChatPager.                                                              *)

\* What opens over the page puts the title and the indicator away.
Covered(v, active) ==
    IF active THEN [v EXCEPT !.tip = DismissTitle(@), !.indicator = FALSE] ELSE v

SetComposeActive(v, active) == [Covered(v, active) EXCEPT !.editor = EditorActive(@, active)]
SetDialogActive(v, active)  == [Covered(v, active) EXCEPT !.failure = FailureActive(@, active)]
SetHelpActive(v, active)    == [Covered(v, active) EXCEPT !.help = active]

FirstSection(v, section) ==
    [v EXCEPT !.section = section, !.visible = {section},
              !.tip = IF section = "Messages" THEN ShowTitle(@) ELSE @]

\* Both pages are visible while one fades into the other.
SetSection(v, section) ==
    IF section = v.section THEN v
    ELSE [v EXCEPT !.section = section, !.visible = {"Messages", "Info"}, !.fading = TRUE,
                   !.tip = IF section = "Messages" THEN ShowTitle(@) ELSE DismissTitle(@)]

\* ChatView::onScrollRequestChanged: every request has a serial of its own.
ScrollMessages(v, amount)   == [v EXCEPT !.list = ScrollBy(@, amount), !.tip = DismissTitle(@)]
ScrollMessagesToBottom(v)   == [v EXCEPT !.list = ScrollToBottom(@)]

\* Whether the page is bare: the indicator comes back.
Bare(v) == ~v.editor.active /\ ~v.failure.active /\ ~v.help /\ v.editor.hidden /\ v.failure.hidden

\* Whether a fade is done.
FadedOrNot(v) == IF v.fading THEN BOOLEAN ELSE {TRUE}

\* The page with its parts moved on, and the fade done or not.
Moved(v, list, tip, editor, failure, faded) ==
    [v EXCEPT !.list = list, !.tip = tip, !.editor = editor, !.failure = failure,
              !.fading = ~faded, !.visible = IF faded THEN {v.section} ELSE @,
              !.indicator = @ \/ Bare([v EXCEPT !.editor = editor, !.failure = failure])]

PagerTick(v) ==
    {Moved(v, l, t, e, f, faded) :
        l \in ListTick(v.list), t \in TitleTick(v.tip), e \in EditorTick(v.editor),
        f \in HiddenOrNot(v.failure), faded \in FadedOrNot(v)}

-----------------------------------------------------------------------------
(* ChatView.                                                               *)

NoView ==
    [attached |-> FALSE, list |-> NewList, tip |-> "none", section |-> "Messages",
     visible |-> {"Messages"}, fading |-> FALSE, editor |-> NewEditor,
     failure |-> [active |-> FALSE, hidden |-> TRUE], help |-> FALSE, indicator |-> TRUE,
     infoPage |-> [status |-> "", offer |-> "", stats |-> ""]]

\* onEnter builds a new page, the first one with the title, and every observer
\* is called with the value there is.
ViewEnter(messages, info, section, draft, status, compose, dialog, help) ==
    LET empty   == [NoView EXCEPT !.attached = TRUE, !.tip = "waiting", !.list = SetMessages(@, messages),
                                  !.infoPage = InfoPage(info),
                                  !.editor = EditorStatus(EditorDraft(@, draft), status)]
    IN  SetHelpActive(SetDialogActive(SetComposeActive(FirstSection(empty, section), compose), dialog), help)

\* onExit destroys it.
ViewExit == NoView

ViewTick(v) == IF v.attached THEN PagerTick(v) ELSE {v}
=============================================================================
