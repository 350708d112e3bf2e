---------------------------- MODULE ChatViewModel ----------------------------
(***************************************************************************)
(* The view model of the chat page (src/view_models/chat_view_model.cpp)   *)
(* with the part of the chat model it works on (the draft, the history,    *)
(* what is shown of the radio), as operators on a record of                *)
(*   model   draft, status, info, messages (their ids), nextMessage        *)
(*   vm      section, compose, dialog, help, lastState, lastFailed         *)
(*   view    the page, see ChatView                                        *)
(*   radio   the worker as seen from here: running, its commands and the   *)
(*           events it has pushed or is about to push                      *)
(* Everything runs on one thread, and an observer is called within the     *)
(* set of the value it observes.                                           *)
(***************************************************************************)
EXTENDS ChatView, RadioInfo

CONSTANTS
    Chars,              \* printable characters
    NoChar,             \* '\0', no first character
    MaxMessageBytes,    \* kMaxMessageBytes, 7 in the program
    CommandCap          \* kCommandQueueCapacity

ASSUME ViewModelAssumption ==
    /\ NoChar \notin Chars
    /\ MaxMessageBytes \in Nat \ {0} /\ CommandCap \in Nat \ {0}

-----------------------------------------------------------------------------
(* A value is set, and the page, if there is one, shows it.                *)

Shown(a, v) == IF a.view.attached THEN [a EXCEPT !.view = v] ELSE a

PutDraft(a, draft)   == Shown([a EXCEPT !.model.draft = draft], [a.view EXCEPT !.editor = EditorDraft(@, draft)])
PutStatus(a, status) == Shown([a EXCEPT !.model.status = status], [a.view EXCEPT !.editor = EditorStatus(@, status)])
PutInfo(a, info)     == Shown([a EXCEPT !.model.info = info], [a.view EXCEPT !.infoPage = InfoPage(info)])
PutSection(a, s)     == Shown([a EXCEPT !.vm.section = s], SetSection(a.view, s))
PutCompose(a, on)    == Shown([a EXCEPT !.vm.compose = on], SetComposeActive(a.view, on))
PutDialog(a, on)     == Shown([a EXCEPT !.vm.dialog = on], SetDialogActive(a.view, on))
PutHelp(a, on)       == Shown([a EXCEPT !.vm.help = on], SetHelpActive(a.view, on))

AppendMessage(a) ==
    LET kept == IF Len(a.model.messages) >= HistoryLimit THEN Tail(a.model.messages) ELSE a.model.messages
        all  == Append(kept, a.model.nextMessage)
    IN  Shown([a EXCEPT !.model.messages = all, !.model.nextMessage = @ + 1],
              [a.view EXCEPT !.list = SetMessages(@, all)])

-----------------------------------------------------------------------------
(* ChatModel: the draft, the commands to the worker, the events from it.   *)

BeginCompose(a, first) == PutStatus(PutDraft(a, IF first = NoChar THEN <<>> ELSE <<first>>), "")

SetDraft(a, text) ==
    PutStatus(PutDraft(a, IF Len(text) > MaxMessageBytes THEN SubSeq(text, 1, MaxMessageBytes) ELSE text), "")

AppendDraft(a, c) ==
    IF Len(a.model.draft) >= MaxMessageBytes THEN PutStatus(a, "limit")
    ELSE PutStatus(PutDraft(a, Append(a.model.draft, c)), "")

EraseDraftCharacter(a) ==
    PutStatus(IF a.model.draft = <<>> THEN a ELSE PutDraft(a, Front(a.model.draft)), "")

ClearDraft(a) == PutStatus(PutDraft(a, <<>>), "")

\* RadioWorker::post.
Accepts(radio) == radio.running /\ Len(radio.commands) < CommandCap

Post(a, command) == [a EXCEPT !.radio.commands = Append(@, command)]

\* Why sendDraft refuses, if it does.
Refusal(a) ==
    IF a.model.draft = <<>> THEN "empty"
    ELSE IF ~a.model.info.ready THEN "not ready"
    ELSE IF ~Accepts(a.radio) THEN "refused" ELSE ""

SendDraft(a) ==
    IF Refusal(a) # "" THEN PutStatus(a, Refusal(a)) ELSE ClearDraft(Post(a, "send"))

FreshRadio == [running |-> TRUE, state |-> "init", commands |-> <<>>, events |-> <<>>]

\* Whether retryRadio reaches the worker; a worker that ended is started anew,
\* if the system has a thread for it.
RetryReaches(a, starts) == IF a.radio.running THEN Accepts(a.radio) ELSE starts

ModelRetryRadio(a, starts) ==
    LET announced == PutInfo(a, RetryShown(a.model.info)) IN
    IF ~RetryReaches(a, starts)
    THEN PutInfo(PutStatus(announced, "refused"), RetryFailed(announced.model.info))
    ELSE IF a.radio.running THEN Post(announced, "retry")
    ELSE [announced EXCEPT !.radio = FreshRadio]

\* Every outcome of a send becomes a message (see EveryAnswerFindsItsMessage).
TakeEvent(a, e) ==
    LET told == PutInfo(a, UiAfter(a.model.info, e))
    IN  IF IsRx(e) \/ e.kind \in OutcomeKinds THEN AppendMessage(told) ELSE told

\* ChatModel::tick with n events in the queue, taken one after the other.
ModelTick(a, n) ==
    FoldLeft(TakeEvent, [a EXCEPT !.radio.events = SubSeq(@, n + 1, Len(@))], SubSeq(a.radio.events, 1, n))

-----------------------------------------------------------------------------
(* ChatViewModel.                                                          *)

NewViewModel == [section |-> "Messages", compose |-> FALSE, dialog |-> FALSE, help |-> FALSE,
                 lastState |-> "Initializing", lastFailed |-> FALSE]

\* The radio shows an initialization that failed.
Failed(info) == info.state = "Error" /\ info.initFailed

OnEnter(a) ==
    LET info == a.model.info
        calm == PutHelp(PutSection(PutCompose(ClearDraft(a), FALSE),
                                   IF info.state = "Error" THEN "Info" ELSE "Messages"), FALSE)
    IN  PutDialog([calm EXCEPT !.vm.lastState = info.state, !.vm.lastFailed = Failed(info)], Failed(info))

OnExit(a) ==
    PutHelp(PutDialog(IF a.vm.compose THEN PutCompose(ClearDraft(a), FALSE) ELSE a, FALSE), FALSE)

OpenCompose(a, first) == PutCompose(BeginCompose(a, first), TRUE)
CancelCompose(a)      == PutCompose(ClearDraft(a), FALSE)

SendCompose(a) ==
    LET sent == PutSection(SendDraft(a), "Messages")
    IN  IF Refusal(a) # "" THEN SendDraft(a)
        ELSE PutCompose(Shown(sent, ScrollMessagesToBottom(sent.view)), FALSE)

\* Mutation: the last failure is remembered, and the next one taken for it.
RememberFailure(a) == a

\* A new failure is one that comes after the retry.
ForgetFailure(a) == [a EXCEPT !.vm.lastFailed = FALSE]

RetryRadio(a, starts) ==
    PutDialog(ModelRetryRadio(ForgetFailure(a), starts), ~RetryReaches(a, starts))

Scroll(a, amount) == Shown(a, ScrollMessages(a.view, amount))

\* Mutation: the dialog is asked before the help that covers it.
OverlayDialogFirst(vm) ==
    IF vm.dialog THEN "dialog" ELSE IF vm.help THEN "help" ELSE IF vm.compose THEN "compose" ELSE "page"

\* Which part of the page a key is for.
Overlay(vm) ==
    IF vm.help THEN "help" ELSE IF vm.dialog THEN "dialog" ELSE IF vm.compose THEN "compose" ELSE "page"

Modal(vm) == Overlay(vm) # "page"

DialogKey(a, key, starts) ==
    CASE key = "Esc"              -> PutDialog(a, FALSE)
      [] key \in {"Enter", "r"}   -> RetryRadio(a, starts)
      [] OTHER                    -> a

ComposeKey(a, key) ==
    CASE key = "Esc"                     -> CancelCompose(a)
      [] key \in {"Backspace", "Delete"} -> EraseDraftCharacter(a)
      [] key = "Enter"                   -> SendCompose(a)
      [] key \in Chars                   -> AppendDraft(a, key)
      [] OTHER                           -> a

PageKey(a, key, starts) ==
    LET reading == a.vm.section = "Messages" IN
    IF ~reading /\ a.model.info.state = "Error" /\ key \in {"Enter", "r"} THEN RetryRadio(a, starts)
    ELSE CASE key \in {"Left", "z"}     -> PutSection(a, "Messages")
           [] key \in {"Right", "c"}    -> PutSection(a, "Info")
           [] key = "Up" /\ reading     -> Scroll(a, ScrollStep)
           [] key = "Up" /\ ~reading    -> PutSection(a, "Messages")
           [] key = "Down" /\ reading   -> Scroll(a, -ScrollStep)
           [] key = "Down" /\ ~reading  -> PutSection(a, "Info")
           [] key = "Enter"             -> OpenCompose(a, NoChar)
           [] key \in Chars \ {"z", "c"} -> OpenCompose(a, key)
           [] OTHER                     -> a

VmOnKey(a, key, starts) ==
    IF key = "Help" THEN PutHelp(a, ~a.vm.help)
    ELSE CASE Overlay(a.vm) = "help"    -> IF key = "Esc" THEN PutHelp(a, FALSE) ELSE a
           [] Overlay(a.vm) = "dialog"  -> DialogKey(a, key, starts)
           [] Overlay(a.vm) = "compose" -> ComposeKey(a, key)
           [] Overlay(a.vm) = "page"    -> PageKey(a, key, starts)

\* The states before and after up to EventsPerTick events are compared.
VmTick(a, n) ==
    LET t      == ModelTick(a, n)
        info   == t.model.info
        broken == IF info.state = "Error" /\ a.vm.lastState # "Error" THEN PutSection(t, "Info") ELSE t
        closed == IF broken.vm.compose THEN CancelCompose(broken) ELSE broken
        told   == IF Failed(info) /\ ~a.vm.lastFailed THEN PutDialog(PutSection(closed, "Info"), TRUE) ELSE broken
        calm   == IF info.ready /\ told.vm.dialog THEN PutDialog(told, FALSE) ELSE told
    IN  [calm EXCEPT !.vm.lastState = info.state, !.vm.lastFailed = Failed(info)]
=============================================================================
