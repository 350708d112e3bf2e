------------------------------ MODULE IRChatApp ------------------------------
(***************************************************************************)
(* The application (src/core/ir_chat_app.cpp, main.cpp) in the device      *)
(* build: it starts the chat model, the view model and the page, routes    *)
(* every key to the text area or to the view model, and ticks both in      *)
(* main's loop until Esc is pressed with nothing open.  The radio worker,  *)
(* modelled in RadioWorker, is here what its events say of it.             *)
(***************************************************************************)
EXTENDS ChatViewModel

CONSTANTS
    EventsPerTick,   \* kMaxEventsPerTick, 16 in the program
    Scenes           \* bound: what the user presses and the radio does in a run

\* A scene is [keys, typed, messages, lag, troubled]: the keys pressed, how long
\* a draft gets, how many messages there may be, how many events may be under
\* way when the radio does something more, whether it may fail.
ASSUME SceneAssumption ==
    /\ EventsPerTick \in Nat \ {0}
    /\ \A s \in Scenes : {s.typed, s.messages, s.lag} \subseteq Nat /\ s.troubled \in BOOLEAN

VARIABLES
    app,       \* the record of ChatViewModel
    phase,     \* main: starting, running, quitting (Esc was pressed), leaving, stopped
    answered,  \* history: the user closed the dialog of the failure now shown
    scene

vars == <<app, phase, answered, scene>>

-----------------------------------------------------------------------------
(* Keys.                                                                   *)

\* focusedTextInput: the only object in the keyboard's group is the editor's.
TextFocused(a) == a.view.editor.inGroup

\* LVGL tells the dialog of a change, which tells the view model.
Typed(a, e) == SetDraft([a EXCEPT !.view.editor = e], e.text)

MoveCursor(a, cursor) == [a EXCEPT !.view.editor.cursor = cursor]

\* handleFocusedTextInput takes every key that reaches it.
TextInput(a, key) ==
    LET e == a.view.editor IN
    CASE key = "BACKSPACE" /\ e.cursor > 0           -> Typed(a, DeletedAt(e, e.cursor))
      [] key = "DEL" /\ e.cursor < Len(e.text)       -> Typed(a, DeletedAt(e, e.cursor + 1))
      [] key = "LEFT" /\ e.cursor > 0                -> MoveCursor(a, e.cursor - 1)
      [] key = "RIGHT" /\ e.cursor < Len(e.text)     -> MoveCursor(a, e.cursor + 1)
      [] key = "HOME"                                -> MoveCursor(a, 0)
      [] key = "END"                                 -> MoveCursor(a, Len(e.text))
      [] key \in Chars /\ Len(e.text) < MaxMessageBytes -> Typed(a, Inserted(e, key))
      [] OTHER                                       -> a

First  == [ESC |-> "Esc", ENTER |-> "Enter", HELP |-> "Help"]
Moves  == [BACKSPACE |-> "Backspace", DEL |-> "Delete", UP |-> "Up", DOWN |-> "Down",
           LEFT |-> "Left", PREV |-> "Left", RIGHT |-> "Right", NEXT |-> "Right"]
Letters == [f |-> "Up", x |-> "Down", z |-> "Left", c |-> "Right"]

\* onLvglKeyState with a key pressed, up to IRChatApp::onKey; "" when no key is
\* passed on.
Routed(a, key) ==
    IF key \in DOMAIN First THEN First[key]
    ELSE IF key \in DOMAIN Moves THEN Moves[key]
    ELSE IF key \in DOMAIN Letters /\ ~Modal(a.vm) THEN Letters[key]
    ELSE IF key \in Chars THEN key ELSE ""

Quits(a, key) == key = "ESC" /\ ~Modal(a.vm)

OnLvglKeyState(a, key, starts) ==
    IF key \notin DOMAIN First /\ TextFocused(a) THEN TextInput(a, key)
    ELSE IF Quits(a, key) \/ Routed(a, key) = "" THEN a
    ELSE VmOnKey(a, Routed(a, key), starts)

-----------------------------------------------------------------------------
(* The main loop.                                                          *)

NoModel == [draft |-> <<>>, status |-> "", info |-> Starting, messages |-> <<>>, nextMessage |-> 1]

Init ==
    /\ app = [model |-> NoModel, vm |-> NewViewModel, view |-> NoView,
              radio |-> [FreshRadio EXCEPT !.running = FALSE]]
    /\ phase = "starting" /\ answered = FALSE
    /\ scene \in Scenes

\* The messages there are and those under way.
Outcomes(radio) ==
    Len(SelectSeq(radio.events, LAMBDA e : IsRx(e) \/ e.kind \in OutcomeKinds))
    + Len(SelectSeq(radio.commands, LAMBDA c : c = "send"))
Within(a) ==
    /\ Len(a.model.draft) <= scene.typed
    /\ a.model.nextMessage - 1 + Outcomes(a.radio) <= scene.messages

\* start: the worker is started, the page of the router is entered.
AppStart ==
    /\ phase = "starting"
    /\ phase' = "running"
    /\ \E starts \in {TRUE, ~scene.troubled} :
           LET modelled == IF starts THEN [app EXCEPT !.radio = FreshRadio]
                           ELSE [app EXCEPT !.model.info = StartFailedInfo]
               e == OnEnter(modelled)
           IN  app' = [e EXCEPT !.view = ViewEnter(e.model.messages, e.model.info, e.vm.section, e.model.draft,
                                                  e.model.status, e.vm.compose, e.vm.dialog, e.vm.help)]
    /\ UNCHANGED <<answered, scene>>

\* keypad.poll calls back with every key pressed; a key released is taken too,
\* and does nothing.
Key(key) ==
    /\ phase \in {"running", "quitting"}
    /\ \E starts \in {TRUE, ~scene.troubled} : app' = OnLvglKeyState(app, key, starts)
    /\ Within(app')
    /\ phase' = IF Quits(app, key) THEN "quitting" ELSE phase
    /\ answered' = (Failed(app'.model.info) /\ (answered \/ (app.vm.dialog /\ ~app'.vm.dialog)))
    /\ UNCHANGED scene

\* The view model first, then the page.  The worker has pushed n of its events.
Tick ==
    /\ phase \in {"running", "quitting"}
    /\ \E n \in 0 .. Min({Len(app.radio.events), EventsPerTick}) :
           LET t == VmTick(app, n) IN
           /\ \E v \in ViewTick(t.view) : app' = [t EXCEPT !.view = v]
           /\ answered' = (answered /\ Failed(t.model.info))
    /\ phase' = IF phase = "quitting" THEN "leaving" ELSE phase
    /\ UNCHANGED scene

\* stop: the page goes before the view model lets its values go.
AppStop ==
    /\ phase = "leaving"
    /\ phase' = "stopped"
    /\ LET closed == OnExit([app EXCEPT !.view = ViewExit])
       IN  app' = [closed EXCEPT !.model.info.state = "Stopped", !.model.info.ready = FALSE,
                                 !.model.info.text = "plain", !.radio.running = FALSE]
    /\ answered' = FALSE
    /\ UNCHANGED scene

-----------------------------------------------------------------------------
(* The radio: what the worker may push next.                               *)

Pushes(kinds) == [k \in DOMAIN kinds |-> Event(kinds[k])]

RadioDoes(state, kinds, commands) ==
    /\ phase \in {"running", "quitting", "leaving"} /\ app.radio.running /\ app.radio.state # "ended"
    /\ Len(app.radio.events) <= scene.lag
    /\ app' = [app EXCEPT !.radio.state = state, !.radio.commands = commands,
                          !.radio.events = @ \o Pushes(kinds)]
    /\ UNCHANGED <<phase, answered, scene>>

Commands == app.radio.commands
Working  == app.radio.state = "up"

\* An initialization, the first one or that of a retry.
Initializes(commands) ==
    \/ RadioDoes("up", <<"Initializing", "Initialized", "Receiving">>, commands)
    \/ scene.troubled /\ RadioDoes("down", <<"Initializing", "InitializeError", "Error">>, commands)

RadioOpens   == app.radio.state = "init" /\ Initializes(Commands)
RadioRetries ==
    /\ app.radio.state # "init" /\ Commands # <<>> /\ Head(Commands) = "retry"
    /\ Initializes(Tail(Commands))

RadioSends ==
    /\ app.radio.state # "init" /\ Commands # <<>> /\ Head(Commands) = "send"
    /\ \/ Working /\ RadioDoes("up", <<"TxStarted", "Sending", "TxCompleted", "Receiving">>, Tail(Commands))
       \/ /\ Working /\ scene.troubled
          /\ \/ RadioDoes("up", <<"TxStarted", "Sending", "TxFailed", "Receiving">>, Tail(Commands))
             \/ RadioDoes("down", <<"TxStarted", "Sending", "TxFailed", "OtherError", "Error">>, Tail(Commands))
       \/ ~Working /\ RadioDoes("down", <<"TxFailed">>, Tail(Commands))

RadioHears ==
    /\ Working /\ RadioDoes("up", <<"RxPacket">>, Commands)
    /\ Within(app')

RadioBreaks ==
    /\ Working /\ scene.troubled
    /\ RadioDoes("down", <<"OtherError", "Error">>, Commands)

\* The worker ends by an exception; its queues stay as they are, and only a
\* worker started anew carries out the commands left.
RadioEnds ==
    /\ scene.troubled
    /\ RadioDoes("ended", <<"OtherError", "Error", "Stopping", "Stopped">>, Commands)

\* It clears _running after its last report, which may have been read by then.
RadioGone ==
    /\ app.radio.running /\ app.radio.state = "ended"
    /\ app' = [app EXCEPT !.radio.running = FALSE]
    /\ UNCHANGED <<phase, answered, scene>>

Radio ==
    \/ RadioOpens \/ RadioRetries \/ RadioSends \/ RadioHears \/ RadioBreaks
    \/ RadioEnds \/ RadioGone

AnyKey == \E key \in scene.keys : Key(key)

Next == AppStart \/ AnyKey \/ Tick \/ AppStop \/ Radio

Spec == Init /\ [][Next]_vars

-----------------------------------------------------------------------------
(* Properties.                                                             *)

Up == phase \in {"running", "quitting", "leaving"}

\* The text the user sees is the draft that is sent, whichever of the two the
\* keys went to; the editor is open exactly when the view model says so; and
\* the keyboard belongs to the text area of an open editor only, so that no key
\* is lost in an editor that is gone.
EditorAgrees ==
    Up =>
        LET e == app.view.editor IN
        /\ e.text = app.model.draft /\ e.status = app.model.status
        /\ e.cursor <= Len(e.text) /\ Len(e.text) <= MaxMessageBytes
        /\ e.active = app.vm.compose
        /\ e.inGroup \/ e.focusPending => e.active
        /\ e.active => e.inGroup # e.focusPending

\* The bubbles drawn one by one are the messages of the history, also when the
\* history drops its oldest; and the list at rest follows new messages exactly
\* when the last ones are near, or with a full history were a row ago.
RowsShown ==
    Up => ShowsMessages(app.view.list, app.model.messages) /\ FollowsBottom(app.view.list)

\* A failed initialization is on the screen, on the page of the radio, until
\* the user has answered it, whatever else happened within the same tick; and
\* it never shares the screen with an editor.
FailureAnnounced ==
    /\ Up /\ Failed(app.model.info) => app.vm.dialog \/ answered
    /\ ~(app.vm.dialog /\ app.vm.compose)
    /\ Up /\ app.vm.dialog => app.vm.section = "Info"

Opened(vm) == Cardinality({o \in {"compose", "dialog", "help"} : vm[o]})

Sends(radio) == Cardinality({k \in DOMAIN radio.commands : radio.commands[k] = "send"})

\* What is open holds the keys, whichever is pressed now: under the help
\* nothing happens but in the text area behind it (its keys do reach the
\* draft); under the dialog of a failure nothing is sent; and Esc closes one
\* thing at a time and quits only when nothing is open.
ModalHoldsKeys ==
    Up => \A key \in scene.keys :
        LET after == OnLvglKeyState(app, key, TRUE) IN
        /\ app.vm.help =>
               after = [app EXCEPT !.model.draft = after.model.draft, !.model.status = after.model.status,
                                   !.view = after.view, !.vm.help = after.vm.help]
        /\ app.vm.dialog => Sends(after.radio) <= Sends(app.radio)
        /\ Quits(app, key) => Opened(app.vm) = 0
        /\ Opened(after.vm) >= Opened(app.vm) - 1

\* A reader who has scrolled up stays with the message on top of the screen
\* while new ones arrive, until the history drops it.
Reading(l) == ~l.follow /\ ~l.animating
OnTop(l)   == l.rows[l.y + 1]
ReaderKeepsPlace ==
    [][LET old == app.view.list  new == app'.view.list IN
       Reading(old) /\ new.rows # old.rows =>
           IF OnTop(old) \in {new.rows[k] : k \in DOMAIN new.rows}
           THEN OnTop(new) = OnTop(old) ELSE new.y = 0]_vars
=============================================================================
