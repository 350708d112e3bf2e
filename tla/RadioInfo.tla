------------------------------ MODULE RadioInfo ------------------------------
(***************************************************************************)
(* What the chat model shows of the radio (_radio_info of                  *)
(* src/models/chat_model.cpp) as operators on a record                     *)
(*   state, ready, initFailed    as in the code                            *)
(*   text                        the diagnostics                           *)
(*   dropped                     droppedCount                              *)
(* and what an event, or the user's retry, makes of it.                    *)
(***************************************************************************)
EXTENDS EventQueue

\* Diagnostics are told apart as far as tick does: a text "Send failed: ...",
\* another text with a colon, any other text.
Texts    == {"sendFailed", "error", "plain"}
UiStates == {"Initializing", "Receiving", "Sending", "Error", "Stopped"}

\* start, and what it shows when the worker could not be started.
Starting == [state |-> "Initializing", ready |-> FALSE, initFailed |-> FALSE,
             text |-> "plain", dropped |-> 0]
StartFailedInfo == [Starting EXCEPT !.state = "Error", !.initFailed = TRUE]

\* retryRadio announces the retry before it looks at the worker.
RetryShown(info) == [info EXCEPT !.state = "Initializing", !.ready = FALSE,
                                 !.initFailed = FALSE, !.text = "plain"]

RetryFailed(info) == [info EXCEPT !.state = "Error", !.ready = FALSE, !.text = "plain"]

\* Mutation: a worker that ended is shown as stopped, where no retry is offered.
UiStateStopped(state) ==
    CASE state = "Initializing"            -> "Initializing"
      [] state \in {"Idle", "Receiving"}   -> "Receiving"
      [] state \in {"Stopping", "Stopped"} -> "Stopped"
      [] OTHER                             -> state

\* What the interface shows for a state the worker reports.
UiState(state) ==
    CASE state = "Initializing"            -> "Initializing"
      [] state \in {"Idle", "Receiving"}   -> "Receiving"
      [] state = "Sending"                 -> "Sending"
      [] OTHER                             -> "Error"

\* The diagnostics after a state: an error keeps a text that explains it, a
\* restored receive mode keeps the report of the failed send.
TextAfterState(info, state) ==
    IF \/ state = "Error" /\ info.text \in {"error", "sendFailed"}
       \/ state = "Receiving" /\ info.text = "sendFailed"
    THEN info.text ELSE "plain"

UiAfter(info, e) ==
    CASE e.kind \in StateKinds ->
             [info EXCEPT !.state = UiState(e.kind),
                        !.ready = e.kind \in {"Idle", "Receiving", "Sending"},
                        !.initFailed = @ /\ e.kind \in {"Error", "Stopping", "Stopped"},
                        !.text = TextAfterState(info, e.kind)]
      [] e.kind = "Initialized" ->
             [info EXCEPT !.ready = TRUE, !.initFailed = FALSE, !.text = "plain"]
      [] e.kind \in {"InitializeError", "OtherError"} ->
             [info EXCEPT !.initFailed = (e.kind = "InitializeError"), !.text = "error"]
      [] e.kind = "TxStarted" ->
             [info EXCEPT !.state = "Sending", !.ready = TRUE, !.text = "plain"]
      [] e.kind = "TxFailed" -> [info EXCEPT !.text = "sendFailed"]
      [] OTHER -> [info EXCEPT !.text = "plain"]
=============================================================================
