----------------------------- MODULE ChatModel -----------------------------
(***************************************************************************)
(* The chat model (src/models/chat_model.cpp) on top of the radio worker:  *)
(* the user interface's thread starts and stops the worker, posts sends    *)
(* and retries, and at every tick pops a bounded number of events and      *)
(* turns them into the state, the diagnostics and the messages it shows.   *)
(* The worker thread runs between any two of its steps.                    *)
(***************************************************************************)
EXTENDS RadioWorker, RadioInfo

CONSTANTS
    EventsPerTick,   \* kMaxEventsPerTick, 16 in the program
    HistoryLimit     \* kMessageHistoryLimit, 64 in the program

ASSUME ChatAssumption == EventsPerTick \in Nat \ {0} /\ HistoryLimit \in Nat \ {0}

VARIABLES
    started,      \* _started
    ui,           \* _radio_info: state, ready, initializationFailed, diagnostics, droppedCount
    pending,      \* the keys of _pending_messages
    messages,     \* _messages, oldest first
    nextMessage,  \* _next_message_id
    uiPc,         \* the call of the chat model in progress
    budget,       \* events this tick may still pop
    shown         \* history: how many messages each send has become

chatVars == <<started, ui, pending, messages, nextMessage, uiPc, budget, shown>>
allVars  == <<vars, chatVars>>

ChatInit ==
    /\ Init
    /\ started = FALSE
    /\ ui = Starting
    /\ pending = {} /\ messages = <<>> /\ nextMessage = 1
    /\ uiPc = "idle" /\ budget = 0 /\ shown = [i \in SendIds |-> 0]

ChatUnchanged == UNCHANGED <<started, pending, messages, nextMessage, budget, shown>>

-----------------------------------------------------------------------------
(* start, stop, sendDraft and retryRadio.                                  *)

StartFailed == ~running'

ChatStart ==
    /\ ~started /\ uiPc = "idle"
    /\ Start(TRUE)
    /\ started' = TRUE
    /\ messages' = <<>> /\ pending' = {} /\ nextMessage' = 1
    /\ ui' = IF StartFailed THEN StartFailedInfo ELSE Starting
    /\ UNCHANGED <<uiPc, budget, shown>>

ChatStop ==
    /\ started /\ uiPc = "idle"
    /\ StopStore
    /\ uiPc' = "stop"
    /\ UNCHANGED ui /\ ChatUnchanged

ChatStopNotify ==
    /\ StopNotify
    /\ UNCHANGED <<ui, uiPc>> /\ ChatUnchanged

ChatStopped ==
    /\ Join
    /\ uiPc' = "idle" /\ started' = FALSE /\ pending' = {}
    /\ ui' = [ui EXCEPT !.state = "Stopped", !.ready = FALSE, !.text = "plain"]
    /\ UNCHANGED <<messages, nextMessage, budget, shown>>

\* sendDraft with a draft that is neither empty nor too long.
SendDraft ==
    /\ uiPc = "idle" /\ ui.ready
    /\ PostBegin("send")
    /\ uiPc' = IF running THEN "send" ELSE "idle"
    /\ UNCHANGED ui /\ ChatUnchanged

\* The view model calls it in an error (the info page) and while the dialog of a
\* failed initialization is open, which an event that makes the radio ready
\* closes.  Whether the dialog is open is left to the user's choice.
CanRetry == started /\ uiPc = "idle" /\ (ui.state = "Error" \/ ~ui.ready)

RetryRestart ==
    /\ CanRetry /\ ~running
    /\ Start(TRUE)
    /\ ui' = IF StartFailed
             THEN RetryFailed(RetryShown(ui)) ELSE RetryShown(ui)
    /\ UNCHANGED uiPc /\ ChatUnchanged

RetryBegin ==
    /\ CanRetry /\ running /\ client = "idle" /\ posts < MaxPosts
    /\ ui' = RetryShown(ui)
    /\ uiPc' = "retry"
    /\ UNCHANGED vars /\ ChatUnchanged

\* post looks at _running a second time.
RetryPost ==
    /\ uiPc = "retry"
    /\ PostBegin("retry")
    /\ IF running THEN UNCHANGED <<ui, uiPc>> ELSE uiPc' = "idle" /\ ui' = RetryFailed(ui)
    /\ ChatUnchanged

Refused == client' = "idle"

ChatPostPush ==
    /\ PostPush
    /\ uiPc' = IF Refused THEN "idle" ELSE uiPc
    /\ IF Refused /\ uiPc = "retry" THEN ui' = RetryFailed(ui) ELSE UNCHANGED ui
    /\ ChatUnchanged

\* Mutation: the message is entered under the number of the next send.
ChatPostedUnderNextId ==
    /\ PostNotify
    /\ uiPc' = "idle"
    /\ pending' = IF uiPc = "send" THEN pending \union {posting.id + 1} ELSE pending
    /\ UNCHANGED <<ui, started, messages, nextMessage, budget, shown>>

\* Only now, with the worker perhaps already sending, does sendDraft enter the
\* message in _pending_messages.
ChatPosted ==
    /\ PostNotify
    /\ uiPc' = "idle"
    /\ pending' = IF uiPc = "send" THEN pending \union {posting.id} ELSE pending
    /\ UNCHANGED <<ui, started, messages, nextMessage, budget, shown>>

-----------------------------------------------------------------------------
(* tick.                                                                   *)

TickBegin ==
    /\ started /\ uiPc = "idle"
    /\ uiPc' = "tick" /\ budget' = EventsPerTick
    /\ UNCHANGED <<vars, ui, started, pending, messages, nextMessage, shown>>

TickEnd ==
    /\ uiPc = "tick"
    /\ budget = 0 \/ (pendingDropped = 0 /\ events = <<>>)
    /\ uiPc' = "idle" /\ budget' = 0
    /\ UNCHANGED <<vars, ui, started, pending, messages, nextMessage, shown>>

\* Mutations: the history grows one message too long; the mark is forgotten.
AppendMessageTooLate(send, failed) ==
    /\ messages' = Append(IF Len(messages) > HistoryLimit THEN Tail(messages) ELSE messages,
                          [id |-> nextMessage, send |-> send, failed |-> failed])
    /\ nextMessage' = nextMessage + 1
AppendMessageUnmarked(send, failed) ==
    /\ messages' = Append(IF Len(messages) >= HistoryLimit THEN Tail(messages) ELSE messages,
                          [id |-> nextMessage, send |-> send, failed |-> FALSE])
    /\ nextMessage' = nextMessage + 1

\* appendMessage: the oldest message makes room for the new one.
AppendMessage(send, failed) ==
    /\ messages' = Append(IF Len(messages) >= HistoryLimit THEN Tail(messages) ELSE messages,
                          [id |-> nextMessage, send |-> send, failed |-> failed])
    /\ nextMessage' = nextMessage + 1

TickOverflow ==
    /\ uiPc = "tick" /\ budget > 0 /\ pendingDropped # 0
    /\ PopEvent /\ UNCHANGED client
    /\ budget' = budget - 1
    /\ ui' = [ui EXCEPT !.dropped = @ + pendingDropped, !.text = "plain"]
    /\ UNCHANGED <<started, pending, messages, nextMessage, uiPc, shown>>

\* Mutation: only a completed send takes its message out of the pending ones.
ConcludesCompletedOnly(e) == e.kind = "TxCompleted" /\ e.id \in pending

\* Mutation: a send that is no longer pending is concluded again.
ConcludesAgain(e) == e.kind \in OutcomeKinds

\* The event is the outcome of a send whose message is pending.
Concludes(e) == e.kind \in OutcomeKinds /\ e.id \in pending

TickEvent ==
    /\ uiPc = "tick" /\ budget > 0 /\ pendingDropped = 0 /\ events # <<>>
    /\ PopEvent /\ UNCHANGED client
    /\ budget' = budget - 1
    /\ LET e == Head(events) IN
       /\ ui' = UiAfter(ui, e)
       /\ IF Concludes(e)
          THEN /\ AppendMessage(e.id, e.kind = "TxFailed")
               /\ pending' = pending \ {e.id}
               /\ shown' = [shown EXCEPT ![e.id] = @ + 1]
          ELSE /\ IF IsRx(e) THEN AppendMessage(0, FALSE) ELSE UNCHANGED <<messages, nextMessage>>
               /\ UNCHANGED <<pending, shown>>
    /\ UNCHANGED <<started, uiPc>>

-----------------------------------------------------------------------------
\* What the interface's thread does once it has begun a call.
ChatStep ==
    \/ ChatStopNotify \/ ChatStopped \/ RetryPost \/ ChatPostPush \/ ChatPosted
    \/ TickOverflow \/ TickEvent \/ TickEnd

RadioStep == (WorkerStep \/ SpuriousWakeup) /\ UNCHANGED chatVars

UserCall == ChatStart \/ ChatStop \/ SendDraft \/ RetryRestart \/ RetryBegin

ChatNext == ChatStep \/ TickBegin \/ UserCall \/ RadioStep

ChatSpec == ChatInit /\ [][ChatNext]_allVars

\* As for the worker alone; main's loop calls tick for ever; and a thread that
\* waits for the command mutex gets it, for the worker holds it only while it
\* tests the predicate of its wait.
ChatFairSpec ==
    /\ ChatSpec
    /\ WF_allVars(WorkerStep /\ UNCHANGED chatVars)
    /\ WF_allVars(ChatStep)
    /\ SF_allVars(ChatPostPush)
    /\ WF_allVars(TickBegin)

-----------------------------------------------------------------------------
(* Properties.                                                             *)

Messages == [id : Nat, send : 0 .. MaxPosts, failed : BOOLEAN]

\* Every variable has its type.
ChatTypeOK ==
    /\ TypeOK
    /\ started \in BOOLEAN
    /\ ui \in [state : UiStates, ready : BOOLEAN, initFailed : BOOLEAN, text : Texts,
               dropped : Nat]
    /\ pending \subseteq SendIds
    /\ messages \in Seq(Messages) /\ Len(messages) <= HistoryLimit
    /\ nextMessage \in Nat /\ budget \in 0 .. EventsPerTick
    /\ uiPc \in {"idle", "stop", "send", "retry", "tick"}
    /\ shown \in [SendIds -> Nat]

\* A send becomes a message at most once, also when the worker answers it twice (a
\* startReceive that fails after the frame was written) and when its first message
\* has left the history; and no two messages of the history are of one send.
ShownOnce ==
    /\ \A i \in SendIds : shown[i] <= 1
    /\ \A j, k \in DOMAIN messages :
           messages[j].send = messages[k].send /\ messages[k].send # 0 => j = k

\* The chat tells the truth about a send: its message is marked as failed exactly
\* when its frame was not written.  Like OneOutcome this needs a backend whose
\* startReceive cannot fail on an open device.
MessagesTruthful ==
    \A k \in DOMAIN messages :
        LET m == messages[k] IN m.send # 0 => (m.failed <=> m.send \notin wrote)

\* A send whose message is not shown is still on its way: in a queue, in the
\* worker's hands or reported, or its worker ended, or the interface was told
\* that events were dropped.  A worker restarted by retryRadio starts with
\* empty queues, so the claim is about its first life.
Reported == {events[k].id : k \in {j \in DOMAIN events : events[j].kind \in OutcomeKinds}}
PendingAccounted ==
    starts <= 1 /\ ui.dropped + pendingDropped = 0 =>
        pending \subseteq Waiting \union InHand \union Answering \union Reported
                          \union abandoned

\* The message of every accepted send is pending until it is shown.  The worker may
\* well answer a send before sendDraft has entered it; but only tick takes the
\* answer out of the queue, and the thread that calls tick is still in sendDraft.
EveryAnswerFindsItsMessage ==
    [][TickEvent /\ Head(events).kind \in OutcomeKinds => Head(events).id \in pending]_allVars

\* Everything the worker did has been shown, and nothing is under way.
Settled ==
    /\ started /\ uiPc = "idle" /\ client = "idle"
    /\ outbox = <<>> /\ commands = <<>> /\ events = <<>> /\ pendingDropped = 0
    /\ pc \in {"top", "pop", "receive", "test", "armed", "blocked"}

\* Whatever the user pressed in between, once the queues are drained the
\* interface shows the state the worker is in, and it offers to send exactly
\* when the worker can.  (Events dropped from a full queue may break this.)
InterfaceAgrees ==
    Settled /\ ui.dropped = 0 =>
        /\ ui.state = UiState(RestingState)
        /\ ui.ready = initialized

\* A worker that ended by itself is offered nothing to send, however many of its
\* last reports were still queued and whatever it left in its own queue, and is
\* shown as an error unless a retry is in that queue (see RetryNotLost).
RetryQueued == \E k \in DOMAIN commands : commands[k].kind = "retry"
EndedWorkerShown ==
    started /\ uiPc = "idle" /\ pc = "done" /\ events = <<>> /\ pendingDropped = 0 =>
        /\ ~ui.ready
        /\ ui.state = "Error" \/ RetryQueued

\* An interface that says "initializing" belongs to a worker that is: a retry
\* is not accepted by a worker that will not carry it out.
RetryNotLost ==
    started /\ uiPc = "idle" /\ pc = "done" /\ events = <<>> /\ pendingDropped = 0 =>
        ui.state # "Initializing"

\* Every message typed is shown in the end, as sent or as failed, unless the
\* application is stopped or the worker ends.
EveryMessageShown ==
    \A i \in SendIds :
        i \in pending ~> (i \notin pending \/ i \in abandoned \/ ui.dropped > 0 \/ stopRequested)

\* Initialization ends, in a state that receives or in an error the user may
\* retry, unless the application is stopped.
InitializationSettles ==
    (ui.state = "Initializing" /\ started) ~> (ui.state # "Initializing" \/ stopRequested)
=============================================================================
