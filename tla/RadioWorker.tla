---------------------------- MODULE RadioWorker ----------------------------
(***************************************************************************)
(* The radio worker (src/radio/radio_worker.cpp): one thread that owns the *)
(* infrared backend, takes commands from a bounded queue and reports       *)
(* through the bounded queue of module EventQueue, and the one other       *)
(* thread (the user interface's) that calls start, stop, post and          *)
(* tryPopEvent.                                                            *)
(*                                                                         *)
(* A step of either thread touches shared state at most once: an atomic    *)
(* load or store, a critical section of one of the two mutexes, a          *)
(* notification, or a call of the backend.  The events that the code       *)
(* pushes one after the other wait in outbox and are pushed one per step,  *)
(* so every interleaving with the other thread is explored.                *)
(***************************************************************************)
EXTENDS EventQueue

CONSTANTS
    CommandCap,    \* kCommandQueueCapacity, 16 in the program
    Faults,        \* what may throw a std::exception, see FaultKinds
    MaxPosts,      \* bound: commands posted in a behaviour
    MaxStarts,     \* bound: calls of start in a behaviour
    MaxPackets     \* bound: packets received in a behaviour

\* The calls of the RadioBackend interface, the creation of the thread, and
\* "other": an exception (of an allocation, say) that only the outermost
\* handler of run catches.
FaultKinds == {"open", "startReceive", "stopReceive", "receive", "transmit",
               "thread", "other"}

ASSUME WorkerAssumption ==
    /\ CommandCap \in Nat \ {0}
    /\ Faults \subseteq FaultKinds
    /\ MaxPosts \in Nat /\ MaxStarts \in Nat /\ MaxPackets \in Nat

SendIds      == 1 .. MaxPosts
CommandKinds == {"send", "retry", "receiveOn", "receiveOff"}
Commands     == [kind : CommandKinds, id : 0 .. MaxPosts]
NoCommand    == [kind |-> "retry", id |-> 0]

VARIABLES
    running,           \* _running
    stopRequested,     \* _stop_requested
    commands,          \* _commands, guarded by _command_mutex
    events,            \* _events, guarded by _event_mutex
    pendingDropped,    \* _pending_dropped_events, guarded by _event_mutex
    pc,                \* where the worker thread is
    command,           \* the command it is handling
    initialized,       \* local of run
    receiveRequested,  \* local of run, set from _receive_on_start
    outbox,            \* events the worker is about to push, in order
    backend,           \* the backend's _open and _receiving
    client,            \* where the user interface's thread is
    posting,           \* the command it is posting
    posts, starts, packets,  \* how much of the bounds is used
    accepted,          \* history: sends accepted
    abandoned,         \* history: sends accepted that a thread left unanswered
    outcomes,          \* history: outcome events pushed for each send
    wrote,             \* history: sends whose whole frame was written
    reported           \* history: the last state pushed

shared  == <<running, stopRequested, commands, events, pendingDropped>>
worker  == <<pc, command, initialized, receiveRequested, outbox, backend>>
caller  == <<client, posting, posts, starts>>
history == <<packets, accepted, abandoned, outcomes, wrote, reported>>
vars    == <<shared, worker, caller, history>>

Closed == [open |-> FALSE, receiving |-> FALSE]
Opened == [open |-> TRUE,  receiving |-> FALSE]
Active == [open |-> TRUE,  receiving |-> TRUE]

Init ==
    /\ running = FALSE /\ stopRequested = FALSE
    /\ commands = <<>> /\ events = <<>> /\ pendingDropped = 0
    /\ pc = "none" /\ command = NoCommand
    /\ initialized = FALSE /\ receiveRequested = FALSE
    /\ outbox = <<>> /\ backend = Closed
    /\ client = "idle" /\ posting = NoCommand
    /\ posts = 0 /\ starts = 0 /\ packets = 0
    /\ accepted = {} /\ abandoned = {} /\ wrote = {} /\ reported = "Stopped"
    /\ outcomes = [i \in SendIds |-> <<>>]

-----------------------------------------------------------------------------
(* The worker thread.                                                      *)

\* The thread is between initializeBackend and the end of the loop.
Serving == pc \notin {"none", "leave", "done"}

Answered == {i \in SendIds : outcomes[i] # <<>>}

\* The thread is at l and has pushed everything it had to push before l.
At(l) == pc = l /\ outbox = <<>>

\* A call of the backend throws a std::exception.  Every call that takes the
\* cancellation token checks it, so that with a stop requested it throws
\* RadioCancelled instead.
Throws(call) == call \in Faults /\ ~stopRequested

\* A step of the thread: it goes to l, has evs to push, and leaves the backend
\* as b and initialized as i.  On its way out it answers nothing more.
Step(l, evs, b, i) ==
    /\ pc' = l /\ outbox' = evs /\ backend' = b /\ initialized' = i
    /\ abandoned' = IF l = "leave" THEN accepted \ Answered ELSE abandoned
    /\ UNCHANGED <<shared, caller, command, accepted, outcomes, reported>>

Same == UNCHANGED <<receiveRequested, packets, wrote>>

Goto(l, evs, b) == Step(l, evs, b, initialized) /\ Same

\* Mutations of GiveUp: initialized is not reset; the state is not pushed.
GiveUpButInitialized(evs) == Goto("top", Append(evs, Event("Error")), Closed)
GiveUpSilently(evs) == Step("top", evs, Closed, FALSE) /\ Same

\* The handlers that close the backend and give the radio up until a retry.
GiveUp(evs) == Step("top", Append(evs, Event("Error")), Closed, FALSE) /\ Same

\* The end of run: Stopping, close, Stopped.  The backend is the thread's own,
\* so the moment of the close between the two pushes is not visible.
Leave(evs) ==
    /\ Step("leave", evs \o <<Event("Stopping"), Event("Stopped")>>, Closed, initialized)
    /\ UNCHANGED <<receiveRequested, packets>>

PushEvent ==
    /\ outbox # <<>>
    /\ outbox' = Tail(outbox)
    /\ LET e == Head(outbox) IN
       /\ events' = Enqueue(events, e)
       /\ pendingDropped' = pendingDropped + Lost(events)
       /\ reported' = IF e.kind \in StateKinds THEN e.kind ELSE reported
       /\ outcomes' = IF e.kind \in OutcomeKinds
                      THEN [outcomes EXCEPT ![e.id] = Append(@, e.kind)]
                      ELSE outcomes
    /\ UNCHANGED <<running, stopRequested, commands, pc, command, initialized,
                   receiveRequested, backend, caller, packets, accepted, abandoned, wrote>>

\* initializeBackend: the old session is closed before the new one opens.
Open ==
    /\ At("init")
    /\ \/ ~stopRequested /\ Goto("initReceive", <<Event("Initialized")>>, Opened)
       \/ Throws("open") /\ GiveUp(<<Event("InitializeError")>>)

FinishInitialization ==
    /\ At("initReceive")
    /\ \/ receiveRequested /\ ~stopRequested
             /\ Step("top", <<Event("Receiving")>>, Active, TRUE) /\ Same
       \/ ~receiveRequested /\ Step("top", <<Event("Idle")>>, backend, TRUE) /\ Same
       \/ receiveRequested /\ Throws("startReceive") /\ GiveUp(<<Event("InitializeError")>>)

\* The condition of run's loop.
CheckStop ==
    /\ At("top")
    /\ IF stopRequested THEN Leave(<<>>) /\ UNCHANGED wrote ELSE Goto("pop", <<>>, backend)

\* Mutations: back for front; front without pop_front.
CommandTakenLast(q) == Last(q)
CommandsKept(q) == q

CommandTaken(q) == Head(q)
CommandsLeft(q) == Tail(q)

\* tryPopCommand, and where the loop goes without a command.
TryPopCommand ==
    /\ At("pop")
    /\ IF commands # <<>>
       THEN /\ command' = CommandTaken(commands)
            /\ commands' = CommandsLeft(commands)
            /\ pc' = "handle"
       ELSE /\ pc' = IF initialized /\ receiveRequested THEN "receive" ELSE "test"
            /\ UNCHANGED <<command, commands>>
    /\ UNCHANGED <<running, stopRequested, events, pendingDropped, initialized,
                   receiveRequested, outbox, backend, caller, history>>

\* Mutation: the predicate looks at the queue only.
QueueOnlyPredicate == commands # <<>>

\* The predicate of both waits on _command_cv.
WaitPredicate == stopRequested \/ commands # <<>>

\* It is evaluated with _command_mutex held; when it is false the thread still
\* holds the mutex at "armed", and releases it and blocks in one atomic step.
TestPredicate == At("test") /\ Goto(IF WaitPredicate THEN "top" ELSE "armed", <<>>, backend)

Block == At("armed") /\ Goto("blocked", <<>>, backend)

\* wait_for (initialized, not receiving) gives up after 100 ms; wait does not.
TimeOut == At("blocked") /\ initialized /\ Goto("top", <<>>, backend)

SpuriousWakeup == At("blocked") /\ Goto("test", <<>>, backend)

\* receive returns nothing, a packet, or throws.
ReceiveSlice ==
    /\ At("receive")
    /\ \/ ~stopRequested /\ Goto("top", <<>>, backend)
       \/ /\ ~stopRequested /\ packets < MaxPackets
          /\ Step("top", <<Event("RxPacket")>>, backend, initialized)
          /\ packets' = packets + 1
          /\ UNCHANGED <<receiveRequested, wrote>>
       \/ Throws("receive") /\ GiveUp(<<Event("OtherError")>>)

HandleRetry ==
    /\ At("handle") /\ command.kind = "retry"
    /\ Goto("init", <<Event("Initializing")>>, Closed)

HandleSetReceive ==
    /\ At("handle") /\ command.kind \in {"receiveOn", "receiveOff"}
    /\ LET on == command.kind = "receiveOn" IN
       /\ receiveRequested' = on
       /\ \/ ~initialized /\ Step("top", <<>>, backend, FALSE)
          \/ initialized /\ on /\ ~stopRequested
                /\ Step("top", <<Event("Receiving")>>, Active, TRUE)
          \/ initialized /\ ~on /\ Step("top", <<Event("Idle")>>, Opened, TRUE)
          \/ /\ initialized
             /\ IF on THEN Throws("startReceive") ELSE "stopReceive" \in Faults
             /\ Step("top", <<Event("OtherError"), Event("Error")>>, Closed, FALSE)
    /\ UNCHANGED <<packets, wrote>>

\* Mutation: a send that finds no radio is dropped without an answer.
NoAnswer(i) == <<>>

FailureOf(i) == <<SendEvent("TxFailed", i)>>

\* handleSend up to its first backend call.
BeginSend ==
    /\ At("handle") /\ command.kind = "send"
    /\ IF initialized
       THEN Goto(IF receiveRequested THEN "stopReceive" ELSE "transmit",
                 <<SendEvent("TxStarted", command.id), Event("Sending")>>, backend)
       ELSE Goto("top", FailureOf(command.id), backend)

\* The handler of a std::exception thrown by one of handleSend's three calls.
FailSend ==
    IF receiveRequested THEN Goto("restore", FailureOf(command.id), backend)
    ELSE GiveUp(FailureOf(command.id))

SuspendReceive ==
    /\ At("stopReceive")
    /\ \/ Goto("transmit", <<>>, Opened)
       \/ "stopReceive" \in Faults /\ FailSend

\* The whole frame is written, and the send is reported as completed.
Complete ==
    /\ Step("resume", <<SendEvent("TxCompleted", command.id)>>, backend, initialized)
    /\ wrote' = wrote \union {command.id}
    /\ UNCHANGED <<receiveRequested, packets>>

\* Mutation: a short write passes for a written frame.
TransmitShortWrite ==
    /\ At("transmit")
    /\ \/ ~stopRequested /\ Complete
       \/ Throws("transmit") /\ Goto("resume", <<SendEvent("TxCompleted", command.id)>>, backend)

Transmit ==
    /\ At("transmit")
    /\ \/ ~stopRequested /\ Complete
       \/ Throws("transmit") /\ FailSend

ResumeReceive ==
    /\ At("resume")
    /\ \/ receiveRequested /\ ~stopRequested /\ Goto("top", <<Event("Receiving")>>, Active)
       \/ ~receiveRequested /\ Goto("top", <<Event("Idle")>>, backend)
       \/ receiveRequested /\ Throws("startReceive") /\ FailSend

\* Mutation: the restored receive mode is not reported.
NoReport == <<>>

RestoredReport == <<Event("Receiving")>>

RestoreReceive ==
    /\ At("restore")
    /\ \/ ~stopRequested /\ Goto("top", RestoredReport, Active)
       \/ Throws("startReceive") /\ GiveUp(<<Event("OtherError")>>)

\* RadioCancelled, thrown by the call the thread makes next.  A frame may have
\* been written before transmit noticed the stop.
Cancel ==
    /\ stopRequested /\ outbox = <<>>
    /\ \/ pc \in {"init", "receive", "transmit", "restore"}
       \/ pc \in {"initReceive", "resume"} /\ receiveRequested
       \/ pc = "handle" /\ command.kind = "receiveOn" /\ initialized
    /\ Leave(<<>>)
    /\ wrote' \in IF pc = "transmit" THEN {wrote, wrote \union {command.id}} ELSE {wrote}

\* An exception only the outermost handler catches.
Unwind ==
    /\ "other" \in Faults /\ At("pop")
    /\ Leave(IF stopRequested THEN <<>> ELSE <<Event("OtherError"), Event("Error")>>)
    /\ UNCHANGED wrote

\* The last statement of run.
Finish ==
    /\ At("leave")
    /\ pc' = "done" /\ running' = FALSE
    /\ UNCHANGED <<stopRequested, commands, events, pendingDropped, command, initialized,
                   receiveRequested, outbox, backend, caller, history>>

WorkerStep ==
    \/ PushEvent \/ Open \/ FinishInitialization \/ CheckStop \/ TryPopCommand
    \/ TestPredicate \/ Block \/ TimeOut \/ ReceiveSlice
    \/ HandleRetry \/ HandleSetReceive \/ BeginSend \/ SuspendReceive \/ Transmit
    \/ ResumeReceive \/ RestoreReceive \/ Cancel \/ Unwind \/ Finish

-----------------------------------------------------------------------------
(* The user interface's thread.  It makes one call at a time.              *)

\* start: a finished thread is joined, both queues are emptied.
Start(receiveOnStart) ==
    /\ client = "idle" /\ ~running /\ pc \in {"none", "done"} /\ starts < MaxStarts
    /\ starts' = starts + 1
    /\ commands' = <<>> /\ events' = <<>> /\ pendingDropped' = 0
    /\ stopRequested' = FALSE
    /\ \/ /\ receiveRequested' = receiveOnStart
          /\ running' = TRUE /\ pc' = "init" /\ outbox' = <<Event("Initializing")>>
          /\ initialized' = FALSE
       \/ /\ "thread" \in Faults
          /\ pc' = "none"
          /\ UNCHANGED <<running, receiveRequested, outbox, initialized>>
    /\ UNCHANGED <<command, backend, client, posting, posts, history>>

ClientAt(here, next) ==
    /\ client = here /\ client' = next
    /\ UNCHANGED <<command, initialized, receiveRequested, outbox, backend, posts, starts,
                   history, events, pendingDropped>>

\* notify_one and notify_all: a thread that has not blocked yet hears nothing.
Notify == pc' = IF pc = "blocked" THEN "test" ELSE pc

StopStore ==
    /\ ClientAt("idle", "stopNotify")
    /\ stopRequested' = TRUE
    /\ UNCHANGED <<running, commands, pc, posting>>

\* Mutation: stop clears _running before the thread has ended.
StopNotifyEarly ==
    /\ ClientAt("stopNotify", "join")
    /\ Notify
    /\ running' = FALSE
    /\ UNCHANGED <<stopRequested, commands, posting>>

StopNotify ==
    /\ ClientAt("stopNotify", "join")
    /\ Notify
    /\ UNCHANGED <<running, stopRequested, commands, posting>>

Join ==
    /\ ClientAt("join", "idle")
    /\ pc \in {"none", "done"}
    /\ pc' = "none" /\ running' = FALSE
    /\ UNCHANGED <<stopRequested, commands, posting>>

\* post, up to its check of _running.  Payloads are valid: post refuses the
\* others before it looks at any state.
PostBegin(kind) ==
    /\ client = "idle" /\ posts < MaxPosts
    /\ posts' = posts + 1
    /\ IF running
       THEN /\ client' = "push"
            /\ posting' = [kind |-> kind, id |-> IF kind = "send" THEN posts + 1 ELSE 0]
       ELSE UNCHANGED <<client, posting>>
    /\ UNCHANGED <<shared, worker, starts, history>>

\* Mutation: nobody is notified.
AfterPushReturn == "idle"

AfterPush == "notify"

\* A full queue refuses the command (QueueFull).
PostPush ==
    /\ client = "push" /\ pc # "armed"
    /\ IF Len(commands) >= CommandCap
       THEN client' = "idle" /\ UNCHANGED <<commands, accepted, abandoned>>
       ELSE /\ client' = AfterPush
            /\ commands' = Append(commands, posting)
            /\ LET new == IF posting.kind = "send" THEN {posting.id} ELSE {} IN
               /\ accepted' = accepted \union new
               /\ abandoned' = IF Serving THEN abandoned ELSE abandoned \union new
    /\ UNCHANGED <<running, stopRequested, events, pendingDropped, worker, posting, posts,
                   starts, packets, outcomes, wrote, reported>>

PostNotify ==
    /\ ClientAt("notify", "idle")
    /\ Notify
    /\ UNCHANGED <<running, stopRequested, commands, posting>>

\* post of a RadioShutdownCommand.
ShutdownStore ==
    /\ ClientAt("idle", "shutdownNotify") /\ running
    /\ stopRequested' = TRUE
    /\ UNCHANGED <<running, commands, pc, posting>>

ShutdownNotify ==
    /\ ClientAt("shutdownNotify", "idle")
    /\ Notify
    /\ UNCHANGED <<running, stopRequested, commands, posting>>

\* The shared part of tryPopEvent: pending drops are reported first.
PopEvent ==
    /\ IF pendingDropped # 0
       THEN pendingDropped' = 0 /\ UNCHANGED events
       ELSE events # <<>> /\ events' = Tail(events) /\ UNCHANGED pendingDropped
    /\ UNCHANGED <<running, stopRequested, commands, worker, posting, posts, starts, history>>

TryPopEvent == client = "idle" /\ PopEvent /\ UNCHANGED client

\* What the calling thread does once it has begun a call.
ClientStep == StopNotify \/ Join \/ PostPush \/ PostNotify \/ ShutdownNotify

ClientCall ==
    \/ \E on \in BOOLEAN : Start(on)
    \/ StopStore \/ ShutdownStore \/ TryPopEvent
    \/ \E kind \in CommandKinds : PostBegin(kind)

Next == WorkerStep \/ SpuriousWakeup \/ ClientStep \/ ClientCall

Spec == Init /\ [][Next]_vars

\* Both threads run, and every backend call returns (receive polls for at most
\* 40 ms, a write lasts as long as its frame).  Nothing obliges the user to
\* call, and the C++ library need not wake a waiting thread spuriously.
FairSpec == Spec /\ WF_vars(WorkerStep) /\ WF_vars(ClientStep)

-----------------------------------------------------------------------------
(* Properties.                                                             *)

WorkerPcs == {"none", "init", "initReceive", "top", "pop", "handle", "receive", "test",
              "armed", "blocked", "stopReceive", "transmit", "resume", "restore",
              "leave", "done"}
ClientPcs == {"idle", "stopNotify", "join", "push", "notify", "shutdownNotify"}
Events    == [kind : EventKinds, id : 0 .. MaxPosts]

\* Every variable has its type, and neither queue outgrows its capacity.
TypeOK ==
    /\ running \in BOOLEAN /\ stopRequested \in BOOLEAN
    /\ commands \in Seq(Commands) /\ Len(commands) <= CommandCap
    /\ events \in Seq(Events) /\ Len(events) <= EventCap
    /\ pendingDropped \in Nat
    /\ pc \in WorkerPcs /\ command \in Commands
    /\ initialized \in BOOLEAN /\ receiveRequested \in BOOLEAN
    /\ outbox \in Seq(Events)
    /\ backend \in [open : BOOLEAN, receiving : BOOLEAN]
    /\ client \in ClientPcs /\ posting \in Commands
    /\ posts \in 0 .. MaxPosts /\ starts \in 0 .. MaxStarts /\ packets \in 0 .. MaxPackets
    /\ accepted \subseteq SendIds /\ abandoned \subseteq SendIds /\ wrote \subseteq SendIds
    /\ outcomes \in [SendIds -> Seq(OutcomeKinds)]
    /\ reported \in StateKinds

\* Where the thread is between two commands.
Resting == {"top", "pop", "handle", "receive", "test", "armed", "blocked"}

\* The backend session that initialized and receive_requested stand for.
Session == IF ~initialized THEN Closed ELSE IF receiveRequested THEN Active ELSE Opened

\* No call reaches a backend that is not open or polls one that is not
\* receiving: receive would answer "nothing" for ever and the radio would be
\* deaf without an error.  Between commands the backend is exactly as
\* initialized and receive_requested say.
BackendReady ==
    /\ pc \in {"initReceive", "stopReceive", "transmit", "resume", "restore"} => backend.open
    /\ pc \in Resting => backend = Session
    /\ pc = "receive" => backend.receiving
    /\ pc \in {"none", "leave", "done"} => ~backend.open

\* The state the user interface should be showing between two commands.
RestingState == IF ~initialized THEN "Error"
                ELSE IF receiveRequested THEN "Receiving" ELSE "Idle"

\* Whenever the thread is about to wait or to take a command, the last state
\* it reported is the one it is in, through failures and restores alike.
ReportFaithful == pc \in Resting /\ outbox = <<>> => reported = RestingState

\* The sends the thread still has to answer.
Waiting   == {commands[k].id : k \in {j \in DOMAIN commands : commands[j].kind = "send"}}
InHand    == IF command.kind = "send" /\ pc \in {"handle", "stopReceive", "transmit"}
             THEN {command.id} ELSE {}
Answering == {outbox[k].id : k \in {j \in DOMAIN outbox : outbox[j].kind \in OutcomeKinds}}

\* A send is answered at most once: never both as completed and as failed.
\* This needs a backend whose startReceive cannot fail on an open device, as
\* that of the LIRC and of the mock backend cannot.
OneOutcome ==
    /\ \A i \in SendIds : Len(outcomes[i]) <= 1
    /\ (Waiting \union InHand) \intersect (Answering \union Answered) = {}
    /\ Answering \intersect Answered = {}

\* A send is reported as completed only if its whole frame was written, and
\* as failed only if it was not.
OutcomeTruthful ==
    \A i \in SendIds : \A k \in DOMAIN outcomes[i] :
        (outcomes[i][k] = "TxCompleted") <=> (i \in wrote)

\* No accepted send is lost between the queue and its answer: unless its
\* thread ended it is in the queue, in hand, or answered.
NoneForgotten ==
    accepted \ abandoned \subseteq Waiting \union InHand \union Answering \union Answered

\* running says whether there is a thread that has not come to its end: a start
\* never replaces a live thread, and a retry never finds running with no thread
\* behind it, which only stop could then clear.
RunningMatchesThread == running <=> pc \notin {"none", "done"}

\* A thread that waits without a timeout has nothing to do: a command is never
\* left in the queue with nobody to notify it.
NoCommandStranded ==
    pc = "blocked" /\ commands # <<>> => client = "notify"

\* Every accepted send is answered unless the worker is told to stop or ends.
EverySendAnswered ==
    \A i \in SendIds : i \in accepted ~> (i \in Answered \/ i \in abandoned \/ stopRequested)

\* What the callers of post are promised, on its own: module SendService.
sendStatus == [i \in SendIds |->
    IF i \in Answered THEN (IF outcomes[i][1] = "TxCompleted" THEN "sent" ELSE "failed")
    ELSE IF i \in abandoned THEN "abandoned"
    ELSE IF i \in accepted THEN "waiting" ELSE "new"]

Service == INSTANCE SendService WITH Ids <- SendIds, status <- sendStatus

\* The worker implements the service: sends are answered at most once, in the
\* order they were accepted, and abandoned only all together.
ImplementsSendService == Service!Spec

\* A stop seen by a thread that is not already in the wait without a timeout
\* ends it, wherever it is: calls are cancelled and no queue holds it up.
InUntimedWait == pc \in {"armed", "blocked"} /\ ~initialized
StopSeen == (stopRequested /\ Serving /\ ~InUntimedWait) ~> ~Serving

\* stop always returns.  (It does not: see the run lost_wakeup.)
StopReturns == client = "join" ~> client = "idle"
=============================================================================
