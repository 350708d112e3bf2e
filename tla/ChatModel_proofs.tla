-------------------------- MODULE ChatModel_proofs --------------------------
(***************************************************************************)
(* What the chat shows of the sends and of the radio, for every capacity   *)
(* of the queues, every limit of a tick and of the history, and any number *)
(* of sends, retries, starts and stops.                                    *)
(*                                                                         *)
(* The chat model is one particular caller of the radio worker             *)
(* (ChatIsACaller), so everything proved of the worker holds here too; the *)
(* invariants of this module say what has become of its reports.           *)
(***************************************************************************)
EXTENDS ChatModel, RadioWorker_proofs

-----------------------------------------------------------------------------
(* The invariants.                                                         *)

\* Which call of the worker the call of the chat model in progress has begun.
CallInv ==
    /\ uiPc \in {"idle", "tick"} => client = "idle"
    /\ uiPc = "stop" => client \in {"stopNotify", "join"}
    /\ uiPc = "send" => client \in {"push", "notify"} /\ posting.kind = "send"
    /\ uiPc = "retry" => /\ client \in {"idle", "push", "notify"}
                         /\ client # "idle" => posting.kind = "retry"
    /\ uiPc \in {"idle", "stop", "send", "retry", "tick"}

\* Until the first start nothing is accepted.
FirstStartInv == starts = 0 => ~running /\ client # "push" /\ accepted = {}

\* The chat model posts no other command.
KindsInv ==
    /\ \A k \in DOMAIN commands : commands[k].kind \in {"send", "retry"}
    /\ command.kind \in {"send", "retry"} /\ posting.kind \in {"send", "retry"}

\* An outcome in the event queue or in a message is the one the send had, and the
\* queue holds one of each send.
OutcomesInv ==
    /\ \A k \in DOMAIN events : events[k].kind \in OutcomeKinds =>
           events[k].id \in Answered /\ FirstOutcome(events[k].id) = events[k].kind
    /\ \A j, k \in DOMAIN events :
           events[j].kind \in OutcomeKinds /\ events[k].kind \in OutcomeKinds
             /\ events[j].id = events[k].id => j = k

ShownInv ==
    \A k \in DOMAIN messages : messages[k].send # 0 =>
        /\ messages[k].send \in Answered
        /\ messages[k].failed <=> FirstOutcome(messages[k].send) = "TxFailed"

\* The send that sendDraft has posted and not yet entered.
Posted == IF uiPc = "send" /\ client = "notify" THEN {posting.id} ELSE {}

\* No answer comes for a send that is not pending, or about to be.
AwaitedInv ==
    started => Waiting \union InHand \union Answering \union Reported \subseteq pending \union Posted

\* A pending send that is answered is reported, while no report was dropped.
NothingDropped == ui.dropped + pendingDropped = 0

PendingInv ==
    /\ pending \union Posted \subseteq accepted
    /\ starts <= 1 /\ NothingDropped => (pending \union Posted) \intersect Answered \subseteq Reported

\* A send that has become a message is one that was accepted and is no longer
\* pending, and the history holds the messages of such sends, one of each.
IsShown(i) == i \in SendIds /\ shown[i] # 0

OnceShownInv ==
    /\ \A i \in SendIds : shown[i] <= 1
    /\ \A i \in SendIds : shown[i] # 0 => i \in accepted /\ i \notin pending \union Posted
    /\ \A k \in DOMAIN messages : messages[k].send # 0 => IsShown(messages[k].send)
    /\ \A j, k \in DOMAIN messages :
           messages[j].send = messages[k].send /\ messages[k].send # 0 => j = k

\* The last word of a thread is "Stopped", and it reaches the interface.
LastIs(q, kind) == q # <<>> /\ q[Len(q)].kind = kind

\* A retry is being made whose command is not yet in the queue.
Retrying == uiPc = "retry" /\ client # "notify"

ShownAsEnded == ~ui.ready /\ (ui.state = "Error" \/ RetryQueued \/ Retrying)

EndedInv ==
    /\ pc \in {"leave", "done"} =>
           \/ LastIs(outbox, "Stopped")
           \/ outbox = <<>> /\ LastIs(events, "Stopped")
           \/ outbox = <<>> /\ events = <<>> /\ ShownAsEnded
    /\ pc \in {"none", "done"} => outbox = <<>>

\* The events that change ui.state or ui.ready, and the last of them in q.
Telling == StateKinds \union {"Initialized", "TxStarted"}

Silent(q)      == \A k \in DOMAIN q : q[k].kind \notin Telling
Says(q, state) == \E k \in DOMAIN q : /\ q[k].kind = state
                                      /\ \A j \in DOMAIN q : k < j => q[j].kind \notin Telling

Agrees(state) == /\ ui.state = UiState(state)
                 /\ ui.ready = (state \in {"Idle", "Receiving", "Sending"})

\* A retry was announced that the worker has not begun, or it was refused by a
\* full queue, whose commands a worker with a radio will report on.
RetryAhead ==
    \/ Retrying
    \/ \E k \in DOMAIN commands : commands[k].kind = "retry"
    \/ initialized /\ commands # <<>>

Shows(state) ==
    \/ Says(outbox, state)
    \/ /\ Silent(outbox)
       /\ Says(events, state) \/ (Silent(events) /\ (Agrees(state) \/ RetryAhead))

\* From "handle" the worker reports, unless it has no radio for a send.
AtRest == pc \in Resting /\ ~(pc = "handle" /\ (initialized \/ command.kind = "retry"))

InterfaceInv == AtRest /\ NothingDropped => Shows(RestingState)

-----------------------------------------------------------------------------
(* The chat model as a caller of the worker.                               *)

LEMMA RadioLeavesCaller ==
    ASSUME WorkerStep \/ SpuriousWakeup
    PROVE  UNCHANGED caller
BY DEF WorkerStep, PushEvent, Open, FinishInitialization, CheckStop, TryPopCommand, TestPredicate,
       Block, TimeOut, SpuriousWakeup, ReceiveSlice, HandleRetry, HandleSetReceive, BeginSend,
       SuspendReceive, Transmit, ResumeReceive, RestoreReceive, Cancel, Unwind, Finish,
       Complete, FailSend, GiveUp, Leave, Goto, Step

LEMMA CallStep ==
    ASSUME CallInv, [ChatNext]_allVars
    PROVE  CallInv' /\ [Next]_vars
<1> USE DEF CallInv
<1>1. CASE RadioStep
  <2>1. UNCHANGED <<client, posting, uiPc>>
    BY <1>1, RadioLeavesCaller DEF RadioStep, caller, chatVars
  <2>2. QED
    BY <1>1, <2>1 DEF RadioStep, Next
<1>2. CASE ChatStart \/ RetryRestart
  <2>1. UNCHANGED <<client, posting, uiPc>> /\ \E on \in BOOLEAN : Start(on)
    BY <1>2 DEF ChatStart, RetryRestart, Start
  <2>2. QED
    BY <2>1 DEF Next, ClientCall
<1>3. CASE ChatStop
  BY <1>3 DEF ChatStop, StopStore, ClientAt, Next, ClientCall
<1>4. CASE ChatStopNotify \/ ChatStopped
  BY <1>4 DEF ChatStopNotify, ChatStopped, StopNotify, Join, ClientAt, Next, ClientStep
<1>5. CASE SendDraft
  <2>1. PostBegin("send") /\ "send" \in CommandKinds
    BY <1>5 DEF SendDraft, CommandKinds
  <2>2. CallInv'
    BY <1>5 DEF SendDraft, PostBegin
  <2>3. QED
    BY <2>1, <2>2 DEF Next, ClientCall
<1>6. CASE RetryPost
  <2>1. PostBegin("retry") /\ "retry" \in CommandKinds
    BY <1>6 DEF RetryPost, CommandKinds
  <2>2. CallInv'
    BY <1>6 DEF RetryPost, PostBegin
  <2>3. QED
    BY <2>1, <2>2 DEF Next, ClientCall
<1>7. CASE RetryBegin \/ TickBegin \/ TickEnd \/ UNCHANGED allVars
  <2>1. UNCHANGED vars
    BY <1>7 DEF RetryBegin, TickBegin, TickEnd, allVars
  <2>2. UNCHANGED <<client, posting>>
    BY <2>1 DEF vars, caller
  <2>3. QED
    BY <1>7, <2>1, <2>2 DEF RetryBegin, TickBegin, TickEnd, allVars, chatVars
<1>8. CASE ChatPostPush
  <2>1. PostPush /\ posting' = posting /\ client = "push" /\ client' \in {"idle", "notify"}
        /\ uiPc' = IF client' = "idle" THEN "idle" ELSE uiPc
    BY <1>8 DEF ChatPostPush, PostPush, AfterPush, Refused
  <2>2. QED
    BY <2>1 DEF Next, ClientStep
<1>9. CASE ChatPosted
  BY <1>9 DEF ChatPosted, PostNotify, ClientAt, Next, ClientStep
<1>10. CASE TickOverflow \/ TickEvent
  <2>1. PopEvent /\ UNCHANGED <<client, posting, uiPc>> /\ uiPc = "tick"
    BY <1>10 DEF TickOverflow, TickEvent, PopEvent
  <2>2. QED
    BY <2>1 DEF Next, ClientCall, TryPopEvent
<1>11. QED
  BY <1>1, <1>2, <1>3, <1>4, <1>5, <1>6, <1>7, <1>8, <1>9, <1>10 DEF ChatNext, ChatStep, UserCall

LEMMA CallInvariant == ChatSpec => []CallInv
<1>1. ChatInit => CallInv
  BY DEF ChatInit, Init, CallInv
<1>2. CallInv /\ [ChatNext]_allVars => CallInv'
  BY CallStep
<1>3. QED
  BY <1>1, <1>2, PTL DEF ChatSpec

\* The chat model uses the worker as its caller may: every behaviour of the two
\* together is one of the worker, so that whatever Spec implies holds of it.
THEOREM ChatIsACaller == ChatSpec => Spec
<1>1. ChatInit => Init
  BY DEF ChatInit
<1>2. CallInv /\ [ChatNext]_allVars => [Next]_vars
  BY CallStep
<1>3. QED
  BY <1>1, <1>2, CallInvariant, PTL DEF ChatSpec, Spec
-----------------------------------------------------------------------------
(* Types.                                                                   *)

Infos == [state : UiStates, ready : BOOLEAN, initFailed : BOOLEAN, text : Texts, dropped : Nat]

LEMMA InfoTypes ==
    ASSUME NEW info \in Infos
    PROVE  /\ Starting \in Infos /\ StartFailedInfo \in Infos
           /\ RetryShown(info) \in Infos /\ RetryFailed(info) \in Infos
           /\ \A e \in Events : UiAfter(info, e) \in Infos
<1> USE DEF Infos, UiStates, Texts
<1>1. Starting \in Infos /\ StartFailedInfo \in Infos
  BY DEF Starting, StartFailedInfo
<1>2. RetryShown(info) \in Infos /\ RetryFailed(info) \in Infos
  BY DEF RetryShown, RetryFailed
<1>3. ASSUME NEW e \in Events PROVE UiAfter(info, e) \in Infos
  <2>1. CASE e.kind \in StateKinds
    <3> DEFINE state == UiState(e.kind)
               ready == e.kind \in {"Idle", "Receiving", "Sending"}
               failed == info.initFailed /\ e.kind \in {"Error", "Stopping", "Stopped"}
               text == TextAfterState(info, e.kind)
    <3>1. state \in UiStates /\ ready \in BOOLEAN /\ failed \in BOOLEAN
      BY DEF UiState
    <3>2. text \in Texts
      BY DEF TextAfterState
    <3>3. UiAfter(info, e) = [info EXCEPT !.state = state, !.ready = ready,
                                          !.initFailed = failed, !.text = text]
      BY <2>1 DEF UiAfter, StateKinds
    <3> HIDE DEF state, ready, failed, text
    <3>4. QED
      BY <3>1, <3>2, <3>3
  <2>2. CASE e.kind \notin StateKinds
    BY <2>2 DEF UiAfter
  <2>3. QED
    BY <2>1, <2>2
<1>4. QED
  BY <1>1, <1>2, <1>3

\* What the chat's own variables hold.
ChatTypes ==
    /\ started \in BOOLEAN /\ ui \in Infos /\ pending \subseteq SendIds
    /\ messages \in Seq(Messages) /\ Len(messages) <= HistoryLimit
    /\ nextMessage \in Nat /\ budget \in 0 .. EventsPerTick
    /\ uiPc \in {"idle", "stop", "send", "retry", "tick"}
    /\ shown \in [SendIds -> Nat]

LEMMA AppendMessageTypes ==
    ASSUME ChatTypes, NEW send \in 0 .. MaxPosts, NEW failed \in BOOLEAN,
           AppendMessage(send, failed)
    PROVE  messages' \in Seq(Messages) /\ Len(messages') <= HistoryLimit /\ nextMessage' \in Nat
<1> DEFINE kept == IF Len(messages) >= HistoryLimit THEN Tail(messages) ELSE messages
           m == [id |-> nextMessage, send |-> send, failed |-> failed]
<1>1. m \in Messages
  BY DEF ChatTypes, Messages
<1>2. kept \in Seq(Messages) /\ Len(kept) + 1 <= HistoryLimit
  <2>1. messages \in Seq(Messages) /\ Len(messages) <= HistoryLimit /\ HistoryLimit \in Nat \ {0}
    BY ChatAssumption DEF ChatTypes
  <2>2. messages # <<>> => Tail(messages) \in Seq(Messages) /\ Len(Tail(messages)) = Len(messages) - 1
    BY <2>1
  <2>3. CASE Len(messages) >= HistoryLimit
    <3>1. messages # <<>>
      BY <2>1, <2>3
    <3>2. QED
      BY <2>1, <2>2, <2>3, <3>1
  <2>4. CASE ~(Len(messages) >= HistoryLimit)
    BY <2>1, <2>4
  <2>5. QED
    BY <2>3, <2>4
<1>3. messages' = Append(kept, m) /\ nextMessage' = nextMessage + 1
  BY DEF AppendMessage
<1> HIDE DEF kept, m
<1>4. QED
  BY <1>1, <1>2, <1>3, ChatAssumption DEF ChatTypes

LEMMA TickEventTypes ==
    ASSUME TypeInv, ChatTypes, TickEvent
    PROVE  ChatTypes'
<1> DEFINE e == Head(events)
<1> e \in Events
  BY DEF TickEvent, TypeInv, TypeOK
<1>1. /\ ui' = UiAfter(ui, e) /\ UNCHANGED <<started, uiPc>>
      /\ budget > 0 /\ budget' = budget - 1
      /\ IF Concludes(e)
         THEN /\ AppendMessage(e.id, e.kind = "TxFailed")
              /\ pending' = pending \ {e.id}
              /\ shown' = [shown EXCEPT ![e.id] = @ + 1]
         ELSE /\ IF IsRx(e) THEN AppendMessage(0, FALSE) ELSE UNCHANGED <<messages, nextMessage>>
              /\ UNCHANGED <<pending, shown>>
  BY DEF TickEvent
<1> HIDE DEF e
<1>2. ui' \in Infos /\ budget' \in 0 .. EventsPerTick
  <2>1. budget' \in 0 .. EventsPerTick
    BY <1>1, ChatAssumption DEF ChatTypes
  <2>2. QED
    BY <1>1, <2>1, InfoTypes DEF ChatTypes
<1>3. messages' \in Seq(Messages) /\ Len(messages') <= HistoryLimit /\ nextMessage' \in Nat
  <2>1. CASE Concludes(e)
    <3>1. e.id \in 0 .. MaxPosts /\ (e.kind = "TxFailed") \in BOOLEAN
      BY <1>1 DEF Events
    <3>2. QED
      BY <1>1, <2>1, <3>1, AppendMessageTypes
  <2>2. CASE ~Concludes(e) /\ IsRx(e)
    <3>1. 0 \in 0 .. MaxPosts
      BY WorkerAssumption
    <3>2. QED
      BY <1>1, <2>2, <3>1, AppendMessageTypes
  <2>3. CASE ~Concludes(e) /\ ~IsRx(e)
    BY <1>1, <2>3 DEF ChatTypes
  <2>4. QED
    BY <2>1, <2>2, <2>3
<1>4. pending' \subseteq SendIds /\ shown' \in [SendIds -> Nat]
  <2>1. pending \subseteq SendIds /\ shown \in [SendIds -> Nat]
    BY DEF ChatTypes
  <2>2. CASE Concludes(e)
    BY <1>1, <2>1, <2>2 DEF Concludes
  <2>3. CASE ~Concludes(e)
    BY <1>1, <2>1, <2>3
  <2>4. QED
    BY <2>2, <2>3
<1>5. QED
  BY <1>1, <1>2, <1>3, <1>4 DEF ChatTypes

LEMMA ChatTypesStep ==
    ASSUME TypeInv, CallInv, ChatTypes, [ChatNext]_allVars
    PROVE  ChatTypes'
<1> USE DEF ChatTypes
<1>1. CASE RadioStep \/ UNCHANGED allVars
  BY <1>1 DEF RadioStep, allVars, chatVars
<1>2. CASE ChatStart
  <2>1. ui' \in Infos
    BY <1>2, InfoTypes DEF ChatStart
  <2>2. Len(<<>>) <= HistoryLimit
    <3>1. Len(<<>>) = 0 /\ HistoryLimit \in Nat
      BY ChatAssumption
    <3>2. QED
      BY <3>1
  <2>3. messages' = <<>> /\ started' = TRUE /\ pending' = {} /\ nextMessage' = 1
        /\ UNCHANGED <<uiPc, budget, shown>>
    BY <1>2 DEF ChatStart
  <2>4. QED
    BY <2>1, <2>2, <2>3
<1>3. CASE ChatStop \/ ChatStopNotify \/ SendDraft
  BY <1>3 DEF ChatStop, ChatStopNotify, SendDraft, ChatUnchanged
<1>4. CASE ChatStopped
  <2>1. ui' \in Infos
    BY <1>4 DEF ChatStopped, Infos, UiStates, Texts
  <2>2. QED
    BY <1>4, <2>1 DEF ChatStopped
<1>5. CASE RetryRestart \/ RetryBegin \/ RetryPost
  <2>1. ui' \in Infos
    BY <1>5, InfoTypes DEF RetryRestart, RetryBegin, RetryPost
  <2>2. QED
    BY <1>5, <2>1 DEF RetryRestart, RetryBegin, RetryPost, ChatUnchanged
<1>6. CASE ChatPostPush
  <2>1. ui' \in Infos
    BY <1>6, InfoTypes DEF ChatPostPush
  <2>2. QED
    BY <1>6, <2>1 DEF ChatPostPush, ChatUnchanged
<1>7. CASE ChatPosted
  <2>1. pending' \subseteq SendIds
    BY <1>7 DEF ChatPosted, CallInv, TypeInv, GoodCommands
  <2>2. QED
    BY <1>7, <2>1 DEF ChatPosted
<1>8. CASE TickBegin \/ TickEnd
  BY <1>8, ChatAssumption DEF TickBegin, TickEnd
<1>9. CASE TickOverflow
  <2>1. ui' \in Infos
    <3>1. ui \in Infos /\ pendingDropped \in Nat
      BY DEF TypeInv, TypeOK
    <3>2. ui' = [ui EXCEPT !.dropped = ui.dropped + pendingDropped, !.text = "plain"]
      BY <1>9 DEF TickOverflow
    <3>3. ui.dropped + pendingDropped \in Nat
      BY <3>1 DEF Infos
    <3>4. QED
      BY <3>1, <3>2, <3>3 DEF Infos, Texts
  <2>2. budget' \in 0 .. EventsPerTick
    BY <1>9, ChatAssumption DEF TickOverflow
  <2>3. QED
    BY <1>9, <2>1, <2>2 DEF TickOverflow
<1>10. CASE TickEvent
  BY <1>10, TickEventTypes
<1>11. QED
  BY <1>1, <1>2, <1>3, <1>4, <1>5, <1>6, <1>7, <1>8, <1>9, <1>10 DEF ChatNext, ChatStep, UserCall

LEMMA ChatTypesInvariant == ChatSpec => []ChatTypes
<1>1. ChatInit => ChatTypes
  <2> SUFFICES ASSUME ChatInit PROVE ChatTypes
    OBVIOUS
  <2>1. Starting \in Infos
    BY DEF Starting, Infos, UiStates, Texts
  <2>2. messages = <<>> => messages \in Seq(Messages) /\ Len(messages) <= HistoryLimit
    BY ChatAssumption
  <2>3. 0 \in 0 .. EventsPerTick /\ 1 \in Nat
    BY ChatAssumption
  <2>4. QED
    BY <2>1, <2>2, <2>3 DEF ChatInit, ChatTypes
<1>2. TypeInv /\ CallInv /\ ChatTypes /\ [ChatNext]_allVars => ChatTypes'
  BY ChatTypesStep
<1>3. QED
  BY <1>1, <1>2, ChatIsACaller, TypeInvariant, CallInvariant, PTL DEF ChatSpec

\* Every variable of the two keeps its type, and the history never outgrows its
\* limit.
THEOREM ChatTypeCorrect == ChatSpec => []ChatTypeOK
<1>1. TypeInv /\ ChatTypes => ChatTypeOK
  BY DEF TypeInv, ChatTypes, Infos, ChatTypeOK
<1>2. QED
  BY <1>1, ChatIsACaller, TypeInvariant, ChatTypesInvariant, PTL
-----------------------------------------------------------------------------
(* The outcomes in the event queue.                                         *)

LEMMA OutcomesPush ==
    ASSUME TypeInv, SendsInv, OnceInv, OutcomesInv, PushEvent
    PROVE  /\ OutcomesInv'
           /\ Head(outbox).kind \in OutcomeKinds => Reported' \subseteq Reported \union {Head(outbox).id}
           /\ Head(outbox).kind \notin OutcomeKinds => Reported' \subseteq Reported
<1> DEFINE e == Head(outbox)
           q == Enqueue(events, e)
<1>1. /\ events \in Seq(Events) /\ Len(events) <= EventCap /\ events' = q
      /\ outbox # <<>> /\ outbox \in Seq(Events) /\ Answering \subseteq SendIds
      /\ outcomes \in [SendIds -> Seq(OutcomeKinds)]
      /\ outcomes' = IF e.kind \in OutcomeKinds
                     THEN [outcomes EXCEPT ![e.id] = Append(@, e.kind)] ELSE outcomes
  BY DEF PushEvent, TypeInv, TypeOK, SendsInv, NumbersInv
<1>2. e \in Events
  BY <1>1
<1>3. e.kind \in OutcomeKinds => Answering = {e.id}
  BY PushAnswers DEF SendsInv, OrderInv
<1>4. \A i \in Answered : i \in Answered' /\ outcomes'[i][1] = outcomes[i][1]
  BY FirstOutcomeStays DEF Next, WorkerStep, FirstOutcome
<1>5. OldThenNew(events, q, e)
  BY <1>1, <1>2, EnqueueSources
<1> HIDE DEF e, q
<1>6. ASSUME e.kind \in OutcomeKinds
      PROVE  e.id \notin Answered /\ e.id \in Answered' /\ outcomes'[e.id][1] = e.kind
  <2>1. e.id \in SendIds /\ e.id \notin Answered /\ outcomes[e.id] = <<>>
    BY <1>1, <1>3, <1>6 DEF OnceInv, Answered
  <2>2. outcomes'[e.id] = <<e.kind>>
    BY <1>1, <1>6, <2>1
  <2>3. outcomes'[e.id] # <<>> /\ outcomes'[e.id][1] = e.kind
    BY <2>2
  <2>4. QED
    BY <2>1, <2>3 DEF Answered
<1>7. PICK f \in [1 .. Len(q) - 1 -> DOMAIN events] :
          /\ \A k \in DOMAIN q : k # Len(q) => k \in DOMAIN f /\ q[k] = events[f[k]]
          /\ \A j, k \in DOMAIN f : f[j] = f[k] => j = k
  BY <1>5 DEF OldThenNew
\* The events before the new one are old ones.
<1>8. ASSUME NEW k \in DOMAIN q, k # Len(q), q[k].kind \in OutcomeKinds
      PROVE  /\ f[k] \in DOMAIN events /\ q[k] = events[f[k]]
             /\ q[k].id \in Answered /\ outcomes[q[k].id][1] = q[k].kind
             /\ q[k].id \in Reported
  <2>1. f[k] \in DOMAIN events /\ q[k] = events[f[k]]
    BY <1>7, <1>8
  <2>2. QED
    BY <1>8, <2>1 DEF OutcomesInv, FirstOutcome, Reported
<1>9. ASSUME NEW k \in DOMAIN q, q[k].kind \in OutcomeKinds
      PROVE  q[k].id \in Answered' /\ outcomes'[q[k].id][1] = q[k].kind
  BY <1>4, <1>5, <1>6, <1>8, <1>9 DEF OldThenNew
<1>10. ASSUME NEW j \in DOMAIN q, NEW k \in DOMAIN q,
              q[j].kind \in OutcomeKinds, q[k].kind \in OutcomeKinds, q[j].id = q[k].id
       PROVE  j = k
  <2>1. CASE j # Len(q) /\ k # Len(q)
    <3>1. f[j] = f[k]
      BY <1>8, <1>10, <2>1 DEF OutcomesInv
    <3>2. j \in DOMAIN f /\ k \in DOMAIN f
      BY <1>7, <2>1
    <3>3. QED
      BY <1>7, <3>1, <3>2
  <2>2. CASE j = Len(q) /\ k # Len(q)
    BY <1>5, <1>6, <1>8, <1>10, <2>2 DEF OldThenNew
  <2>3. CASE j # Len(q) /\ k = Len(q)
    BY <1>5, <1>6, <1>8, <1>10, <2>3 DEF OldThenNew
  <2>4. QED
    BY <2>1, <2>2, <2>3
<1>11. OutcomesInv'
  <2>1. OutcomesInv' <=>
          /\ \A k \in DOMAIN events' : events'[k].kind \in OutcomeKinds =>
                 events'[k].id \in Answered' /\ outcomes'[events'[k].id][1] = events'[k].kind
          /\ \A j, k \in DOMAIN events' :
                 events'[j].kind \in OutcomeKinds /\ events'[k].kind \in OutcomeKinds
                   /\ events'[j].id = events'[k].id => j = k
    BY DEF OutcomesInv, FirstOutcome
  <2>2. events' = q
    BY <1>1
  <2>3. QED
    BY <1>9, <1>10, <2>1, <2>2
<1>12. Reported' = {q[k].id : k \in {j \in DOMAIN q : q[j].kind \in OutcomeKinds}}
  BY <1>1 DEF Reported
<1>13. ASSUME NEW k \in DOMAIN q, q[k].kind \in OutcomeKinds
       PROVE  q[k].id \in Reported \/ (e.kind \in OutcomeKinds /\ q[k].id = e.id)
  BY <1>5, <1>8, <1>13 DEF OldThenNew
<1>14. QED
  BY <1>11, <1>12, <1>13 DEF e

\* The first event is taken out of the queue.
LEMMA OutcomesPop ==
    ASSUME TypeInv, OutcomesInv, events # <<>>, events' = Tail(events), outcomes' = outcomes
    PROVE  /\ OutcomesInv' /\ Reported' \subseteq Reported
           /\ Head(events).kind \in OutcomeKinds =>
                  /\ Head(events).id \in Answered /\ FirstOutcome(Head(events).id) = Head(events).kind
                  /\ Reported' = Reported \ {Head(events).id} /\ Head(events).id \in Reported
           /\ Head(events).kind \notin OutcomeKinds => Reported' = Reported
<1> DEFINE e == Head(events)
           t == Tail(events)
<1>1. /\ DOMAIN events = 1 .. Len(events) /\ Len(events) \in Nat \ {0} /\ e = events[1]
      /\ 1 \in DOMAIN events /\ DOMAIN t = 1 .. Len(events) - 1
      /\ \A k \in DOMAIN t : k + 1 \in DOMAIN events /\ k \in Nat /\ t[k] = events[k + 1]
      /\ \A k \in DOMAIN events : k = 1 \/ (k - 1 \in DOMAIN t /\ t[k - 1] = events[k])
  <2>1. events \in Seq(Events)
    BY DEF TypeInv, TypeOK
  <2>2. QED
    BY <2>1
<1> HIDE DEF e, t
<1>2. Answered' = Answered /\ \A i : FirstOutcome(i)' = FirstOutcome(i)
  BY DEF Answered, FirstOutcome
<1>3. OutcomesInv'
  <2>1. events' = t
    BY DEF t
  <2>2. \A k \in DOMAIN t : t[k].kind \in OutcomeKinds =>
            t[k].id \in Answered /\ FirstOutcome(t[k].id) = t[k].kind
    BY <1>1 DEF OutcomesInv
  <2>3. ASSUME NEW j \in DOMAIN t, NEW k \in DOMAIN t,
               t[j].kind \in OutcomeKinds, t[k].kind \in OutcomeKinds, t[j].id = t[k].id
        PROVE  j = k
    <3>1. j + 1 = k + 1
      BY <1>1, <2>3 DEF OutcomesInv
    <3>2. QED
      BY <1>1, <3>1
  <2>4. QED
    BY <1>2, <2>1, <2>2, <2>3 DEF OutcomesInv
<1>4. Reported' = {t[k].id : k \in {j \in DOMAIN t : t[j].kind \in OutcomeKinds}}
  BY DEF Reported, t
<1>5. Reported' \subseteq Reported
  BY <1>1, <1>4 DEF Reported
<1>6. ASSUME NEW i \in Reported, ~(e.kind \in OutcomeKinds /\ i = e.id) PROVE i \in Reported'
  <2>1. PICK k \in DOMAIN events : events[k].kind \in OutcomeKinds /\ events[k].id = i
    BY DEF Reported
  <2>2. k - 1 \in DOMAIN t /\ t[k - 1] = events[k]
    BY <1>1, <1>6, <2>1
  <2>3. QED
    BY <1>4, <2>1, <2>2
<1>7. ASSUME e.kind \in OutcomeKinds PROVE e.id \notin Reported'
  <2>1. ASSUME NEW k \in DOMAIN t, t[k].kind \in OutcomeKinds, t[k].id = e.id PROVE FALSE
    <3>1. k + 1 = 1
      BY <1>1, <1>7, <2>1 DEF OutcomesInv
    <3>2. QED
      BY <1>1, <2>1, <3>1
  <2>2. QED
    BY <1>4, <2>1
<1>8. ASSUME e.kind \in OutcomeKinds
      PROVE  e.id \in Answered /\ FirstOutcome(e.id) = e.kind /\ e.id \in Reported
  BY <1>1, <1>8 DEF OutcomesInv, Reported
<1>9. e.kind \in OutcomeKinds => Reported' = Reported \ {e.id}
  BY <1>5, <1>6, <1>7
<1>10. e.kind \notin OutcomeKinds => Reported' = Reported
  BY <1>5, <1>6
<1>11. QED
  BY <1>3, <1>5, <1>8, <1>9, <1>10 DEF e

\* Every other step leaves the queue and the outcomes alone, or empties it.
LEMMA OutcomesStep ==
    ASSUME TypeInv, SendsInv, OnceInv, OutcomesInv, [Next]_vars
    PROVE  OutcomesInv'
<1>1. CASE PushEvent
  BY <1>1, OutcomesPush
<1>2. CASE TryPopEvent
  <2>1. outcomes' = outcomes
    BY <1>2 DEF TryPopEvent, PopEvent, history
  <2>2. CASE events' = events
    BY <2>1, <2>2 DEF OutcomesInv, Answered, FirstOutcome
  <2>3. CASE events # <<>> /\ events' = Tail(events)
    BY <2>1, <2>3, OutcomesPop
  <2>4. QED
    BY <1>2, <2>2, <2>3 DEF TryPopEvent, PopEvent
<1>3. CASE \E on \in BOOLEAN : Start(on)
  <2>1. events' = <<>>
    BY <1>3 DEF Start
  <2>2. QED
    BY <2>1 DEF OutcomesInv
<1>4. CASE ~PushEvent /\ ~TryPopEvent /\ ~(\E on \in BOOLEAN : Start(on))
  <2>1. UNCHANGED <<events, outcomes>>
    BY <1>4 DEF Next, WorkerStep, Open, FinishInitialization, CheckStop, TryPopCommand,
                TestPredicate, Block, TimeOut, SpuriousWakeup, ReceiveSlice, HandleRetry,
                HandleSetReceive, BeginSend, SuspendReceive, Transmit, ResumeReceive,
                RestoreReceive, Cancel, Unwind, Finish, Complete, FailSend, GiveUp, Leave, Goto,
                Step, ClientStep, StopNotify, Join, PostPush, PostNotify, ShutdownNotify,
                ClientCall, StopStore, ShutdownStore, PostBegin, ClientAt, history, shared, vars
  <2>2. QED
    BY <2>1 DEF OutcomesInv, Answered, FirstOutcome
<1>5. QED
  BY <1>1, <1>2, <1>3, <1>4

LEMMA OutcomesInvariant ==
    ASSUME "startReceive" \notin Faults
    PROVE  ChatSpec => []OutcomesInv
<1>1. ChatInit => OutcomesInv
  BY DEF ChatInit, Init, OutcomesInv
<1>2. TypeInv /\ SendsInv /\ (OnceInv /\ TruthInv) /\ OutcomesInv /\ [Next]_vars => OutcomesInv'
  BY OutcomesStep
<1>3. CallInv /\ [ChatNext]_allVars => [Next]_vars
  BY CallStep
<1>4. QED
  BY <1>1, <1>2, <1>3, ChatIsACaller, CallInvariant, TypeInvariant, SendsInvariant,
     TruthInvariant, PTL DEF ChatSpec
-----------------------------------------------------------------------------
(* What is shown of a send.                                                *)

\* The history after appendMessage: old messages and the new one.
LEMMA AppendMessageKeeps ==
    ASSUME ChatTypes, NEW send, NEW failed, AppendMessage(send, failed)
    PROVE  \A k \in DOMAIN messages' :
               \/ \E j \in DOMAIN messages : messages'[k] = messages[j]
               \/ messages'[k].send = send /\ messages'[k].failed = failed
<1> DEFINE kept == IF Len(messages) >= HistoryLimit THEN Tail(messages) ELSE messages
           m == [id |-> nextMessage, send |-> send, failed |-> failed]
<1>1. messages \in Seq(Messages) /\ HistoryLimit \in Nat \ {0}
  BY ChatAssumption DEF ChatTypes
<1>2. \E S : kept \in Seq(S) /\ \A k \in DOMAIN kept : \E j \in DOMAIN messages : kept[k] = messages[j]
  <2>1. CASE Len(messages) >= HistoryLimit
    <3>1. /\ Tail(messages) \in Seq(Messages)
          /\ \A k \in DOMAIN Tail(messages) :
                 k + 1 \in DOMAIN messages /\ Tail(messages)[k] = messages[k + 1]
      <4>1. messages # <<>>
        BY <1>1, <2>1
      <4>2. QED
        BY <1>1, <4>1
    <3>2. QED
      BY <2>1, <3>1
  <2>2. CASE ~(Len(messages) >= HistoryLimit)
    BY <1>1, <2>2
  <2>3. QED
    BY <2>1, <2>2
<1>3. messages' = Append(kept, m)
  BY DEF AppendMessage
<1>4. m.send = send /\ m.failed = failed
  OBVIOUS
<1> HIDE DEF kept, m
<1>5. \A k \in DOMAIN Append(kept, m) :
          (k \in DOMAIN kept /\ Append(kept, m)[k] = kept[k]) \/ Append(kept, m)[k] = m
  BY <1>2
<1>6. QED
  BY <1>2, <1>3, <1>4, <1>5

\* Only a tick and a start touch what is shown.
LEMMA OthersShowNothing ==
    ASSUME [ChatNext]_allVars, ~TickEvent
    PROVE  shown' = shown /\ (messages' = messages \/ messages' = <<>>)
BY DEF ChatNext, ChatStep, UserCall, RadioStep, ChatStopNotify, ChatStopped, RetryPost, ChatPostPush,
       ChatPosted, TickOverflow, TickEnd, TickBegin, ChatStart, ChatStop, SendDraft, RetryRestart,
       RetryBegin, ChatUnchanged, chatVars, allVars

LEMMA ShownStep ==
    ASSUME TypeInv, ChatTypes, OutcomesInv, ShownInv, [ChatNext]_allVars, [Next]_vars
    PROVE  ShownInv'
<1>1. \A i \in Answered : i \in Answered' /\ FirstOutcome(i)' = FirstOutcome(i)
  BY FirstOutcomeStays
<1>2. ASSUME \A k \in DOMAIN messages' :
                 \/ \E j \in DOMAIN messages : messages'[k] = messages[j]
                 \/ messages'[k].send = 0
                 \/ /\ messages'[k].send \in Answered
                    /\ messages'[k].failed <=> FirstOutcome(messages'[k].send) = "TxFailed"
      PROVE  ShownInv'
  <2>1. ASSUME NEW k \in DOMAIN messages', messages'[k].send # 0
        PROVE  /\ messages'[k].send \in Answered'
               /\ messages'[k].failed <=> outcomes'[messages'[k].send][1] = "TxFailed"
    <3>1. /\ messages'[k].send \in Answered
          /\ messages'[k].failed <=> FirstOutcome(messages'[k].send) = "TxFailed"
      BY <1>2, <2>1 DEF ShownInv
    <3>2. QED
      BY <1>1, <3>1 DEF FirstOutcome
  <2>2. QED
    BY <2>1 DEF ShownInv, FirstOutcome
<1>3. CASE TickEvent
  <2> DEFINE e == Head(events)
  <2>1. /\ events # <<>> /\ events' = Tail(events) /\ outcomes' = outcomes
        /\ IF Concludes(e)
           THEN AppendMessage(e.id, e.kind = "TxFailed")
           ELSE IF IsRx(e) THEN AppendMessage(0, FALSE) ELSE UNCHANGED <<messages, nextMessage>>
    BY <1>3 DEF TickEvent, PopEvent, history
  <2>2. e.kind \in OutcomeKinds => e.id \in Answered /\ FirstOutcome(e.id) = e.kind
    BY <2>1, OutcomesPop
  <2> HIDE DEF e
  <2>3. CASE Concludes(e)
    <3>1. \A k \in DOMAIN messages' :
              \/ \E j \in DOMAIN messages : messages'[k] = messages[j]
              \/ messages'[k].send = e.id /\ messages'[k].failed = (e.kind = "TxFailed")
      BY <2>1, <2>3, AppendMessageKeeps
    <3>2. e.id \in Answered /\ FirstOutcome(e.id) = e.kind
      BY <2>2, <2>3 DEF Concludes
    <3>3. \A k \in DOMAIN messages' :
              \/ \E j \in DOMAIN messages : messages'[k] = messages[j]
              \/ /\ messages'[k].send \in Answered
                 /\ messages'[k].failed <=> FirstOutcome(messages'[k].send) = "TxFailed"
      BY <3>1, <3>2
    <3>4. QED
      BY <1>2, <3>3
  <2>4. CASE ~Concludes(e) /\ IsRx(e)
    <3>1. \A k \in DOMAIN messages' :
              (\E j \in DOMAIN messages : messages'[k] = messages[j]) \/ messages'[k].send = 0
      BY <2>1, <2>4, AppendMessageKeeps
    <3>2. QED
      BY <1>2, <3>1
  <2>5. CASE ~Concludes(e) /\ ~IsRx(e)
    <3>1. messages' = messages
      BY <2>1, <2>5
    <3>2. QED
      BY <1>2, <3>1
  <2>6. QED
    BY <2>3, <2>4, <2>5
<1>4. CASE ~TickEvent
  <2>1. messages' = messages \/ messages' = <<>>
    BY <1>4, OthersShowNothing
  <2>2. QED
    BY <1>2, <2>1
<1>5. QED
  BY <1>3, <1>4

\* A message is marked as failed exactly when the frame of its send was not
\* written: nothing the worker reports about it later, no overflow of the queue
\* and no restart changes that.
THEOREM MessagesAreTruthful ==
    ASSUME "startReceive" \notin Faults
    PROVE  ChatSpec => []MessagesTruthful
<1>1. ChatInit => ShownInv
  BY DEF ChatInit, ShownInv
<1>2. TypeInv /\ ChatTypes /\ OutcomesInv /\ CallInv /\ ShownInv /\ [ChatNext]_allVars => ShownInv'
  BY ShownStep, CallStep
<1>3. TypeInv /\ (OnceInv /\ TruthInv) /\ ShownInv => MessagesTruthful
  <2> SUFFICES ASSUME TypeInv, TruthInv, ShownInv,
                      NEW k \in DOMAIN messages, messages[k].send # 0
               PROVE  messages[k].failed <=> messages[k].send \notin wrote
    BY DEF MessagesTruthful
  <2> DEFINE i == messages[k].send
  <2>1. i \in Answered /\ (messages[k].failed <=> FirstOutcome(i) = "TxFailed")
    BY DEF ShownInv
  <2> HIDE DEF i
  <2>2. i \in SendIds /\ outcomes[i] \in Seq(OutcomeKinds) /\ outcomes[i] # <<>>
    BY <2>1 DEF Answered, TypeInv, TypeOK
  <2>3. 1 \in DOMAIN outcomes[i] /\ outcomes[i][1] \in OutcomeKinds
    BY <2>2
  <2>4. outcomes[i][1] = "TxCompleted" <=> i \in wrote
    BY <2>2, <2>3 DEF TruthInv, OutcomeTruthful
  <2>5. outcomes[i][1] = "TxFailed" <=> i \notin wrote
    BY <2>3, <2>4 DEF OutcomeKinds
  <2>6. QED
    BY <2>1, <2>5 DEF FirstOutcome, i
<1>4. QED
  BY <1>1, <1>2, <1>3, ChatIsACaller, CallInvariant, TypeInvariant, ChatTypesInvariant,
     OutcomesInvariant, TruthInvariant, PTL DEF ChatSpec
-----------------------------------------------------------------------------
(* Every answer finds its message.                                         *)

\* Where the sends are, as far as it depends on the worker's variables.
LEMMA SendsStay ==
    /\ commands' = commands => Waiting' = Waiting
    /\ commands' = <<>> => Waiting' = {}
    /\ outbox' = outbox => Answering' = Answering
    /\ events' = events => Reported' = Reported
    /\ events' = <<>> => Reported' = {}
    /\ outcomes' = outcomes => Answered' = Answered
BY DEF Waiting, Answering, Reported, Answered

LEMMA HandStays ==
    ASSUME command' = command, pc' = pc \/ (pc = "blocked" /\ pc' = "test")
    PROVE  InHand' = InHand
BY DEF InHand

\* The worker moves its answers from its hands into the queue.
LEMMA WorkerReports ==
    ASSUME TypeInv, SendsInv, OnceInv, OutcomesInv, WorkerStep \/ SpuriousWakeup
    PROVE  Reported' \subseteq Reported \union Answering
<1>1. CASE PushEvent
  <2>1. Head(outbox).kind \in OutcomeKinds => Answering = {Head(outbox).id}
    BY <1>1, PushAnswers DEF SendsInv, OrderInv
  <2>2. QED
    BY <1>1, <2>1, OutcomesPush
<1>2. CASE ~PushEvent
  <2>1. events' = events
    BY <1>2 DEF WorkerStep, Open, FinishInitialization, CheckStop, TryPopCommand,
                TestPredicate, Block, TimeOut, SpuriousWakeup, ReceiveSlice, HandleRetry,
                HandleSetReceive, BeginSend, SuspendReceive, Transmit, ResumeReceive,
                RestoreReceive, Cancel, Unwind, Finish, Complete, FailSend, GiveUp, Leave, Goto,
                Step, shared
  <2>2. QED
    BY <2>1, SendsStay
<1>3. QED
  BY <1>1, <1>2

\* A start finds and leaves no send anywhere.
LEMMA StartForgets ==
    ASSUME SendsInv, NEW on \in BOOLEAN, Start(on)
    PROVE  Waiting' = {} /\ InHand' = {} /\ Answering' = {} /\ Reported' = {}
<1>1. /\ commands' = <<>> /\ events' = <<>> /\ pc \in {"none", "done"} /\ pc' \in {"none", "init"}
      /\ outbox' = outbox \/ outbox' = <<Event("Initializing")>>
  BY DEF Start
<1>2. Answering = {} /\ Answering' = AnswersOf(outbox')
  BY <1>1 DEF SendsInv, AnswersInv, Serving, Answering, AnswersOf
<1>3. AnswersOf(<<Event("Initializing")>>) = {}
  BY EventAnswersNothing, NothingAnswered DEF OutcomeKinds
<1>4. Answering' = {}
  BY <1>1, <1>2, <1>3, SendsStay
<1>5. QED
  BY <1>1, <1>4, SendsStay DEF InHand

\* What post pushes is what sendDraft is about to enter.
LEMMA PushedIsPosted ==
    ASSUME TypeInv, SendsInv, CallInv, ChatPostPush
    PROVE  /\ Posted = {} /\ Waiting' \subseteq Waiting \union Posted'
           /\ Posted' \subseteq Waiting' /\ Posted' = accepted' \ accepted
           /\ accepted' = accepted \union Posted'
<1>1. /\ client = "push" /\ posting' = posting
      /\ uiPc' = IF client' = "idle" THEN "idle" ELSE uiPc
      /\ \/ client' = "idle" /\ commands' = commands /\ accepted' = accepted
         \/ /\ client' = "notify" /\ commands' = Append(commands, posting)
            /\ accepted' = accepted \union (IF posting.kind = "send" THEN {posting.id} ELSE {})
  BY DEF ChatPostPush, PostPush, AfterPush, Refused
<1>2. Posted = {} /\ uiPc \in {"send", "retry"} /\ (uiPc = "send" <=> posting.kind = "send")
  BY <1>1 DEF Posted, CallInv
<1>3. Posted' = IF uiPc' = "send" /\ client' = "notify" THEN {posting.id} ELSE {}
  BY <1>1 DEF Posted
<1>4. CASE client' = "idle"
  BY <1>1, <1>2, <1>3, <1>4, SendsStay
<1>5. CASE client' = "notify" /\ commands' = Append(commands, posting)
           /\ accepted' = accepted \union (IF posting.kind = "send" THEN {posting.id} ELSE {})
  <2>1. Posted' = IF posting.kind = "send" THEN {posting.id} ELSE {}
    BY <1>1, <1>2, <1>3, <1>5
  <2>2. posting.kind = "send" => posting.id \notin accepted /\ \A i \in accepted : i < posting.id
    <3>1. ASSUME posting.kind = "send" PROVE \A i \in accepted : i < posting.id
      BY <1>1, <3>1, PostedIsLast DEF PostingSend
    <3>2. ASSUME posting.kind = "send", posting.id \in accepted PROVE FALSE
      <4>1. posting.id < posting.id
        BY <3>1, <3>2
      <4>2. posting.id \in SendIds
        BY <3>2 DEF TypeInv, GoodCommands
      <4>3. QED
        BY <4>1, <4>2, WorkerAssumption DEF SendIds
    <3>3. QED
      BY <3>1, <3>2
  <2>3. Waiting' = Waiting \union Posted'
    <3>1. /\ commands \in Seq(Commands) /\ posting \in Commands
          /\ InOrder(commands) /\ Waiting \subseteq accepted
      BY DEF TypeInv, TypeOK, SendsInv, NumbersInv, OrderInv
    <3>2. posting.kind = "send" => \A i \in SendsOf(commands) : i < posting.id
      BY <2>2, <3>1, WaitingIsSends
    <3>3. SendsOf(Append(commands, posting))
              = SendsOf(commands) \union (IF posting.kind = "send" THEN {posting.id} ELSE {})
      BY <3>1, <3>2, SendsAfterPush
    <3>4. Waiting = SendsOf(commands) /\ Waiting' = SendsOf(Append(commands, posting))
      BY <1>5 DEF Waiting, SendsOf
    <3>5. QED
      BY <2>1, <3>3, <3>4
  <2>4. QED
    BY <1>2, <1>5, <2>1, <2>2, <2>3
<1>6. QED
  BY <1>1, <1>4, <1>5

LEMMA HeldInvariant == Spec => []HeldInv
<1>1. Init => HeldInv
  BY DEF Init, HeldInv
<1>2. TypeInv /\ HeldInv /\ [Next]_vars => HeldInv'
  BY HeldStep
<1>3. QED
  BY <1>1, <1>2, TypeInvariant, PTL DEF Spec

\* The calls that leave the sends where they are.
QuietCall ==
    \/ ChatStop \/ ChatStopNotify \/ SendDraft \/ RetryBegin \/ RetryPost \/ TickBegin \/ TickEnd
    \/ TickOverflow \/ UNCHANGED allVars

LEMMA QuietCallKeeps ==
    ASSUME CallInv, QuietCall
    PROVE  /\ UNCHANGED <<commands, outbox, events, command, outcomes, pending, started, accepted>>
           /\ pc' = pc \/ (pc = "blocked" /\ pc' = "test")
           /\ Posted' = Posted
<1>1. /\ UNCHANGED <<commands, outbox, events, command, outcomes, pending, started, accepted>>
      /\ pc' = pc \/ (pc = "blocked" /\ pc' = "test")
  BY DEF QuietCall, ChatStop, ChatStopNotify, SendDraft, RetryBegin, RetryPost, TickBegin, TickEnd,
         TickOverflow, ChatUnchanged, StopStore, StopNotify, ClientAt, Notify, PostBegin, PopEvent,
         allVars, chatVars, vars, shared, worker, history
<1>2. ~(uiPc = "send" /\ client = "notify") <=> ~(uiPc' = "send" /\ client' = "notify")
  BY DEF QuietCall, ChatStop, ChatStopNotify, SendDraft, RetryBegin, RetryPost, TickBegin, TickEnd,
         TickOverflow, StopStore, StopNotify, ClientAt, PostBegin, ChatUnchanged,
         allVars, chatVars, vars, caller, CallInv
<1>3. posting' = posting \/ uiPc' \in {"idle", "retry"} \/ client' = "push"
  BY DEF QuietCall, ChatStop, ChatStopNotify, SendDraft, RetryBegin, RetryPost, TickBegin, TickEnd,
         TickOverflow, StopStore, StopNotify, PostBegin, PopEvent, ChatUnchanged,
         allVars, chatVars, vars, caller
<1>4. QED
  BY <1>1, <1>2, <1>3 DEF Posted

\* The other steps of the chat model, one by one.
LEMMA ChatSteps ==
    ASSUME [ChatNext]_allVars
    PROVE  QuietCall \/ RadioStep \/ ChatStart \/ RetryRestart \/ ChatStopped \/ ChatPostPush
           \/ ChatPosted \/ TickEvent
BY DEF QuietCall, ChatNext, ChatStep, UserCall

\* A tick belongs to a chat that was started.
TickInv == uiPc = "tick" => started

LEMMA TickStep ==
    ASSUME TickInv, [ChatNext]_allVars
    PROVE  TickInv'
BY DEF TickInv, ChatNext, ChatStep, UserCall, RadioStep, ChatStopNotify, ChatStopped, RetryPost,
       ChatPostPush, ChatPosted, TickOverflow, TickEvent, TickEnd, TickBegin, ChatStart, ChatStop,
       SendDraft, RetryRestart, RetryBegin, ChatUnchanged, chatVars, allVars

LEMMA AwaitedStep ==
    ASSUME TypeInv, SendsInv, OnceInv, HeldInv, OneOutcome, OutcomesInv, CallInv, AwaitedInv,
           [ChatNext]_allVars, SendsInv', OneOutcome'
    PROVE  AwaitedInv'
<1> SUFFICES ASSUME started'
             PROVE  Waiting' \union InHand' \union Answering' \union Reported'
                        \subseteq pending' \union Posted'
  BY DEF AwaitedInv
<1>1. CASE QuietCall
  <2>1. /\ commands' = commands /\ outbox' = outbox /\ events' = events /\ command' = command
        /\ pending' = pending /\ started' = started /\ Posted' = Posted
        /\ pc' = pc \/ (pc = "blocked" /\ pc' = "test")
    BY <1>1, QuietCallKeeps
  <2>2. Waiting' = Waiting /\ InHand' = InHand /\ Answering' = Answering /\ Reported' = Reported
    BY <2>1, SendsStay, HandStays
  <2>3. QED
    BY <2>1, <2>2 DEF AwaitedInv
<1>2. CASE RadioStep
  <2>1. Waiting' \union InHand' \union Answering' \subseteq Waiting \union InHand \union Answering
    BY <1>2, NoneComesBack DEF RadioStep, Unanswered
  <2>2. Reported' \subseteq Reported \union Answering
    BY <1>2, WorkerReports DEF RadioStep
  <2>3. UNCHANGED <<pending, started, uiPc, client, posting>>
    BY <1>2, RadioLeavesCaller DEF RadioStep, chatVars, caller
  <2>4. Posted' = Posted
    BY <2>3 DEF Posted
  <2>5. QED
    BY <2>1, <2>2, <2>3, <2>4 DEF AwaitedInv
<1>3. CASE ChatStart \/ RetryRestart
  BY <1>3, StartForgets DEF ChatStart, RetryRestart
<1>4. CASE ChatStopped
  BY <1>4 DEF ChatStopped
<1>5. CASE ChatPostPush
  <2>1. /\ outbox' = outbox /\ events' = events /\ command' = command /\ pc' = pc
        /\ pending' = pending /\ started' = started
    BY <1>5 DEF ChatPostPush, PostPush, worker, ChatUnchanged
  <2>2. InHand' = InHand /\ Answering' = Answering /\ Reported' = Reported
    BY <2>1, SendsStay, HandStays
  <2>3. QED
    BY <1>5, <2>1, <2>2, PushedIsPosted DEF AwaitedInv
<1>6. CASE ChatPosted
  <2>1. /\ outbox' = outbox /\ events' = events /\ command' = command /\ commands' = commands
        /\ started' = started /\ client = "notify"
        /\ pc' = pc \/ (pc = "blocked" /\ pc' = "test")
        /\ pending' = IF uiPc = "send" THEN pending \union {posting.id} ELSE pending
    BY <1>6 DEF ChatPosted, PostNotify, Notify, ClientAt
  <2>2. pending \union Posted \subseteq pending'
    BY <2>1 DEF Posted
  <2>3. Waiting' = Waiting /\ InHand' = InHand /\ Answering' = Answering /\ Reported' = Reported
    BY <2>1, SendsStay, HandStays
  <2>4. QED
    BY <2>1, <2>2, <2>3 DEF AwaitedInv
<1>7. CASE TickEvent
  <2> DEFINE e == Head(events)
  <2>1. /\ outbox' = outbox /\ command' = command /\ commands' = commands /\ pc' = pc
        /\ UNCHANGED <<started, client, posting, uiPc>>
        /\ events # <<>> /\ events' = Tail(events) /\ outcomes' = outcomes
        /\ pending' = IF Concludes(e) THEN pending \ {e.id} ELSE pending
    BY <1>7 DEF TickEvent, PopEvent, worker, history
  <2>2. /\ e.kind \in OutcomeKinds => /\ e.id \in Answered
                                      /\ Reported' = Reported \ {e.id}
        /\ e.kind \notin OutcomeKinds => Reported' = Reported
    BY <2>1, OutcomesPop
  <2> HIDE DEF e
  <2>3. Waiting' = Waiting /\ InHand' = InHand /\ Answering' = Answering
    BY <2>1, SendsStay, HandStays
  <2>4. Posted' = Posted
    BY <2>1 DEF Posted
  <2>5. e.kind \in OutcomeKinds => e.id \notin Waiting \union InHand \union Answering
    BY <2>2 DEF OneOutcome
  <2>6. QED
    BY <2>1, <2>2, <2>3, <2>4, <2>5 DEF AwaitedInv, Concludes
<1>8. QED
  BY <1>1, <1>2, <1>3, <1>4, <1>5, <1>6, <1>7, ChatSteps

\* The tick that pops the outcome of a send finds its message among the pending
\* ones: the thread that posts enters it after the push, yet before it ticks,
\* and neither a stop nor a restart leaves an outcome behind that is not owed.
THEOREM AnswersFindTheirMessages ==
    ASSUME "startReceive" \notin Faults
    PROVE  ChatSpec => EveryAnswerFindsItsMessage
<1>1. ChatInit => AwaitedInv /\ TickInv
  BY DEF ChatInit, AwaitedInv, TickInv
<1>2. TypeInv /\ SendsInv /\ (OnceInv /\ TruthInv) /\ HeldInv /\ OneOutcome /\ OutcomesInv /\ CallInv
        /\ AwaitedInv /\ [ChatNext]_allVars /\ SendsInv' /\ OneOutcome' => AwaitedInv'
  BY AwaitedStep
<1>3. TickInv /\ [ChatNext]_allVars => TickInv'
  BY TickStep
<1>4. TypeInv /\ OutcomesInv /\ AwaitedInv /\ TickInv /\ [ChatNext]_allVars =>
          [TickEvent /\ Head(events).kind \in OutcomeKinds => Head(events).id \in pending]_allVars
  <2> SUFFICES ASSUME TypeInv, OutcomesInv, AwaitedInv, TickInv, TickEvent,
                      Head(events).kind \in OutcomeKinds
               PROVE  Head(events).id \in pending
    OBVIOUS
  <2>1. /\ uiPc = "tick" /\ events # <<>> /\ events' = Tail(events) /\ outcomes' = outcomes
    BY DEF TickEvent, PopEvent, history
  <2>2. Head(events).id \in Reported
    BY <2>1, OutcomesPop
  <2>3. Posted = {} /\ started
    BY <2>1 DEF Posted, TickInv
  <2>4. QED
    BY <2>2, <2>3 DEF AwaitedInv
<1>5. QED
  BY <1>1, <1>2, <1>3, <1>4, ChatIsACaller, CallInvariant, TypeInvariant, SendsInvariant,
     TruthInvariant, HeldInvariant, OutcomesInvariant, EachSendHasOneOutcome, PTL
     DEF ChatSpec, EveryAnswerFindsItsMessage
-----------------------------------------------------------------------------
(* Every pending send is accounted for.                                    *)

LEMMA FirstStartStep ==
    ASSUME TypeInv, FirstStartInv, [Next]_vars
    PROVE  FirstStartInv'
<1> SUFFICES ASSUME starts' = 0 PROVE ~running' /\ client' # "push" /\ accepted' = {}
  BY DEF FirstStartInv
<1>1. CASE WorkerStep \/ SpuriousWakeup
  <2>1. client' = client /\ starts' = starts
    BY <1>1, RadioLeavesCaller DEF caller
  <2>2. accepted' = accepted /\ (running' = running \/ running' = FALSE)
    BY <1>1 DEF WorkerStep, PushEvent, Open, FinishInitialization, CheckStop, TryPopCommand,
                TestPredicate, Block, TimeOut, SpuriousWakeup, ReceiveSlice, HandleRetry,
                HandleSetReceive, BeginSend, SuspendReceive, Transmit, ResumeReceive,
                RestoreReceive, Cancel, Unwind, Finish, Complete, FailSend, GiveUp, Leave, Goto,
                Step, shared, history
  <2>3. QED
    BY <2>1, <2>2 DEF FirstStartInv
<1>2. CASE ClientStep
  BY <1>2 DEF FirstStartInv, ClientStep, StopNotify, Join, PostPush, PostNotify, ShutdownNotify,
              ClientAt, history, AfterPush
<1>3. CASE \E on \in BOOLEAN : Start(on)
  <2>1. starts' = starts + 1 /\ starts \in Nat
    BY <1>3 DEF Start, TypeInv, TypeOK
  <2>2. QED
    BY <2>1
<1>4. CASE StopStore \/ ShutdownStore \/ TryPopEvent \/ \E kind \in CommandKinds : PostBegin(kind)
  BY <1>4 DEF FirstStartInv, StopStore, ShutdownStore, TryPopEvent, PopEvent, PostBegin, ClientAt,
              history, shared, worker
<1>5. CASE UNCHANGED vars
  BY <1>5 DEF FirstStartInv, vars, shared, caller, history
<1>6. QED
  BY <1>1, <1>2, <1>3, <1>4, <1>5 DEF Next, ClientCall

LEMMA FirstStartInvariant == Spec => []FirstStartInv
<1>1. Init => FirstStartInv
  BY DEF Init, FirstStartInv
<1>2. QED
  BY <1>1, FirstStartStep, TypeInvariant, PTL DEF Spec

\* What the interface makes of a retry or of an event leaves the count alone.
LEMMA DroppedKept ==
    ASSUME NEW info \in Infos
    PROVE  /\ RetryShown(info).dropped = info.dropped /\ RetryFailed(info).dropped = info.dropped
           /\ \A e \in Events : UiAfter(info, e).dropped = info.dropped
<1>1. RetryShown(info).dropped = info.dropped /\ RetryFailed(info).dropped = info.dropped
  BY DEF Infos, RetryShown, RetryFailed
<1>2. ASSUME NEW e \in Events PROVE UiAfter(info, e).dropped = info.dropped
  <2>1. CASE e.kind \in StateKinds
    <3> DEFINE state == UiState(e.kind)
               ready == e.kind \in {"Idle", "Receiving", "Sending"}
               failed == info.initFailed /\ e.kind \in {"Error", "Stopping", "Stopped"}
               text == TextAfterState(info, e.kind)
    <3>1. UiAfter(info, e) = [info EXCEPT !.state = state, !.ready = ready,
                                          !.initFailed = failed, !.text = text]
      BY <2>1 DEF UiAfter, StateKinds
    <3> HIDE DEF state, ready, failed, text
    <3>2. QED
      BY <3>1 DEF Infos
  <2>2. CASE e.kind \notin StateKinds
    BY <2>2 DEF UiAfter, Infos
  <2>3. QED
    BY <2>1, <2>2
<1>3. QED
  BY <1>1, <1>2

\* Only a report to a full queue drops an event, and only a tick counts it.
LEMMA DroppedStays ==
    ASSUME TypeInv, ChatTypes, QuietCall \/ ChatPostPush \/ ChatPosted \/ TickEvent
    PROVE  (NothingDropped' <=> NothingDropped) /\ starts' = starts
<1>1. starts' = starts
  BY DEF QuietCall, ChatStop, ChatStopNotify, SendDraft, RetryBegin, RetryPost, TickBegin, TickEnd,
         TickOverflow, TickEvent, ChatPostPush, ChatPosted, StopStore, StopNotify, ClientAt,
         PostBegin, PostPush, PostNotify, PopEvent, allVars, chatVars, vars, caller
<1>2. ui \in Infos /\ pendingDropped \in Nat
  BY DEF ChatTypes, TypeInv, TypeOK
<1>3. CASE TickOverflow
  <2>1. /\ pendingDropped' = 0
        /\ ui' = [ui EXCEPT !.dropped = ui.dropped + pendingDropped, !.text = "plain"]
    BY <1>3 DEF TickOverflow, PopEvent
  <2>2. ui'.dropped = ui.dropped + pendingDropped /\ ui.dropped \in Nat
    BY <1>2, <2>1 DEF Infos
  <2>3. ui'.dropped + pendingDropped' = ui.dropped + pendingDropped
    BY <1>2, <2>1, <2>2
  <2>4. QED
    BY <1>1, <2>3 DEF NothingDropped
<1>4. CASE ~TickOverflow /\ ~TickEvent
  <2>1. pendingDropped' = pendingDropped
    BY <1>4 DEF QuietCall, ChatStop, ChatStopNotify, SendDraft, RetryBegin, RetryPost, TickBegin,
         TickEnd, ChatPostPush, ChatPosted, StopStore, StopNotify, ClientAt,
         PostBegin, PostPush, PostNotify, allVars, chatVars, vars, shared
  <2>2. ui' = ui \/ ui' = RetryShown(ui) \/ ui' = RetryFailed(ui)
    BY <1>4 DEF QuietCall, ChatStop, ChatStopNotify, SendDraft, RetryBegin, RetryPost, TickBegin,
         TickEnd, ChatPostPush, ChatPosted, allVars, chatVars
  <2>3. ui'.dropped = ui.dropped
    BY <1>2, <2>2, DroppedKept
  <2>4. QED
    BY <1>1, <2>1, <2>3 DEF NothingDropped
<1>5. CASE TickEvent
  <2>1. /\ pendingDropped = 0 /\ pendingDropped' = pendingDropped /\ ui' = UiAfter(ui, Head(events))
        /\ Head(events) \in Events
    BY <1>5 DEF TickEvent, PopEvent, TypeInv, TypeOK
  <2>2. ui'.dropped = ui.dropped
    BY <1>2, <2>1, DroppedKept
  <2>3. QED
    BY <1>1, <2>1, <2>2 DEF NothingDropped
<1>6. QED
  BY <1>3, <1>4, <1>5

LEMMA NothingLost ==
    ASSUME TypeInv, ChatTypes, PushEvent, ui' = ui, NothingDropped'
    PROVE  NothingDropped /\ events' = Append(events, Head(outbox))
<1>1. /\ pendingDropped' = pendingDropped + Lost(events) /\ events' = Enqueue(events, Head(outbox))
      /\ pendingDropped \in Nat /\ ui \in Infos
  BY DEF PushEvent, TypeInv, TypeOK, ChatTypes
<1>2. ui.dropped \in Nat /\ Lost(events) \in {0, 1}
  BY <1>1 DEF Infos, Lost
<1>3. Lost(events) = 0 /\ NothingDropped
  BY <1>1, <1>2 DEF NothingDropped
<1>4. ~IsFull(events)
  BY <1>3 DEF Lost
<1>5. QED
  BY <1>1, <1>3, <1>4 DEF Enqueue
\* The reports in a queue that grows at its end, or loses its first event.
LEMMA ReportedAfterAppend ==
    ASSUME TypeInv, NEW e \in Events, events' = Append(events, e)
    PROVE  /\ Reported \subseteq Reported'
           /\ e.kind \in OutcomeKinds => e.id \in Reported'
<1>1. /\ \A k \in DOMAIN events : k \in DOMAIN events' /\ events'[k] = events[k]
      /\ \E k \in DOMAIN events' : events'[k] = e
  <2>1. events \in Seq(Events)
    BY DEF TypeInv, TypeOK
  <2>2. /\ \A k \in DOMAIN events : k \in DOMAIN events' /\ events'[k] = events[k]
        /\ Len(events) + 1 \in DOMAIN events' /\ events'[Len(events) + 1] = e
    BY <2>1
  <2>3. QED
    BY <2>2
<1>2. QED
  BY <1>1 DEF Reported

LEMMA ReportedAfterPop ==
    ASSUME TypeInv, events # <<>>, events' = Tail(events)
    PROVE  \A i \in Reported : i \in Reported'
               \/ (Head(events).kind \in OutcomeKinds /\ i = Head(events).id)
<1>1. \A k \in DOMAIN events : events[k] = Head(events)
          \/ \E j \in DOMAIN events' : events'[j] = events[k]
  <2>1. events \in Seq(Events)
    BY DEF TypeInv, TypeOK
  <2>2. \A k \in DOMAIN events : events[k] = Head(events)
            \/ (k - 1 \in DOMAIN events' /\ events'[k - 1] = events[k])
    BY <2>1
  <2>3. QED
    BY <2>2
<1>2. QED
  BY <1>1 DEF Reported

LEMMA PendingStep ==
    ASSUME TypeInv, SendsInv, ChatTypes, CallInv, FirstStartInv, PendingInv, [ChatNext]_allVars
    PROVE  PendingInv'
<1>1. CASE QuietCall
  <2>1. /\ accepted' = accepted /\ outcomes' = outcomes /\ events' = events
        /\ pending' = pending /\ Posted' = Posted
    BY <1>1, QuietCallKeeps
  <2>2. (NothingDropped' <=> NothingDropped) /\ starts' = starts
    BY <1>1, DroppedStays
  <2>3. Reported' = Reported /\ Answered' = Answered
    BY <2>1, SendsStay
  <2>4. QED
    BY <2>1, <2>2, <2>3 DEF PendingInv
<1>2. CASE RadioStep
  <2>1. UNCHANGED <<pending, ui, uiPc, client, posting, starts>>
    BY <1>2, RadioLeavesCaller DEF RadioStep, chatVars, caller
  <2>2. Posted' = Posted
    BY <2>1 DEF Posted
  <2>3. accepted' = accepted
    BY <1>2, WorkerOnlyTakes DEF RadioStep
  <2>4. CASE PushEvent
    <3> DEFINE e == Head(outbox)
    <3>1. /\ e.kind \in OutcomeKinds => Answered' \subseteq Answered \union {e.id}
          /\ e.kind \notin OutcomeKinds => Answered' \subseteq Answered
          /\ e \in Events
      <4>1. /\ outcomes' = IF e.kind \in OutcomeKinds
                     THEN [outcomes EXCEPT ![e.id] = Append(@, e.kind)] ELSE outcomes
            /\ outbox # <<>> /\ outbox \in Seq(Events)
            /\ outcomes \in [SendIds -> Seq(OutcomeKinds)]
        BY <2>4 DEF PushEvent, TypeInv, TypeOK
      <4>2. e \in Events
        BY <4>1
      <4> HIDE DEF e
      <4>3. \A i \in SendIds : i # e.id \/ e.kind \notin OutcomeKinds => outcomes'[i] = outcomes[i]
        BY <4>1
      <4>4. QED
        BY <4>2, <4>3 DEF Answered
    <3>2. NothingDropped' => NothingDropped /\ events' = Append(events, e)
      BY <2>1, <2>4, NothingLost
    <3> HIDE DEF e
    <3>3. NothingDropped' => /\ Reported \subseteq Reported'
                             /\ e.kind \in OutcomeKinds => e.id \in Reported'
      BY <3>1, <3>2, ReportedAfterAppend
    <3>4. QED
      BY <2>1, <2>2, <2>3, <3>1, <3>2, <3>3 DEF PendingInv
  <2>5. CASE ~PushEvent
    <3>1. events' = events /\ outcomes' = outcomes /\ pendingDropped' = pendingDropped
      BY <1>2, <2>5 DEF RadioStep, WorkerStep, Open, FinishInitialization, CheckStop, TryPopCommand,
                TestPredicate, Block, TimeOut, SpuriousWakeup, ReceiveSlice, HandleRetry,
                HandleSetReceive, BeginSend, SuspendReceive, Transmit, ResumeReceive,
                RestoreReceive, Cancel, Unwind, Finish, Complete, FailSend, GiveUp, Leave, Goto,
                Step, shared, history
    <3>2. Reported' = Reported /\ Answered' = Answered
      BY <3>1, SendsStay
    <3>3. NothingDropped' <=> NothingDropped
      BY <2>1, <3>1 DEF NothingDropped
    <3>4. QED
      BY <2>1, <2>2, <2>3, <3>2, <3>3 DEF PendingInv
  <2>6. QED
    BY <2>4, <2>5
<1>3. CASE ChatStart \/ ChatStopped
  <2>1. pending' = {} /\ Posted' = {} /\ accepted' = accepted
    BY <1>3 DEF ChatStart, ChatStopped, Start, Join, ClientAt, Posted, history
  <2>2. QED
    BY <2>1 DEF PendingInv
<1>4. CASE RetryRestart
  <2>1. /\ uiPc = "idle" /\ uiPc' = "idle" /\ pending' = pending
        /\ starts' = starts + 1 /\ accepted' = accepted /\ outcomes' = outcomes
    BY <1>4 DEF RetryRestart, CanRetry, ChatUnchanged, Start, history
  <2>2. Posted = {} /\ Posted' = {}
    BY <2>1 DEF Posted
  <2>3. starts' <= 1 => starts = 0
    BY <2>1 DEF TypeInv, TypeOK
  <2>4. QED
    BY <2>1, <2>2, <2>3 DEF PendingInv, FirstStartInv
<1>5. CASE ChatPostPush
  <2>1. /\ Posted = {} /\ Posted' = accepted' \ accepted /\ accepted' = accepted \union Posted'
    BY <1>5, PushedIsPosted
  <2>2. (NothingDropped' <=> NothingDropped) /\ starts' = starts
    BY <1>5, DroppedStays
  <2>3. outcomes' = outcomes /\ events' = events /\ pending' = pending
    BY <1>5 DEF ChatPostPush, PostPush, ChatUnchanged
  <2>4. Reported' = Reported /\ Answered' = Answered
    BY <2>3, SendsStay
  <2>5. Answered \subseteq accepted
    BY DEF SendsInv, NumbersInv
  <2>6. QED
    BY <2>1, <2>2, <2>3, <2>4, <2>5 DEF PendingInv
<1>6. CASE ChatPosted
  <2>1. /\ outcomes' = outcomes /\ events' = events /\ accepted' = accepted
        /\ client = "notify" /\ client' = "idle" /\ uiPc' = "idle"
        /\ pending' = IF uiPc = "send" THEN pending \union {posting.id} ELSE pending
    BY <1>6 DEF ChatPosted, PostNotify, ClientAt, history
  <2>2. pending' \union Posted' = pending \union Posted
    BY <2>1 DEF Posted
  <2>3. (NothingDropped' <=> NothingDropped) /\ starts' = starts
    BY <1>6, DroppedStays
  <2>4. Reported' = Reported /\ Answered' = Answered
    BY <2>1, SendsStay
  <2>5. QED
    BY <2>1, <2>2, <2>3, <2>4 DEF PendingInv
<1>7. CASE TickEvent
  <2> DEFINE e == Head(events)
  <2>1. /\ uiPc = "tick" /\ uiPc' = uiPc /\ accepted' = accepted /\ outcomes' = outcomes
        /\ events # <<>> /\ events' = Tail(events)
        /\ pending' = IF Concludes(e) THEN pending \ {e.id} ELSE pending
    BY <1>7 DEF TickEvent, PopEvent, history
  <2>2. Posted = {} /\ Posted' = {}
    BY <2>1 DEF Posted
  <2>3. \A i \in Reported : i \in Reported' \/ (e.kind \in OutcomeKinds /\ i = e.id)
    BY <2>1, ReportedAfterPop
  <2>4. (NothingDropped' <=> NothingDropped) /\ starts' = starts
    BY <1>7, DroppedStays
  <2>5. Answered' = Answered
    BY <2>1, SendsStay
  <2> HIDE DEF e
  <2>6. QED
    BY <2>1, <2>2, <2>3, <2>4, <2>5 DEF PendingInv, Concludes
<1>8. QED
  BY <1>1, <1>2, <1>3, <1>4, <1>5, <1>6, <1>7, ChatSteps

\* A send that still waits to be shown is somewhere: in a queue, in the worker's
\* hands, reported, or given up with its worker; nothing loses it silently, in
\* the first life of the worker and as long as no event was dropped.
THEOREM PendingIsAccounted == ChatSpec => []PendingAccounted
<1>1. ChatInit => PendingInv
  BY DEF ChatInit, Init, PendingInv, Posted
<1>2. TypeInv /\ SendsInv /\ ChatTypes /\ CallInv /\ FirstStartInv /\ PendingInv
        /\ [ChatNext]_allVars => PendingInv'
  BY PendingStep
<1>3. PendingInv /\ HeldInv => PendingAccounted
  BY DEF PendingInv, NothingDropped, HeldInv, Held, PendingAccounted
<1>4. QED
  BY <1>1, <1>2, <1>3, ChatIsACaller, CallInvariant, TypeInvariant, SendsInvariant,
     ChatTypesInvariant, HeldInvariant, FirstStartInvariant, PTL DEF ChatSpec
-----------------------------------------------------------------------------
(* No send is shown twice.                                                  *)

\* After appendMessage every message but the new last one is an old one, each a
\* different one.
LEMMA AppendMessageSources ==
    ASSUME ChatTypes, NEW send, NEW failed, AppendMessage(send, failed)
    PROVE  \E shift \in {0, 1} : \A k \in DOMAIN messages' :
               \/ k + shift \in DOMAIN messages /\ messages'[k] = messages[k + shift]
               \/ k = Len(messages') /\ messages'[k].send = send
<1> DEFINE kept == IF Len(messages) >= HistoryLimit THEN Tail(messages) ELSE messages
           shift == IF Len(messages) >= HistoryLimit THEN 1 ELSE 0
           m == [id |-> nextMessage, send |-> send, failed |-> failed]
<1>1. messages \in Seq(Messages) /\ HistoryLimit \in Nat \ {0}
  BY ChatAssumption DEF ChatTypes
<1>2. /\ Len(kept) \in Nat /\ DOMAIN kept = 1 .. Len(kept) /\ kept \in Seq(Messages)
      /\ \A k \in DOMAIN kept : k + shift \in DOMAIN messages /\ kept[k] = messages[k + shift]
  <2>1. CASE Len(messages) >= HistoryLimit
    <3>1. messages # <<>>
      BY <1>1, <2>1
    <3>2. /\ Tail(messages) \in Seq(Messages) /\ DOMAIN Tail(messages) = 1 .. Len(Tail(messages))
          /\ Len(Tail(messages)) \in Nat
          /\ \A k \in DOMAIN Tail(messages) :
                 k + 1 \in DOMAIN messages /\ Tail(messages)[k] = messages[k + 1]
      BY <1>1, <3>1
    <3>3. kept = Tail(messages) /\ shift = 1
      BY <2>1
    <3> HIDE DEF kept, shift
    <3>4. QED
      BY <3>2, <3>3
  <2>2. CASE ~(Len(messages) >= HistoryLimit)
    <3>1. kept = messages /\ shift = 0
      BY <2>2
    <3> HIDE DEF kept, shift
    <3>2. QED
      BY <1>1, <3>1
  <2>3. QED
    BY <2>1, <2>2
<1>3. messages' = Append(kept, m) /\ m.send = send /\ shift \in {0, 1}
  BY DEF AppendMessage
<1> HIDE DEF kept, m, shift
<1>4. \A k \in DOMAIN Append(kept, m) :
          \/ k \in DOMAIN kept /\ Append(kept, m)[k] = kept[k]
          \/ k = Len(Append(kept, m)) /\ Append(kept, m)[k] = m
  BY <1>2
<1>5. QED
  BY <1>2, <1>3, <1>4

LEMMA OnceShownStep ==
    ASSUME TypeInv, SendsInv, ChatTypes, CallInv, FirstStartInv, PendingInv, OnceShownInv,
           [ChatNext]_allVars
    PROVE  OnceShownInv'
<1> USE DEF IsShown
\* A call that shows nothing may take sends out of the pending ones, or accept one.
<1>1. ASSUME shown' = shown, messages' = messages \/ messages' = <<>>,
             accepted \subseteq accepted',
             \A i \in accepted : i \in pending' \union Posted' => i \in pending \union Posted
      PROVE  OnceShownInv'
  <2>1. /\ \A i \in SendIds : shown'[i] <= 1
        /\ \A i \in SendIds : shown'[i] # 0 => i \in accepted' /\ i \notin pending' \union Posted'
    BY <1>1 DEF OnceShownInv
  <2>2. QED
    BY <1>1, <2>1 DEF OnceShownInv
<1>2. ASSUME ~TickEvent
      PROVE  shown' = shown /\ (messages' = messages \/ messages' = <<>>)
  BY <1>2, OthersShowNothing
<1>3. CASE QuietCall /\ ~TickEvent
  <2>1. accepted' = accepted /\ pending' = pending /\ Posted' = Posted
    BY <1>3, QuietCallKeeps
  <2>2. QED
    BY <1>1, <1>2, <1>3, <2>1
<1>4. CASE RadioStep /\ ~TickEvent
  <2>1. UNCHANGED <<pending, uiPc, client, posting>>
    BY <1>4, RadioLeavesCaller DEF RadioStep, chatVars, caller
  <2>2. Posted' = Posted
    BY <2>1 DEF Posted
  <2>3. accepted' = accepted
    BY <1>4, WorkerOnlyTakes DEF RadioStep
  <2>4. QED
    BY <1>1, <1>2, <1>4, <2>1, <2>2, <2>3
<1>5. CASE (ChatStart \/ ChatStopped) /\ ~TickEvent
  <2>1. pending' = {} /\ Posted' = {} /\ accepted' = accepted
    BY <1>5 DEF ChatStart, ChatStopped, Start, Join, ClientAt, Posted, history
  <2>2. QED
    BY <1>1, <1>2, <1>5, <2>1
<1>6. CASE RetryRestart /\ ~TickEvent
  <2>1. uiPc' = "idle" /\ pending' = pending /\ accepted' = accepted
    BY <1>6 DEF RetryRestart, CanRetry, ChatUnchanged, Start, history
  <2>2. Posted' = {}
    BY <2>1 DEF Posted
  <2>3. QED
    BY <1>1, <1>2, <1>6, <2>1, <2>2
<1>7. CASE ChatPostPush /\ ~TickEvent
  <2>1. Posted' = accepted' \ accepted /\ accepted' = accepted \union Posted'
    BY <1>7, PushedIsPosted
  <2>2. pending' = pending
    BY <1>7 DEF ChatPostPush, ChatUnchanged
  <2>3. QED
    BY <1>1, <1>2, <1>7, <2>1, <2>2
<1>8. CASE ChatPosted /\ ~TickEvent
  <2>1. /\ accepted' = accepted /\ client = "notify" /\ uiPc' = "idle"
        /\ pending' = IF uiPc = "send" THEN pending \union {posting.id} ELSE pending
    BY <1>8 DEF ChatPosted, PostNotify, ClientAt, history
  <2>2. pending' \union Posted' = pending \union Posted
    BY <2>1 DEF Posted
  <2>3. QED
    BY <1>1, <1>2, <1>8, <2>1, <2>2
<1>9. CASE TickEvent
  <2> DEFINE e == Head(events)
  <2>1. /\ uiPc = "tick" /\ uiPc' = uiPc /\ accepted' = accepted
        /\ IF Concludes(e)
           THEN /\ AppendMessage(e.id, e.kind = "TxFailed")
                /\ pending' = pending \ {e.id}
                /\ shown' = [shown EXCEPT ![e.id] = @ + 1]
           ELSE /\ IF IsRx(e) THEN AppendMessage(0, FALSE) ELSE UNCHANGED <<messages, nextMessage>>
                /\ UNCHANGED <<pending, shown>>
    BY <1>9 DEF TickEvent, PopEvent, history
  <2> HIDE DEF e
  <2>2. Posted = {} /\ Posted' = {}
    BY <2>1 DEF Posted
  <2>3. shown \in [SendIds -> Nat] /\ pending \subseteq SendIds /\ pending \subseteq accepted
    BY DEF ChatTypes, PendingInv
  \* The history with the message of a send that was not shown, or of none.
  <2>4. ASSUME NEW send, NEW failed, AppendMessage(send, failed),
               send # 0 => send \in SendIds /\ shown[send] = 0 /\ shown'[send] # 0,
               \A i \in SendIds : shown[i] # 0 => shown'[i] # 0
        PROVE  /\ \A k \in DOMAIN messages' : messages'[k].send # 0 =>
                      messages'[k].send \in SendIds /\ shown'[messages'[k].send] # 0
               /\ \A j, k \in DOMAIN messages' :
                      messages'[j].send = messages'[k].send /\ messages'[k].send # 0 => j = k
    <3>1. PICK shift \in {0, 1} : \A k \in DOMAIN messages' :
              \/ k + shift \in DOMAIN messages /\ messages'[k] = messages[k + shift]
              \/ k = Len(messages') /\ messages'[k].send = send
      BY <2>4, AppendMessageSources
    <3>2. \A k \in DOMAIN messages' : messages'[k].send # 0 =>
              messages'[k].send \in SendIds /\ shown'[messages'[k].send] # 0
      BY <2>4, <3>1 DEF OnceShownInv
    <3>3. ASSUME NEW j \in DOMAIN messages', NEW k \in DOMAIN messages',
                 messages'[j].send = messages'[k].send, messages'[k].send # 0
          PROVE  j = k
      <4>1. j \in Nat /\ k \in Nat
        <5>1. messages' \in Seq(Messages)
          BY ChatTypesStep DEF ChatTypes
        <5>2. QED
          BY <5>1
      <4>2. CASE /\ j + shift \in DOMAIN messages /\ messages'[j] = messages[j + shift]
                 /\ k + shift \in DOMAIN messages /\ messages'[k] = messages[k + shift]
        <5>1. j + shift = k + shift
          BY <3>3, <4>2 DEF OnceShownInv
        <5>2. QED
          BY <4>1, <5>1
      <4>3. ASSUME NEW i \in DOMAIN messages', messages'[i].send # 0,
                   i + shift \in DOMAIN messages, messages'[i] = messages[i + shift]
            PROVE  messages'[i].send # send
        BY <2>4, <4>3 DEF OnceShownInv
      <4>4. QED
        BY <3>1, <3>3, <4>2, <4>3
    <3>4. QED
      BY <3>2, <3>3
  <2>5. CASE Concludes(e)
    <3>1. e.id \in pending /\ e.id \in SendIds /\ shown[e.id] = 0
      BY <2>3, <2>5 DEF Concludes, OnceShownInv
    <3>2. /\ shown'[e.id] = 1
          /\ \A i \in SendIds : i # e.id => shown'[i] = shown[i]
      BY <2>1, <2>3, <2>5, <3>1
    <3>3. e.id # 0
      BY <3>1, WorkerAssumption DEF SendIds
    <3>4. /\ \A i \in SendIds : shown'[i] <= 1
          /\ \A i \in SendIds : shown'[i] # 0 => i \in accepted' /\ i \notin pending' \union Posted'
      BY <2>1, <2>2, <2>3, <2>5, <3>1, <3>2 DEF OnceShownInv
    <3>5. AppendMessage(e.id, e.kind = "TxFailed") /\ (\A i \in SendIds : shown[i] # 0 => shown'[i] # 0)
      BY <2>1, <2>5, <3>1, <3>2
    <3>6. QED
      BY <2>4, <3>1, <3>2, <3>4, <3>5 DEF OnceShownInv
  <2>6. CASE ~Concludes(e) /\ IsRx(e)
    <3>1. AppendMessage(0, FALSE) /\ shown' = shown /\ pending' = pending
      BY <2>1, <2>6
    <3>2. QED
      BY <2>1, <2>2, <2>4, <3>1 DEF OnceShownInv
  <2>7. CASE ~Concludes(e) /\ ~IsRx(e)
    <3>1. messages' = messages /\ shown' = shown /\ pending' = pending
      BY <2>1, <2>7
    <3>2. QED
      BY <1>1, <2>1, <2>2, <3>1
  <2>8. QED
    BY <2>5, <2>6, <2>7
<1>10. QED
  BY <1>3, <1>4, <1>5, <1>6, <1>7, <1>8, <1>9, ChatSteps

\* However often the worker answers a send, over any number of starts and stops
\* and with every call of the device failing at will, the send becomes a message
\* at most once, and the history never holds two messages of it.
THEOREM EachSendIsShownOnce == ChatSpec => []ShownOnce
<1>1. ChatInit => PendingInv /\ OnceShownInv
  BY DEF ChatInit, Init, PendingInv, Posted, OnceShownInv
<1>2. TypeInv /\ SendsInv /\ ChatTypes /\ CallInv /\ FirstStartInv /\ PendingInv
        /\ [ChatNext]_allVars => PendingInv'
  BY PendingStep
<1>3. TypeInv /\ SendsInv /\ ChatTypes /\ CallInv /\ FirstStartInv /\ PendingInv /\ OnceShownInv
        /\ [ChatNext]_allVars => OnceShownInv'
  BY OnceShownStep
<1>4. OnceShownInv => ShownOnce
  BY DEF OnceShownInv, ShownOnce
<1>5. QED
  BY <1>1, <1>2, <1>3, <1>4, ChatIsACaller, CallInvariant, TypeInvariant, SendsInvariant,
     ChatTypesInvariant, FirstStartInvariant, PTL DEF ChatSpec
-----------------------------------------------------------------------------
(* A worker that ended is shown as ended.                                  *)

\* What an event does to the two fields the buttons depend on.
LEMMA UiAfterTells ==
    ASSUME NEW info \in Infos, NEW e \in Events
    PROVE  /\ e.kind \in StateKinds =>
                  /\ UiAfter(info, e).state = UiState(e.kind)
                  /\ UiAfter(info, e).ready = (e.kind \in {"Idle", "Receiving", "Sending"})
           /\ e.kind \notin Telling =>
                  UiAfter(info, e).state = info.state /\ UiAfter(info, e).ready = info.ready
<1>1. CASE e.kind \in StateKinds
  <2> DEFINE state == UiState(e.kind)
             ready == e.kind \in {"Idle", "Receiving", "Sending"}
             failed == info.initFailed /\ e.kind \in {"Error", "Stopping", "Stopped"}
             text == TextAfterState(info, e.kind)
  <2>1. UiAfter(info, e) = [info EXCEPT !.state = state, !.ready = ready,
                                        !.initFailed = failed, !.text = text]
    BY <1>1 DEF UiAfter, StateKinds
  <2> HIDE DEF state, ready, failed, text
  <2>2. UiAfter(info, e).state = state /\ UiAfter(info, e).ready = ready
    BY <2>1 DEF Infos
  <2>3. QED
    BY <1>1, <2>2 DEF state, ready, Telling
<1>2. CASE e.kind \notin StateKinds
  BY <1>2 DEF UiAfter, Infos, Telling
<1>3. QED
  BY <1>1, <1>2

LEMMA LastAfterAppend ==
    ASSUME NEW S, NEW q \in Seq(S), NEW e
    PROVE  Append(q, e) # <<>> /\ Append(q, e)[Len(Append(q, e))] = e
OBVIOUS

LEMMA LastAfterTail ==
    ASSUME NEW S, NEW q \in Seq(S), NEW kind, LastIs(q, kind)
    PROVE  (Tail(q) = <<>> /\ Head(q).kind = kind) \/ LastIs(Tail(q), kind)
<1>1. q # <<>> /\ q[Len(q)].kind = kind
  BY DEF LastIs
<1>2. /\ Len(q) \in Nat \ {0} /\ Head(q) = q[1] /\ Tail(q) \in Seq(S)
      /\ Len(Tail(q)) = Len(q) - 1
      /\ \A k \in 1 .. Len(q) - 1 : Tail(q)[k] = q[k + 1]
  BY <1>1
<1> DEFINE t == Tail(q)
<1> HIDE DEF t
<1>3. t \in Seq(S) /\ Len(t) = Len(q) - 1 /\ \A k \in 1 .. Len(q) - 1 : t[k] = q[k + 1]
  BY <1>2 DEF t
<1>4. CASE Len(q) = 1
  <2>1. t = <<>>
    BY <1>2, <1>3, <1>4
  <2>2. QED
    BY <1>1, <1>2, <1>4, <2>1 DEF t
<1>5. CASE Len(q) # 1
  <2>1. Len(t) = Len(q) - 1 /\ Len(t) \in 1 .. Len(q) - 1
    BY <1>2, <1>3, <1>5
  <2>2. t[Len(t)] = q[Len(t) + 1] /\ Len(t) + 1 = Len(q)
    BY <1>2, <1>3, <2>1
  <2>3. t # <<>>
    BY <1>2, <2>1
  <2>4. QED
    BY <1>1, <2>2, <2>3 DEF LastIs, t
<1>6. QED
  BY <1>4, <1>5

\* The end of run pushes "Stopped" last.
LEMMA LeaveSaysStopped ==
    ASSUME NEW evs \in Seq(Events), Leave(evs)
    PROVE  pc' = "leave" /\ LastIs(outbox', "Stopped")
<1> DEFINE f == Event("Stopping")
           g == Event("Stopped")
<1>1. pc' = "leave" /\ outbox' = evs \o <<f, g>>
  BY DEF Leave, Step
<1>2. f \in Events /\ g \in Events /\ g.kind = "Stopped"
  BY EventTypes DEF EventKinds, StateKinds, Event
<1> HIDE DEF f, g
<1>3. (evs \o <<f, g>>) # <<>> /\ (evs \o <<f, g>>)[Len(evs \o <<f, g>>)] = g
  BY <1>2
<1>4. QED
  BY <1>1, <1>2, <1>3 DEF LastIs

\* A step of the thread other than a push: it goes on, leaves, or ends.
LEMMA ThreadGoesOn ==
    ASSUME TypeInv, WorkerStep \/ SpuriousWakeup, ~PushEvent
    PROVE  /\ outbox = <<>> /\ events' = events /\ pendingDropped' = pendingDropped
           /\ pc \notin {"none", "done"}
           /\ \/ pc' \notin {"none", "leave", "done"} /\ pc # "leave"
              \/ pc' = "leave" /\ pc # "leave" /\ LastIs(outbox', "Stopped")
              \/ pc = "leave" /\ pc' = "done" /\ UNCHANGED <<outbox, commands>>
<1>1. events' = events /\ pendingDropped' = pendingDropped
  BY DEF WorkerStep, Open, FinishInitialization, CheckStop, TryPopCommand,
         TestPredicate, Block, TimeOut, SpuriousWakeup, ReceiveSlice, HandleRetry,
         HandleSetReceive, BeginSend, SuspendReceive, Transmit, ResumeReceive,
         RestoreReceive, Cancel, Unwind, Finish, Complete, FailSend, GiveUp, Leave, Goto,
         Step, shared
<1>2. CASE CheckStop /\ stopRequested
  <2>1. Leave(<<>>) /\ <<>> \in Seq(Events) /\ pc = "top" /\ outbox = <<>>
    BY <1>2 DEF CheckStop, At
  <2>2. QED
    BY <1>1, <2>1, LeaveSaysStopped
<1>3. CASE Cancel
  <2>1. Leave(<<>>) /\ <<>> \in Seq(Events) /\ outbox = <<>> /\ pc \notin {"none", "leave", "done"}
    BY <1>3 DEF Cancel
  <2>2. QED
    BY <1>1, <2>1, LeaveSaysStopped
<1>4. CASE Unwind
  <2>1. PICK evs \in {<<>>, <<Event("OtherError"), Event("Error")>>} : Leave(evs)
    BY <1>4 DEF Unwind
  <2>2. evs \in Seq(Events)
    <3>1. Event("OtherError") \in Events /\ Event("Error") \in Events
      BY EventTypes DEF EventKinds, StateKinds
    <3>2. <<Event("OtherError"), Event("Error")>> \in Seq(Events) /\ <<>> \in Seq(Events)
      BY <3>1
    <3>3. QED
      BY <2>1, <3>2, Zenon
  <2>3. outbox = <<>> /\ pc = "pop"
    BY <1>4 DEF Unwind, At
  <2>4. QED
    BY <1>1, <2>1, <2>2, <2>3, LeaveSaysStopped
<1>5. CASE Finish
  BY <1>1, <1>5 DEF Finish, At
<1>6. CASE ~Cancel /\ ~Unwind /\ ~Finish /\ ~(CheckStop /\ stopRequested)
  <2>1. /\ outbox = <<>> /\ pc \notin {"none", "leave", "done"}
        /\ pc' \notin {"none", "leave", "done"}
    BY <1>6 DEF WorkerStep, At, Open, FinishInitialization, CheckStop, TryPopCommand,
         TestPredicate, Block, TimeOut, SpuriousWakeup, ReceiveSlice, HandleRetry,
         HandleSetReceive, BeginSend, SuspendReceive, Transmit, ResumeReceive,
         RestoreReceive, Complete, FailSend, GiveUp, Goto, Step
  <2>2. QED
    BY <1>1, <2>1
<1>7. QED
  BY <1>2, <1>3, <1>4, <1>5, <1>6
\* What the calls do to the end of a thread's life.
LEMMA QuietCallEnds ==
    ASSUME ChatTypes, CallInv, QuietCall, ShownAsEnded
    PROVE  ShownAsEnded'
<1>1. ui \in Infos /\ ~ui.ready /\ (RetryQueued' <=> RetryQueued)
  BY QuietCallKeeps DEF ChatTypes, ShownAsEnded, RetryQueued
<1>2. CASE RetryBegin
  <2>1. Retrying'
    BY <1>2 DEF RetryBegin, Retrying, vars, caller
  <2>2. ~ui'.ready
    BY <1>1, <1>2 DEF RetryBegin, RetryShown, Infos
  <2>3. QED
    BY <2>1, <2>2 DEF ShownAsEnded
<1>3. CASE RetryPost
  <2>1. uiPc = "retry"
    BY <1>3 DEF RetryPost
  <2>2. CASE running
    <3>1. uiPc' = "retry" /\ client' = "push" /\ ui' = ui
      BY <1>3, <2>1, <2>2 DEF RetryPost, PostBegin
    <3>2. QED
      BY <1>1, <3>1 DEF Retrying, ShownAsEnded
  <2>3. CASE ~running
    <3>1. ui' = RetryFailed(ui)
      BY <1>3, <2>3 DEF RetryPost
    <3>2. QED
      BY <1>1, <3>1 DEF RetryFailed, Infos, ShownAsEnded
  <2>4. QED
    BY <2>2, <2>3
<1>4. CASE TickOverflow
  <2>1. ui' = [ui EXCEPT !.dropped = ui.dropped + pendingDropped, !.text = "plain"]
    BY <1>4 DEF TickOverflow
  <2>2. ui'.state = ui.state /\ ui'.ready = ui.ready
    BY <1>1, <2>1 DEF Infos
  <2>3. uiPc = "tick"
    BY <1>4 DEF TickOverflow
  <2>4. QED
    BY <1>1, <2>2, <2>3 DEF ShownAsEnded, Retrying
<1>5. CASE ~RetryBegin /\ ~RetryPost /\ ~TickOverflow
  <2>1. ui' = ui
    BY <1>5 DEF QuietCall, ChatStop, ChatStopNotify, SendDraft, TickBegin, TickEnd, allVars, chatVars
  <2>2. Retrying => Retrying'
    BY <1>5 DEF QuietCall, ChatStop, ChatStopNotify, SendDraft, TickBegin, TickEnd, allVars, chatVars,
                Retrying, vars, caller, StopNotify, ClientAt, CallInv
  <2>3. QED
    BY <1>1, <2>1, <2>2 DEF ShownAsEnded
<1>6. QED
  BY <1>2, <1>3, <1>4, <1>5

\* A command that is accepted leaves the others in the queue, one that is refused
\* leaves it alone.
LEMMA PushEnds ==
    ASSUME TypeInv, ChatTypes, CallInv, ChatPostPush, ShownAsEnded
    PROVE  ShownAsEnded'
<1>1. /\ ui \in Infos /\ ~ui.ready /\ client = "push" /\ commands \in Seq(Commands)
      /\ \/ client' = "idle" /\ commands' = commands
         \/ client' = "notify" /\ commands' = Append(commands, posting)
      /\ IF client' = "idle" /\ uiPc = "retry" THEN ui' = RetryFailed(ui) ELSE ui' = ui
  BY DEF ChatPostPush, PostPush, AfterPush, Refused, ChatTypes, TypeInv, TypeOK, ShownAsEnded
<1>2. CASE client' = "idle" /\ uiPc = "retry"
  <2>1. ui' = RetryFailed(ui)
    BY <1>1, <1>2
  <2>2. QED
    BY <1>1, <2>1 DEF RetryFailed, Infos, ShownAsEnded
<1>3. CASE ~(client' = "idle" /\ uiPc = "retry")
  <2>1. ui' = ui
    BY <1>1, <1>3
  <2>2. RetryQueued => RetryQueued'
    <3>1. \A k \in DOMAIN commands : k \in DOMAIN commands' /\ commands'[k] = commands[k]
      BY <1>1
    <3>2. QED
      BY <3>1 DEF RetryQueued
  <2>3. uiPc = "retry" => RetryQueued'
    <3>1. SUFFICES ASSUME uiPc = "retry" PROVE RetryQueued'
      OBVIOUS
    <3>2. posting.kind = "retry" /\ commands' = Append(commands, posting)
      BY <1>1, <1>3, <3>1 DEF CallInv
    <3>3. Len(commands) + 1 \in DOMAIN commands' /\ commands'[Len(commands) + 1] = posting
      BY <1>1, <3>2
    <3>4. QED
      BY <3>2, <3>3 DEF RetryQueued
  <2>4. QED
    BY <2>1, <2>2, <2>3 DEF ShownAsEnded, Retrying
<1>4. QED
  BY <1>2, <1>3

LEMMA EndedStep ==
    ASSUME TypeInv, ChatTypes, CallInv, EndedInv, [ChatNext]_allVars
    PROVE  EndedInv'
<1>1. CASE QuietCall
  <2>1. /\ commands' = commands /\ outbox' = outbox /\ events' = events
        /\ pc' = pc \/ (pc = "blocked" /\ pc' = "test")
    BY <1>1, QuietCallKeeps
  <2>2. ShownAsEnded => ShownAsEnded'
    BY <1>1, QuietCallEnds
  <2>3. QED
    BY <2>1, <2>2 DEF EndedInv
<1>2. CASE RadioStep
  <2>1. UNCHANGED <<ui, uiPc, client>>
    BY <1>2, RadioLeavesCaller DEF RadioStep, chatVars, caller
  <2>2. commands' = commands => (ShownAsEnded => ShownAsEnded')
    BY <2>1 DEF ShownAsEnded, Retrying, RetryQueued
  <2>3. CASE PushEvent
    <3>1. /\ outbox # <<>> /\ outbox \in Seq(Events) /\ outbox' = Tail(outbox) /\ pc' = pc
          /\ events \in Seq(Events) /\ Len(events) <= EventCap
          /\ events' = Enqueue(events, Head(outbox))
      BY <2>3 DEF PushEvent, TypeInv, TypeOK
    <3>2. Head(outbox) \in Events
      BY <3>1
    <3>3. events' # <<>> /\ events'[Len(events')] = Head(outbox)
      BY <3>1, <3>2, EnqueueProperties
    <3>4. ASSUME pc \in {"leave", "done"}
          PROVE  LastIs(outbox', "Stopped") \/ (outbox' = <<>> /\ LastIs(events', "Stopped"))
      <4>1. LastIs(outbox, "Stopped")
        BY <3>1, <3>4 DEF EndedInv
      <4>2. (outbox' = <<>> /\ Head(outbox).kind = "Stopped") \/ LastIs(outbox', "Stopped")
        BY <3>1, <4>1, LastAfterTail
      <4>3. QED
        BY <3>3, <4>2 DEF LastIs
    <3>5. pc \notin {"none", "done"}
      BY <3>1 DEF EndedInv
    <3>6. QED
      BY <3>1, <3>4, <3>5 DEF EndedInv
  <2>4. CASE ~PushEvent
    BY <1>2, <2>2, <2>4, ThreadGoesOn DEF RadioStep, EndedInv
  <2>5. QED
    BY <2>3, <2>4
<1>3. CASE ChatStart \/ RetryRestart \/ ChatStopped
  <2>1. /\ pc \in {"none", "done"}
        /\ pc' = "init" \/ (pc' = "none" /\ outbox' = outbox)
    BY <1>3 DEF ChatStart, RetryRestart, ChatStopped, Start, Join, ClientAt
  <2>2. QED
    BY <2>1 DEF EndedInv
<1>4. CASE ChatPostPush
  <2>1. outbox' = outbox /\ events' = events /\ pc' = pc
    BY <1>4 DEF ChatPostPush, PostPush, worker
  <2>2. QED
    BY <1>4, <2>1, PushEnds DEF EndedInv
<1>5. CASE ChatPosted
  <2>1. /\ outbox' = outbox /\ events' = events /\ commands' = commands /\ ui' = ui
        /\ client = "notify" /\ (pc' = pc \/ (pc = "blocked" /\ pc' = "test"))
    BY <1>5 DEF ChatPosted, PostNotify, ClientAt, Notify
  <2>2. ShownAsEnded => ShownAsEnded'
    BY <2>1 DEF ShownAsEnded, Retrying, RetryQueued
  <2>3. QED
    BY <2>1, <2>2 DEF EndedInv
<1>6. CASE TickEvent
  <2> DEFINE e == Head(events)
  <2>1. /\ outbox' = outbox /\ commands' = commands /\ pc' = pc
        /\ events # <<>> /\ events' = Tail(events) /\ ui' = UiAfter(ui, e)
        /\ events \in Seq(Events) /\ ui \in Infos
    BY <1>6 DEF TickEvent, PopEvent, worker, TypeInv, TypeOK, ChatTypes
  <2>2. e \in Events
    BY <2>1
  <2>3. e.kind = "Stopped" => ShownAsEnded'
    <3>1. e.kind \in StateKinds =>
              /\ ui'.state = UiState(e.kind)
              /\ ui'.ready = (e.kind \in {"Idle", "Receiving", "Sending"})
      BY <2>1, <2>2, UiAfterTells
    <3>2. e.kind = "Stopped" =>
              e.kind \in StateKinds /\ ~(e.kind \in {"Idle", "Receiving", "Sending"})
      BY DEF StateKinds
    <3>3. UiState("Stopped") = "Error"
      BY DEF UiState
    <3>4. e.kind = "Stopped" => ui'.state = "Error" /\ ~ui'.ready
      BY <3>1, <3>2, <3>3, Zenon
    <3>5. QED
      BY <3>4 DEF ShownAsEnded
  <2>4. LastIs(events, "Stopped") =>
            (events' = <<>> /\ e.kind = "Stopped") \/ LastIs(events', "Stopped")
    BY <2>1, LastAfterTail
  <2> HIDE DEF e
  <2>5. QED
    BY <2>1, <2>3, <2>4 DEF EndedInv
<1>7. QED
  BY <1>1, <1>2, <1>3, <1>4, <1>5, <1>6, ChatSteps

\* However many of its last reports were still queued when it ended, whatever
\* was dropped and whatever it left in its own queue: once they are shown, a
\* worker that ended by itself is offered nothing to send, and is shown as an
\* error unless the user's retry is among what it left.
THEOREM EndedWorkerIsShown == ChatSpec => []EndedWorkerShown
<1>1. ChatInit => EndedInv
  BY DEF ChatInit, Init, EndedInv
<1>2. TypeInv /\ ChatTypes /\ CallInv /\ EndedInv /\ [ChatNext]_allVars => EndedInv'
  BY EndedStep
<1>3. EndedInv => EndedWorkerShown
  BY DEF EndedInv, EndedWorkerShown, LastIs, Retrying, ShownAsEnded
<1>4. QED
  BY <1>1, <1>2, <1>3, ChatIsACaller, CallInvariant, TypeInvariant, ChatTypesInvariant, PTL
     DEF ChatSpec
-----------------------------------------------------------------------------
(* The interface agrees with a worker at rest.                             *)

LEMMA KindsStep ==
    ASSUME TypeInv, CallInv, KindsInv, [ChatNext]_allVars
    PROVE  KindsInv'
<1>1. ASSUME commands' = commands, command' = command,
             posting' = posting \/ posting'.kind \in {"send", "retry"}
      PROVE  KindsInv'
  BY <1>1 DEF KindsInv
<1>2. CASE RadioStep
  <2>1. posting' = posting
    BY <1>2, RadioLeavesCaller DEF RadioStep, caller
  <2>2. CASE TryPopCommand /\ commands # <<>>
    <3>1. /\ commands \in Seq(Commands) /\ commands # <<>>
          /\ command' = Head(commands) /\ commands' = Tail(commands)
      BY <2>2 DEF TryPopCommand, CommandTaken, CommandsLeft, TypeInv, TypeOK
    <3>2. /\ 1 \in DOMAIN commands /\ command' = commands[1]
          /\ \A k \in DOMAIN commands' : k + 1 \in DOMAIN commands /\ commands'[k] = commands[k + 1]
      BY <3>1
    <3>3. QED
      BY <2>1, <3>2 DEF KindsInv
  <2>3. CASE ~(TryPopCommand /\ commands # <<>>)
    <3>1. commands' = commands /\ command' = command
      BY <1>2, <2>3 DEF RadioStep, WorkerStep, PushEvent, Open, FinishInitialization, CheckStop,
         TryPopCommand, TestPredicate, Block, TimeOut, SpuriousWakeup, ReceiveSlice, HandleRetry,
         HandleSetReceive, BeginSend, SuspendReceive, Transmit, ResumeReceive,
         RestoreReceive, Cancel, Unwind, Finish, Complete, FailSend, GiveUp, Leave, Goto,
         Step, shared
    <3>2. QED
      BY <1>1, <2>1, <3>1
  <2>4. QED
    BY <2>2, <2>3
<1>3. CASE QuietCall
  <2>1. posting' = posting \/ posting'.kind \in {"send", "retry"}
    BY <1>3 DEF QuietCall, ChatStop, ChatStopNotify, SendDraft, RetryBegin, RetryPost, TickBegin,
         TickEnd, TickOverflow, StopStore, StopNotify, PostBegin, PopEvent,
         allVars, vars, caller
  <2>2. QED
    BY <1>1, <1>3, <2>1, QuietCallKeeps
<1>4. CASE ChatStart \/ RetryRestart
  <2>1. commands' = <<>> /\ command' = command /\ posting' = posting
    BY <1>4 DEF ChatStart, RetryRestart, Start
  <2>2. QED
    BY <2>1 DEF KindsInv
<1>5. CASE ChatStopped \/ ChatPosted \/ TickEvent
  <2>1. commands' = commands /\ command' = command /\ posting' = posting
    BY <1>5 DEF ChatStopped, ChatPosted, TickEvent, Join, PostNotify, PopEvent, ClientAt, worker
  <2>2. QED
    BY <1>1, <2>1
<1>6. CASE ChatPostPush
  <2>1. /\ command' = command /\ posting' = posting /\ commands \in Seq(Commands)
        /\ commands' = commands \/ commands' = Append(commands, posting)
    BY <1>6 DEF ChatPostPush, PostPush, worker, TypeInv, TypeOK
  <2>2. \A k \in DOMAIN commands' :
            (k \in DOMAIN commands /\ commands'[k] = commands[k]) \/ commands'[k] = posting
    BY <2>1
  <2>3. QED
    BY <2>1, <2>2 DEF KindsInv
<1>7. QED
  BY <1>2, <1>3, <1>4, <1>5, <1>6, ChatSteps

\* What a queue tells when its first event is taken, or one is added.
LEMMA TellsAfterTail ==
    ASSUME NEW q \in Seq(Events), q # <<>>, NEW state
    PROVE  /\ Silent(q) => Silent(Tail(q)) /\ Head(q).kind \notin Telling
           /\ Says(q, state) => Says(Tail(q), state) \/ (Silent(Tail(q)) /\ Head(q).kind = state)
<1> DEFINE t == Tail(q)
<1>1. /\ DOMAIN q = 1 .. Len(q) /\ Len(q) \in Nat \ {0} /\ Head(q) = q[1] /\ 1 \in DOMAIN q
      /\ DOMAIN t = 1 .. Len(q) - 1
      /\ \A k \in DOMAIN t : k \in Nat /\ k + 1 \in DOMAIN q /\ t[k] = q[k + 1] /\ 1 < k + 1
      /\ \A k \in DOMAIN q : k \in Nat /\ (k = 1 \/ (k - 1 \in DOMAIN t /\ t[k - 1] = q[k]))
  OBVIOUS
<1> HIDE DEF t
<1>2. Silent(q) => Silent(t) /\ Head(q).kind \notin Telling
  BY <1>1 DEF Silent
<1>3. ASSUME Says(q, state) PROVE Says(t, state) \/ (Silent(t) /\ Head(q).kind = state)
  <2>1. PICK k \in DOMAIN q : /\ q[k].kind = state
                              /\ \A j \in DOMAIN q : k < j => q[j].kind \notin Telling
    BY <1>3 DEF Says
  <2>2. CASE k = 1
    BY <1>1, <2>1, <2>2 DEF Silent
  <2>3. CASE k # 1
    <3>1. k - 1 \in DOMAIN t /\ t[k - 1].kind = state
      BY <1>1, <2>1, <2>3
    <3>2. ASSUME NEW j \in DOMAIN t, k - 1 < j PROVE t[j].kind \notin Telling
      <4>1. j + 1 \in DOMAIN q /\ t[j] = q[j + 1] /\ k < j + 1
        BY <1>1, <3>2
      <4>2. QED
        BY <2>1, <4>1
    <3>3. QED
      BY <3>1, <3>2 DEF Says
  <2>4. QED
    BY <2>2, <2>3
<1>4. QED
  BY <1>2, <1>3 DEF t

LEMMA TellsAfterAppend ==
    ASSUME NEW q \in Seq(Events), NEW e, NEW state
    PROVE  /\ e.kind = state => Says(Append(q, e), state)
           /\ e.kind \notin Telling /\ Silent(q) => Silent(Append(q, e))
           /\ e.kind \notin Telling /\ Says(q, state) => Says(Append(q, e), state)
<1> DEFINE r == Append(q, e)
<1>1. /\ DOMAIN q = 1 .. Len(q) /\ Len(q) \in Nat /\ DOMAIN r = 1 .. Len(q) + 1
      /\ Len(q) + 1 \in DOMAIN r /\ r[Len(q) + 1] = e
      /\ \A k \in DOMAIN q : k \in DOMAIN r /\ r[k] = q[k]
      /\ \A k \in DOMAIN r : ~(Len(q) + 1 < k)
      /\ \A k \in DOMAIN r : (k \in DOMAIN q /\ r[k] = q[k]) \/ r[k] = e
  OBVIOUS
<1> HIDE DEF r
<1>2. e.kind = state => Says(r, state)
  BY <1>1 DEF Says
<1>3. e.kind \notin Telling /\ Silent(q) => Silent(r)
  BY <1>1 DEF Silent
<1>4. ASSUME e.kind \notin Telling, Says(q, state) PROVE Says(r, state)
  <2>1. PICK k \in DOMAIN q : /\ q[k].kind = state
                              /\ \A j \in DOMAIN q : k < j => q[j].kind \notin Telling
    BY <1>4 DEF Says
  <2>2. k \in DOMAIN r /\ r[k].kind = state
    BY <1>1, <2>1
  <2>3. \A j \in DOMAIN r : k < j => r[j].kind \notin Telling
    BY <1>1, <1>4, <2>1
  <2>4. QED
    BY <2>2, <2>3 DEF Says
<1>5. QED
  BY <1>2, <1>3, <1>4 DEF r

\* What the thread's reports tell.
LEMMA ReportsTell ==
    /\ Silent(<<>>) /\ Silent(<<Event("RxPacket")>>) /\ \A i : Silent(FailureOf(i))
    /\ \A state : ~Says(<<>>, state) /\ Says(<<Event(state)>>, state)
    /\ \A state : \A evs \in Seq(Events) : Says(Append(evs, Event(state)), state)
<1>1. Silent(<<>>) /\ Silent(<<Event("RxPacket")>>) /\ \A i : Silent(FailureOf(i))
  BY DEF Silent, Event, FailureOf, SendEvent, Telling, StateKinds
<1>2. \A state : ~Says(<<>>, state)
  BY DEF Says
<1>3. ASSUME NEW state PROVE Says(<<Event(state)>>, state)
  BY DEF Says, Event
<1>4. ASSUME NEW state, NEW evs \in Seq(Events) PROVE Says(Append(evs, Event(state)), state)
  BY TellsAfterAppend DEF Event
<1>5. QED
  BY <1>1, <1>2, <1>3, <1>4
\* The steps of the thread: it reports the state it comes to rest in, or says
\* nothing that matters and rests as before, or is not at rest.
LEMMA InterfaceRadioStep ==
    ASSUME TypeInv, BackendInv, KindsInv, ChatTypes, InterfaceInv, RadioStep
    PROVE  InterfaceInv'
<1> USE DEF Resting, At
<1>1. /\ initialized \in BOOLEAN /\ receiveRequested \in BOOLEAN /\ outbox \in Seq(Events)
      /\ events \in Seq(Events) /\ command.kind \in {"send", "retry"}
  BY DEF TypeInv, TypeOK, KindsInv
<1>2. /\ ui' = ui /\ Retrying' = Retrying /\ \A state : Agrees(state)' = Agrees(state)
  <2>1. UNCHANGED <<ui, uiPc, client>>
    BY RadioLeavesCaller DEF RadioStep, chatVars, caller
  <2>2. QED
    BY <2>1 DEF Retrying, Agrees
<1>3. ASSUME NEW l, NEW evs, NEW b, NEW i \in BOOLEAN, Step(l, evs, b, i),
             Says(evs, IF ~i THEN "Error" ELSE IF receiveRequested' THEN "Receiving" ELSE "Idle")
      PROVE  InterfaceInv'
  <2>1. outbox' = evs /\ initialized' = i
    BY <1>3 DEF Step
  <2>2. Says(outbox', RestingState')
    BY <1>3, <2>1 DEF RestingState
  <2>3. QED
    BY <2>2 DEF InterfaceInv, Shows
<1>4. ASSUME pc' \notin Resting PROVE InterfaceInv'
  BY <1>4 DEF InterfaceInv, AtRest
<1>5. ASSUME NEW evs \in Seq(Events), GiveUp(evs) PROVE InterfaceInv'
  <2>1. Step("top", Append(evs, Event("Error")), Closed, FALSE)
    BY <1>5 DEF GiveUp
  <2>2. Says(Append(evs, Event("Error")), "Error")
    BY ReportsTell
  <2>3. QED
    BY <1>3, <2>1, <2>2
<1>6. ASSUME AtRest, outbox = <<>>, Silent(outbox'), RetryAhead => RetryAhead',
             initialized' = initialized, receiveRequested' = receiveRequested,
             events' = events, pendingDropped' = pendingDropped
      PROVE  InterfaceInv'
  <2>1. (NothingDropped' <=> NothingDropped) /\ RestingState' = RestingState
    BY <1>2, <1>6 DEF NothingDropped, RestingState
  <2>2. ASSUME NothingDropped
        PROVE  Says(events, RestingState) \/ (Silent(events) /\ (Agrees(RestingState) \/ RetryAhead))
    <3>1. Shows(RestingState) /\ ~Says(outbox, RestingState)
      BY <1>6, <2>2, ReportsTell DEF InterfaceInv
    <3>2. QED
      BY <3>1 DEF Shows
  <2>3. Agrees(RestingState)' = Agrees(RestingState)
    BY <1>2, <2>1 DEF Agrees
  <2>4. NothingDropped' => Shows(RestingState)'
    BY <1>6, <2>1, <2>2, <2>3 DEF Shows
  <2>5. QED
    BY <2>4 DEF InterfaceInv
\* Most of them leave the commands alone as well.
<1>7. ASSUME NEW l, NEW evs, NEW b, Step(l, evs, b, initialized), AtRest, outbox = <<>>,
             receiveRequested' = receiveRequested, Silent(evs)
      PROVE  InterfaceInv'
  <2>1. /\ outbox' = evs /\ initialized' = initialized /\ events' = events
        /\ pendingDropped' = pendingDropped /\ commands' = commands
    BY <1>7 DEF Step, shared
  <2>2. RetryAhead' = RetryAhead
    BY <1>2, <2>1 DEF RetryAhead
  <2>3. QED
    BY <1>6, <1>7, <2>1, <2>2
<1>8. ASSUME NEW l, NEW evs, NEW b, NEW i, Step(l, evs, b, i), l \notin Resting
      PROVE  InterfaceInv'
  BY <1>4, <1>8 DEF Step
<1>9. ASSUME NEW evs, Leave(evs) PROVE InterfaceInv'
  BY <1>8, <1>9 DEF Leave
<1>10. ASSUME FailSend PROVE InterfaceInv'
  <2>1. FailureOf(command.id) \in Seq(Events)
    BY FailureTypes DEF TypeInv, TypeOK
  <2>2. QED
    BY <1>5, <1>8, <1>10, <2>1 DEF FailSend, Goto
<1>11. \A k \in EventKinds : <<Event(k)>> \in Seq(Events)
  BY EventTypes
<1>12. CASE PushEvent
  <2> DEFINE e == Head(outbox)
             state == RestingState
  <2>1. /\ outbox # <<>> /\ outbox' = Tail(outbox)
        /\ UNCHANGED <<pc, command, initialized, receiveRequested, commands>>
    BY <1>12 DEF PushEvent
  <2>2. RestingState' = RestingState /\ AtRest' = AtRest /\ RetryAhead' = RetryAhead
    BY <1>2, <2>1 DEF RestingState, AtRest, RetryAhead
  <2>3. NothingDropped' => NothingDropped /\ events' = Append(events, e)
    BY <1>2, <1>12, NothingLost
  <2>4. /\ Silent(outbox) => Silent(Tail(outbox)) /\ e.kind \notin Telling
        /\ Says(outbox, state) => Says(Tail(outbox), state) \/ (Silent(Tail(outbox)) /\ e.kind = state)
    BY <1>1, <2>1, TellsAfterTail
  <2>5. /\ e.kind = state => Says(Append(events, e), state)
        /\ e.kind \notin Telling /\ Silent(events) => Silent(Append(events, e))
        /\ e.kind \notin Telling /\ Says(events, state) => Says(Append(events, e), state)
    BY <1>1, TellsAfterAppend
  <2>6. Agrees(RestingState)' = Agrees(RestingState)
    BY <1>2, <2>2 DEF Agrees
  <2> HIDE DEF e
  <2>7. AtRest' /\ NothingDropped' => Shows(RestingState)'
    BY <2>1, <2>2, <2>3, <2>4, <2>5, <2>6 DEF InterfaceInv, Shows
  <2>8. QED
    BY <2>7 DEF InterfaceInv
<1>13. CASE Open
  BY <1>5, <1>8, <1>11, <1>13 DEF Open, Goto, EventKinds
<1>14. CASE FinishInitialization
  <2>1. CASE receiveRequested /\ Step("top", <<Event("Receiving")>>, Active, TRUE) /\ Same
    BY <1>3, <2>1, ReportsTell DEF Same
  <2>2. CASE ~receiveRequested /\ Step("top", <<Event("Idle")>>, backend, TRUE) /\ Same
    BY <1>3, <2>2, ReportsTell DEF Same
  <2>3. QED
    BY <1>5, <1>11, <1>14, <2>1, <2>2 DEF FinishInitialization, EventKinds
<1>15. CASE CheckStop
  BY <1>7, <1>9, <1>15, ReportsTell DEF CheckStop, Goto, Same, AtRest
<1>16. CASE TryPopCommand
  <2>1. /\ pc = "pop" /\ outbox = <<>> /\ outbox' = <<>>
        /\ UNCHANGED <<initialized, receiveRequested, events, pendingDropped>>
    BY <1>16 DEF TryPopCommand
  <2>2. CASE commands # <<>>
    <3>1. pc' = "handle" /\ command' = Head(commands) /\ commands' = Tail(commands)
      BY <1>16, <2>2 DEF TryPopCommand, CommandTaken, CommandsLeft
    <3>2. \A k \in DOMAIN commands : commands[k] = command'
              \/ \E j \in DOMAIN commands' : commands'[j] = commands[k]
      <4>1. commands \in Seq(Commands)
        BY DEF TypeInv, TypeOK
      <4>2. \A k \in DOMAIN commands : commands[k] = command'
                \/ (k - 1 \in DOMAIN commands' /\ commands'[k - 1] = commands[k])
        BY <2>2, <3>1, <4>1
      <4>3. QED
        BY <4>2
    <3>3. CASE initialized \/ command'.kind = "retry"
      BY <2>1, <3>1, <3>3 DEF InterfaceInv, AtRest
    <3>4. CASE ~initialized /\ command'.kind # "retry"
      <4>1. RetryAhead => RetryAhead'
        BY <1>2, <3>2, <3>4 DEF RetryAhead
      <4>2. QED
        BY <1>6, <2>1, <4>1, ReportsTell DEF AtRest
    <3>5. QED
      BY <3>3, <3>4
  <2>3. CASE commands = <<>>
    <3>1. commands' = commands
      BY <1>16, <2>3 DEF TryPopCommand
    <3>2. RetryAhead' = RetryAhead
      BY <1>2, <2>1, <3>1 DEF RetryAhead
    <3>3. QED
      BY <1>6, <2>1, <3>2, ReportsTell DEF AtRest
  <2>4. QED
    BY <2>2, <2>3
<1>17. CASE TestPredicate \/ Block \/ TimeOut \/ SpuriousWakeup
  BY <1>7, <1>17, ReportsTell
     DEF TestPredicate, Block, TimeOut, SpuriousWakeup, Goto, Same, AtRest
<1>18. CASE ReceiveSlice
  <2>1. CASE Step("top", <<Event("RxPacket")>>, backend, initialized)
             /\ UNCHANGED <<receiveRequested, wrote>>
    BY <1>7, <1>18, <2>1, ReportsTell DEF ReceiveSlice, AtRest
  <2>2. QED
    BY <1>5, <1>7, <1>11, <1>18, <2>1, ReportsTell DEF ReceiveSlice, Goto, Same, EventKinds, AtRest
<1>19. CASE HandleRetry
  BY <1>8, <1>19 DEF HandleRetry, Goto
<1>20. CASE HandleSetReceive
  BY <1>1, <1>20 DEF HandleSetReceive
<1>21. CASE BeginSend
  <2>1. CASE initialized
    BY <1>8, <1>21, <2>1 DEF BeginSend, Goto
  <2>2. CASE ~initialized
    <3>1. AtRest /\ outbox = <<>> /\ Goto("top", FailureOf(command.id), backend)
      BY <1>21, <2>2 DEF BeginSend, AtRest
    <3>2. QED
      BY <1>7, <3>1, ReportsTell DEF Goto, Same
  <2>3. QED
    BY <2>1, <2>2
<1>22. CASE SuspendReceive
  BY <1>8, <1>10, <1>22 DEF SuspendReceive, Goto
<1>23. CASE Transmit
  BY <1>8, <1>10, <1>23 DEF Transmit, Complete
<1>24. CASE ResumeReceive
  <2>1. initialized
    BY <1>24 DEF ResumeReceive, BackendInv
  <2>2. CASE receiveRequested /\ Goto("top", <<Event("Receiving")>>, Active)
    BY <1>1, <1>3, <2>1, <2>2, ReportsTell DEF Goto, Same
  <2>3. CASE ~receiveRequested /\ Goto("top", <<Event("Idle")>>, backend)
    BY <1>1, <1>3, <2>1, <2>3, ReportsTell DEF Goto, Same
  <2>4. QED
    BY <1>10, <1>24, <2>2, <2>3 DEF ResumeReceive
<1>25. CASE RestoreReceive
  <2>1. initialized /\ receiveRequested
    BY <1>25 DEF RestoreReceive, BackendInv
  <2>2. CASE Goto("top", RestoredReport, Active)
    BY <1>1, <1>3, <2>1, <2>2, ReportsTell DEF Goto, Same, RestoredReport
  <2>3. QED
    BY <1>5, <1>11, <1>25, <2>2 DEF RestoreReceive, EventKinds
<1>26. CASE Cancel \/ Unwind
  BY <1>9, <1>26 DEF Cancel, Unwind
<1>27. CASE Finish
  BY <1>4, <1>27 DEF Finish
<1>28. QED
  BY <1>12, <1>13, <1>14, <1>15, <1>16, <1>17, <1>18, <1>19, <1>20, <1>21, <1>22, <1>23, <1>24,
     <1>25, <1>26, <1>27 DEF RadioStep, WorkerStep
\* A step of the interface's thread that leaves the queues alone.
LEMMA SameQueuesShow ==
    ASSUME InterfaceInv, pc' = pc \/ (pc = "blocked" /\ pc' = "test"),
           command' = command, initialized' = initialized, receiveRequested' = receiveRequested,
           outbox' = outbox, events' = events, NothingDropped' <=> NothingDropped,
           AtRest /\ NothingDropped =>
               (Agrees(RestingState) \/ RetryAhead => Agrees(RestingState)' \/ RetryAhead')
    PROVE  InterfaceInv'
<1>1. RestingState' = RestingState /\ (AtRest' => AtRest)
  BY DEF RestingState, AtRest, Resting
<1>2. AtRest' /\ NothingDropped' => Shows(RestingState)'
  BY <1>1 DEF InterfaceInv, Shows
<1>3. QED
  BY <1>2 DEF InterfaceInv

LEMMA QuietCallShows ==
    ASSUME TypeInv, ChatTypes, CallInv, RunningMatchesThread, InterfaceInv, QuietCall
    PROVE  InterfaceInv'
<1>1. /\ commands' = commands /\ command' = command /\ outbox' = outbox /\ events' = events
      /\ pc' = pc \/ (pc = "blocked" /\ pc' = "test")
  BY QuietCallKeeps
<1>2. initialized' = initialized /\ receiveRequested' = receiveRequested
  BY DEF QuietCall, ChatStop, ChatStopNotify, SendDraft, RetryBegin, RetryPost, TickBegin, TickEnd,
         TickOverflow, StopStore, StopNotify, ClientAt, PostBegin, PopEvent, allVars, vars, worker
<1>3. NothingDropped' <=> NothingDropped
  BY DroppedStays
<1>4. ui \in Infos /\ pendingDropped \in Nat
  BY DEF ChatTypes, TypeInv, TypeOK
<1>5. AtRest => running
  BY DEF AtRest, Resting, RunningMatchesThread
<1>6. AtRest /\ NothingDropped => (ui' = ui /\ (Retrying => Retrying')) \/ Retrying'
  <2>1. CASE RetryBegin
    BY <2>1 DEF RetryBegin, Retrying, vars, caller
  <2>2. CASE RetryPost
    BY <1>5, <2>2 DEF RetryPost, PostBegin, Retrying
  <2>3. CASE TickOverflow
    BY <1>4, <2>3 DEF TickOverflow, NothingDropped, Infos
  <2>4. CASE ~RetryBegin /\ ~RetryPost /\ ~TickOverflow
    <3>1. ui' = ui
      BY <2>4 DEF QuietCall, ChatStop, ChatStopNotify, SendDraft, TickBegin, TickEnd, allVars, chatVars
    <3>2. Retrying => Retrying'
      BY <2>4 DEF QuietCall, ChatStop, ChatStopNotify, SendDraft, TickBegin, TickEnd, allVars,
                  chatVars, Retrying, vars, caller, StopNotify, ClientAt, CallInv
    <3>3. QED
      BY <3>1, <3>2
  <2>5. QED
    BY <2>1, <2>2, <2>3, <2>4
<1>7. AtRest /\ NothingDropped =>
          (Agrees(RestingState) \/ RetryAhead => Agrees(RestingState)' \/ RetryAhead')
  BY <1>1, <1>2, <1>6 DEF Agrees, RetryAhead, RestingState
<1>8. QED
  BY <1>1, <1>2, <1>3, <1>7, SameQueuesShow

\* A refused retry leaves an error behind and a full queue; an accepted one is
\* in the queue.
LEMMA PostPushShows ==
    ASSUME TypeInv, ChatTypes, CallInv, InterfaceInv, ChatPostPush
    PROVE  InterfaceInv'
<1>1. /\ client = "push" /\ UNCHANGED <<pc, command, initialized, receiveRequested, outbox, events>>
      /\ uiPc' = IF client' = "idle" THEN "idle" ELSE uiPc
      /\ ui' = IF client' = "idle" /\ uiPc = "retry" THEN RetryFailed(ui) ELSE ui
      /\ \/ client' = "idle" /\ commands' = commands /\ Len(commands) >= CommandCap
         \/ client' = "notify" /\ commands' = Append(commands, posting)
  BY DEF ChatPostPush, PostPush, AfterPush, Refused, worker
<1>2. NothingDropped' <=> NothingDropped
  BY DroppedStays
<1>3. uiPc \in {"send", "retry"} /\ (uiPc = "retry" => posting.kind = "retry")
  BY <1>1 DEF CallInv
<1>4. RestingState' = RestingState
  BY <1>1 DEF RestingState
<1>5. commands' # <<>>
  <2>1. commands \in Seq(Commands) /\ CommandCap \in Nat \ {0}
    BY WorkerAssumption DEF TypeInv, TypeOK
  <2>2. Append(commands, posting) # <<>>
    BY <2>1, LastAfterAppend
  <2>3. Len(commands) >= CommandCap => commands # <<>>
    BY <2>1
  <2>4. QED
    BY <1>1, <2>2, <2>3
<1>6. /\ \A k \in DOMAIN commands : k \in DOMAIN commands' /\ commands'[k] = commands[k]
      /\ client' = "notify" => \E k \in DOMAIN commands' : commands'[k] = posting
  <2>1. commands \in Seq(Commands)
    BY DEF TypeInv, TypeOK
  <2>2. commands' = Append(commands, posting) =>
            /\ \A k \in DOMAIN commands : k \in DOMAIN commands' /\ commands'[k] = commands[k]
            /\ Len(commands) + 1 \in DOMAIN commands' /\ commands'[Len(commands) + 1] = posting
    BY <2>1
  <2>3. QED
    BY <1>1, <2>2
<1>7. CASE initialized
  BY <1>1, <1>2, <1>5, <1>7, SameQueuesShow DEF RetryAhead
<1>8. CASE ~initialized /\ uiPc = "retry" /\ client' = "idle"
  <2>1. ui'.state = "Error" /\ ui'.ready = FALSE
    BY <1>1, <1>8 DEF ChatTypes, Infos, RetryFailed
  <2>2. RestingState = "Error" /\ UiState("Error") = "Error"
        /\ FALSE = ("Error" \in {"Idle", "Receiving", "Sending"})
    BY <1>8 DEF RestingState, UiState
  <2>3. Agrees(RestingState)'
    <3>1. RestingState' = "Error"
      BY <1>4, <2>2
    <3>2. Agrees("Error")'
      BY <2>1, <2>2, Zenon DEF Agrees
    <3>3. QED
      BY <3>1, <3>2 DEF Agrees
  <2>4. QED
    BY <1>1, <1>2, <2>3, SameQueuesShow
<1>9. CASE ~initialized /\ uiPc = "retry" /\ client' = "notify"
  <2>1. RetryAhead'
    BY <1>3, <1>6, <1>9 DEF RetryAhead
  <2>2. QED
    BY <1>1, <1>2, <2>1, SameQueuesShow
<1>10. CASE ~initialized /\ uiPc = "send"
  <2>1. ui' = ui /\ ~Retrying
    BY <1>1, <1>10 DEF Retrying
  <2>2. Agrees(RestingState)' = Agrees(RestingState)
    BY <1>4, <2>1 DEF Agrees
  <2>3. RetryAhead => RetryAhead'
    BY <1>6, <1>10, <2>1 DEF RetryAhead
  <2>4. QED
    BY <1>1, <1>2, <2>2, <2>3, SameQueuesShow
<1>11. QED
  BY <1>1, <1>3, <1>7, <1>8, <1>9, <1>10

\* A tick that pops the last event that tells makes the interface agree.
LEMMA TickEventShows ==
    ASSUME TypeInv, ChatTypes, InterfaceInv, TickEvent
    PROVE  InterfaceInv'
<1> DEFINE e == Head(events)
           state == RestingState
<1>1. /\ uiPc = "tick" /\ uiPc' = "tick" /\ commands' = commands
      /\ UNCHANGED <<pc, command, initialized, receiveRequested, outbox, commands>>
      /\ events # <<>> /\ events \in Seq(Events) /\ events' = Tail(events)
      /\ ui' = UiAfter(ui, e) /\ ui \in Infos
  BY DEF TickEvent, PopEvent, worker, TypeInv, TypeOK, ChatTypes
<1>2. NothingDropped' <=> NothingDropped
  BY DroppedStays
<1>3. RestingState' = RestingState /\ AtRest' = AtRest /\ RestingState \in StateKinds
  BY <1>1 DEF RestingState, AtRest, StateKinds
<1>4. RetryAhead' = RetryAhead
  BY <1>1 DEF RetryAhead, Retrying
<1>5. /\ Silent(events) => Silent(events') /\ e.kind \notin Telling
      /\ Says(events, state) => Says(events', state) \/ (Silent(events') /\ e.kind = state)
  BY <1>1, TellsAfterTail
<1>6. e \in Events
  BY <1>1
<1>7. /\ e.kind \in StateKinds =>
             /\ ui'.state = UiState(e.kind)
             /\ ui'.ready = (e.kind \in {"Idle", "Receiving", "Sending"})
      /\ e.kind \notin Telling => ui'.state = ui.state /\ ui'.ready = ui.ready
  BY <1>1, <1>6, UiAfterTells
<1> HIDE DEF e
<1>8. e.kind = RestingState => Agrees(RestingState)'
  BY <1>3, <1>7 DEF Agrees
<1>9. e.kind \notin Telling => (Agrees(RestingState) => Agrees(RestingState)')
  BY <1>3, <1>7 DEF Agrees
<1>10. AtRest' /\ NothingDropped' => Shows(RestingState)'
  BY <1>1, <1>2, <1>3, <1>4, <1>5, <1>8, <1>9 DEF InterfaceInv, Shows
<1>11. QED
  BY <1>10 DEF InterfaceInv

LEMMA InterfaceStep ==
    ASSUME TypeInv, BackendInv, RunningMatchesThread, KindsInv, ChatTypes, CallInv, InterfaceInv,
           [ChatNext]_allVars
    PROVE  InterfaceInv'
<1>1. CASE QuietCall
  BY <1>1, QuietCallShows
<1>2. CASE RadioStep
  BY <1>2, InterfaceRadioStep
<1>3. CASE ChatStart \/ RetryRestart \/ ChatStopped
  <2>1. pc' \in {"init", "none"}
    BY <1>3 DEF ChatStart, RetryRestart, ChatStopped, Start, Join
  <2>2. QED
    BY <2>1 DEF InterfaceInv, AtRest, Resting
<1>4. CASE ChatPostPush
  BY <1>4, PostPushShows
<1>5. CASE ChatPosted
  <2>1. /\ client = "notify" /\ ui' = ui /\ commands' = commands
        /\ pc' = pc \/ (pc = "blocked" /\ pc' = "test")
        /\ UNCHANGED <<command, initialized, receiveRequested, outbox, events>>
    BY <1>5 DEF ChatPosted, PostNotify, ClientAt, Notify
  <2>2. NothingDropped' <=> NothingDropped
    BY <1>5, DroppedStays
  <2>3. ~Retrying /\ Agrees(RestingState)' = Agrees(RestingState)
    BY <2>1 DEF Retrying, Agrees, RestingState
  <2>4. RetryAhead => RetryAhead'
    BY <2>1, <2>3 DEF RetryAhead
  <2>5. QED
    BY <2>1, <2>2, <2>3, <2>4, SameQueuesShow
<1>6. CASE TickEvent
  BY <1>6, TickEventShows
<1>7. QED
  BY <1>1, <1>2, <1>3, <1>4, <1>5, <1>6, ChatSteps

\* Once the queues are drained the interface shows the state the worker is in
\* and offers to send exactly when the worker can, through failures, retries
\* pressed in any state, refused posts and restarts, as long as no event was
\* dropped.
THEOREM InterfaceAgreesWithWorker == ChatSpec => []InterfaceAgrees
<1>1. ChatInit => KindsInv /\ InterfaceInv
  BY DEF ChatInit, Init, KindsInv, NoCommand, InterfaceInv, AtRest, Resting
<1>2. TypeInv /\ CallInv /\ KindsInv /\ [ChatNext]_allVars => KindsInv'
  BY KindsStep
<1>3. TypeInv /\ BackendInv /\ RunningMatchesThread /\ KindsInv /\ ChatTypes /\ CallInv
        /\ InterfaceInv /\ [ChatNext]_allVars => InterfaceInv'
  BY InterfaceStep
<1>4. TypeInv /\ InterfaceInv => InterfaceAgrees
  <2> SUFFICES ASSUME TypeInv, InterfaceInv, Settled, ui.dropped = 0
               PROVE  ui.state = UiState(RestingState) /\ ui.ready = initialized
    BY DEF InterfaceAgrees
  <2>1. /\ uiPc = "idle" /\ outbox = <<>> /\ commands = <<>> /\ events = <<>>
        /\ AtRest /\ NothingDropped
    BY DEF Settled, AtRest, Resting, NothingDropped
  <2>2. ~RetryAhead
    BY <2>1 DEF RetryAhead, Retrying
  <2>3. ~Says(outbox, RestingState) /\ ~Says(events, RestingState)
    BY <2>1, ReportsTell
  <2>4. Agrees(RestingState)
    BY <2>1, <2>2, <2>3 DEF InterfaceInv, Shows
  <2>5. initialized = (RestingState \in {"Idle", "Receiving", "Sending"})
    BY DEF RestingState, TypeInv, TypeOK
  <2>6. QED
    BY <2>4, <2>5 DEF Agrees
<1>5. QED
  BY <1>1, <1>2, <1>3, <1>4, ChatIsACaller, CallInvariant, TypeInvariant, BackendInvariant,
     RunningIsTruthful, ChatTypesInvariant, PTL DEF ChatSpec
=============================================================================
