------------------------- MODULE RadioWorker_proofs -------------------------
(***************************************************************************)
(* Safety of the radio worker for every capacity of its two queues, every  *)
(* set of calls that may fail, and any number of posts, starts and packets.*)
(***************************************************************************)
EXTENDS RadioWorker, EventQueue_proofs

-----------------------------------------------------------------------------
(* Types.  That the ids of sends are send ids has to be carried along with *)
(* the commands, from PostBegin through the queue to Transmit.             *)

GoodCommands == {c \in Commands : c.kind = "send" => c.id \in SendIds}

TypeInv ==
    /\ TypeOK
    /\ commands \in Seq(GoodCommands)
    /\ command \in GoodCommands /\ posting \in GoodCommands
    /\ pc \in {"stopReceive", "transmit"} => command.kind = "send"

Backends == [open : BOOLEAN, receiving : BOOLEAN]

LEMMA EventTypes ==
    /\ \A k \in EventKinds : Event(k) \in Events
    /\ \A k \in EventKinds, i \in 0 .. MaxPosts : SendEvent(k, i) \in Events
BY WorkerAssumption DEF Event, SendEvent, Events

LEMMA BackendTypes == Closed \in Backends /\ Opened \in Backends /\ Active \in Backends
BY DEF Closed, Opened, Active, Backends

LEMMA FailureTypes == \A c \in Commands : FailureOf(c.id) \in Seq(Events)
<1>1. SUFFICES ASSUME NEW c \in Commands PROVE FailureOf(c.id) \in Seq(Events)
  OBVIOUS
<1>2. c.id \in 0 .. MaxPosts
  BY DEF Commands
<1>3. "TxFailed" \in EventKinds
  BY DEF EventKinds, OutcomeKinds
<1>4. SendEvent("TxFailed", c.id) \in Events
  BY <1>2, <1>3, EventTypes
<1>5. QED
  BY <1>4 DEF FailureOf

LEMMA InitTypes == Init => TypeInv
<1> SUFFICES ASSUME Init PROVE TypeInv
  OBVIOUS
<1>1. NoCommand \in GoodCommands
  BY WorkerAssumption DEF NoCommand, GoodCommands, Commands, CommandKinds
<1>2. outcomes \in [SendIds -> Seq(OutcomeKinds)]
  BY DEF Init
<1>3. commands \in Seq(Commands) /\ commands \in Seq(GoodCommands) /\ Len(commands) <= CommandCap
      /\ events \in Seq(Events) /\ Len(events) <= EventCap /\ outbox \in Seq(Events)
  BY WorkerAssumption, EventCapAssumption DEF Init
<1>4. command \in GoodCommands /\ posting \in GoodCommands
      /\ command \in Commands /\ posting \in Commands
  BY <1>1 DEF Init, GoodCommands
<1>5. backend \in [open : BOOLEAN, receiving : BOOLEAN]
  BY DEF Init, Closed
<1>6. posts \in 0 .. MaxPosts /\ starts \in 0 .. MaxStarts /\ packets \in 0 .. MaxPackets
      /\ pendingDropped \in Nat
  BY WorkerAssumption DEF Init
<1>7. pc \in WorkerPcs /\ client \in ClientPcs /\ reported \in StateKinds
  BY DEF Init, WorkerPcs, ClientPcs, StateKinds
<1>8. running \in BOOLEAN /\ stopRequested \in BOOLEAN /\ initialized \in BOOLEAN
      /\ receiveRequested \in BOOLEAN
      /\ accepted \subseteq SendIds /\ abandoned \subseteq SendIds /\ wrote \subseteq SendIds
  BY DEF Init
<1>9. TypeOK
  BY <1>2, <1>3, <1>4, <1>5, <1>6, <1>7, <1>8 DEF TypeOK
<1>10. QED
  BY <1>3, <1>4, <1>9 DEF Init, TypeInv

\* A step of the worker from one place to the next keeps the types of
\* everything it leaves alone.
LEMMA StepTypes ==
    ASSUME TypeInv, NEW l \in WorkerPcs, NEW evs \in Seq(Events), NEW b \in Backends,
           NEW i \in BOOLEAN, Step(l, evs, b, i),
           receiveRequested' \in BOOLEAN, packets' \in 0 .. MaxPackets,
           wrote' \subseteq SendIds,
           l \in {"stopReceive", "transmit"} => command.kind = "send"
    PROVE  TypeInv'
<1>1. abandoned' \subseteq SendIds
  BY DEF TypeInv, TypeOK, Step
<1>2. TypeOK'
  BY <1>1 DEF TypeInv, TypeOK, Step, shared, caller, Backends
<1>3. QED
  BY <1>2 DEF TypeInv, Step, shared, caller

LEMMA GotoTypes ==
    ASSUME TypeInv, NEW l \in WorkerPcs, NEW evs \in Seq(Events), NEW b \in Backends,
           Goto(l, evs, b), l \in {"stopReceive", "transmit"} => command.kind = "send"
    PROVE  TypeInv'
<1>1. receiveRequested' \in BOOLEAN /\ packets' \in 0 .. MaxPackets
      /\ wrote' \subseteq SendIds /\ initialized \in BOOLEAN
  BY DEF TypeInv, TypeOK, Goto, Same
<1>2. Step(l, evs, b, initialized)
  BY DEF Goto
<1>3. QED
  BY <1>1, <1>2, StepTypes

LEMMA GiveUpTypes ==
    ASSUME TypeInv, NEW evs \in Seq(Events), GiveUp(evs)
    PROVE  TypeInv'
<1>1. receiveRequested' \in BOOLEAN /\ packets' \in 0 .. MaxPackets /\ wrote' \subseteq SendIds
  BY DEF TypeInv, TypeOK, GiveUp, Same
<1>2. Append(evs, Event("Error")) \in Seq(Events)
  BY EventTypes DEF EventKinds, StateKinds
<1>3. Step("top", Append(evs, Event("Error")), Closed, FALSE)
  BY DEF GiveUp
<1>4. QED
  BY <1>1, <1>2, <1>3, StepTypes, BackendTypes DEF WorkerPcs

LEMMA LeaveTypes ==
    ASSUME TypeInv, NEW evs \in Seq(Events), Leave(evs), wrote' \subseteq SendIds
    PROVE  TypeInv'
<1>1. receiveRequested' \in BOOLEAN /\ packets' \in 0 .. MaxPackets /\ initialized \in BOOLEAN
  BY DEF TypeInv, TypeOK, Leave
<1>2. <<Event("Stopping"), Event("Stopped")>> \in Seq(Events)
  BY EventTypes DEF EventKinds, StateKinds
<1>3. evs \o <<Event("Stopping"), Event("Stopped")>> \in Seq(Events)
  BY <1>2
<1>4. Step("leave", evs \o <<Event("Stopping"), Event("Stopped")>>, Closed, initialized)
  BY DEF Leave
<1>5. QED
  BY <1>1, <1>3, <1>4, StepTypes, BackendTypes DEF WorkerPcs

LEMMA FailSendTypes ==
    ASSUME TypeInv, FailSend
    PROVE  TypeInv'
<1>1. FailureOf(command.id) \in Seq(Events) /\ backend \in Backends
  BY FailureTypes DEF TypeInv, TypeOK, Backends
<1>2. "restore" \in WorkerPcs
  BY DEF WorkerPcs
<1>3. QED
  BY <1>1, <1>2, GotoTypes, GiveUpTypes DEF FailSend

\* pushEvent: the queue keeps to its capacity.
LEMMA PushEventTypes ==
    ASSUME TypeInv, PushEvent
    PROVE  TypeInv'
<1> DEFINE e == Head(outbox)
<1>1. e \in Events /\ outbox' \in Seq(Events)
  BY DEF TypeInv, TypeOK, PushEvent
<1>2. events' \in Seq(Events) /\ Len(events') <= EventCap /\ pendingDropped' \in Nat
  <2>1. events \in Seq(Events) /\ Len(events) <= EventCap /\ pendingDropped \in Nat
    BY DEF TypeInv, TypeOK
  <2>2. events' = Enqueue(events, e) /\ pendingDropped' = pendingDropped + Lost(events)
    BY DEF PushEvent
  <2> HIDE DEF e
  <2>3. Lost(events) \in {0, 1}
    BY <1>1, <2>1, EnqueueProperties
  <2>4. events' \in Seq(Events) /\ Len(events') <= EventCap
    BY <1>1, <2>1, <2>2, EnqueueProperties
  <2>5. QED
    BY <2>1, <2>2, <2>3, <2>4
<1>3. reported' \in StateKinds
  BY DEF TypeInv, TypeOK, PushEvent
<1>4. outcomes' \in [SendIds -> Seq(OutcomeKinds)]
  <2>1. CASE e.kind \in OutcomeKinds
    <3>1. outcomes' = [outcomes EXCEPT ![e.id] = Append(@, e.kind)]
      BY <2>1 DEF PushEvent
    <3>2. \A o \in Seq(OutcomeKinds) : Append(o, e.kind) \in Seq(OutcomeKinds)
      BY <2>1
    <3>3. outcomes \in [SendIds -> Seq(OutcomeKinds)]
      BY DEF TypeInv, TypeOK
    <3> HIDE DEF e
    <3>4. QED
      BY <3>1, <3>2, <3>3
  <2>2. CASE e.kind \notin OutcomeKinds
    BY <2>2 DEF TypeInv, TypeOK, PushEvent
  <2>3. QED
    BY <2>1, <2>2
<1>5. UNCHANGED <<running, stopRequested, commands, pc, command, initialized,
                  receiveRequested, backend, client, posting, posts, starts, packets,
                  accepted, abandoned, wrote>>
  BY DEF PushEvent, caller
<1>6. QED
  BY <1>1, <1>2, <1>3, <1>4, <1>5 DEF TypeInv, TypeOK

LEMMA WorkerStepTypes ==
    ASSUME TypeInv, WorkerStep
    PROVE  TypeInv'
<1> USE DEF At
<1>1. /\ backend \in Backends /\ initialized \in BOOLEAN /\ receiveRequested \in BOOLEAN
      /\ packets \in 0 .. MaxPackets /\ wrote \subseteq SendIds /\ command \in GoodCommands
      /\ command \in Commands /\ <<>> \in Seq(Events) /\ pc \in WorkerPcs
  BY DEF TypeInv, TypeOK, Backends
<1>2. \A k \in EventKinds : <<Event(k)>> \in Seq(Events)
  BY EventTypes
<1>3. \A k \in EventKinds, i \in 0 .. MaxPosts : <<SendEvent(k, i)>> \in Seq(Events)
  BY EventTypes
<1>4. command.id \in 0 .. MaxPosts
  BY <1>1 DEF Commands
<1>5. CASE PushEvent
  BY <1>5, PushEventTypes
<1>6. CASE Open
  <2>1. "initReceive" \in WorkerPcs /\ "Initialized" \in EventKinds /\ "InitializeError" \in EventKinds
    BY DEF WorkerPcs, EventKinds
  <2>2. QED
    BY <1>1, <1>2, <1>6, <2>1, GotoTypes, GiveUpTypes, BackendTypes DEF Open
<1>7. CASE FinishInitialization
  <2>1. "top" \in WorkerPcs /\ {"Receiving", "Idle", "InitializeError"} \subseteq EventKinds
    BY DEF WorkerPcs, EventKinds, StateKinds
  <2>2. ASSUME NEW k \in EventKinds, NEW b \in Backends, Step("top", <<Event(k)>>, b, TRUE), Same
        PROVE  TypeInv'
    BY <1>1, <1>2, <2>1, <2>2, StepTypes DEF Same
  <2>3. QED
    BY <1>1, <1>2, <1>7, <2>1, <2>2, GiveUpTypes, BackendTypes DEF FinishInitialization
<1>8. CASE CheckStop
  <2>1. "pop" \in WorkerPcs
    BY DEF WorkerPcs
  <2>2. QED
    BY <1>1, <1>8, <2>1, GotoTypes, LeaveTypes DEF CheckStop
<1>9. CASE TryPopCommand
  <2>1. pc' \in WorkerPcs /\ pc' \notin {"stopReceive", "transmit"}
    BY <1>9 DEF TryPopCommand, WorkerPcs
  <2>2. /\ commands' \in Seq(GoodCommands) /\ commands' \in Seq(Commands)
        /\ Len(commands') <= CommandCap
        /\ command' \in GoodCommands /\ command' \in Commands
    <3>1. commands \in Seq(GoodCommands) /\ commands \in Seq(Commands) /\ Len(commands) <= CommandCap
      BY DEF TypeInv, TypeOK
    <3>2. CASE commands # <<>>
      BY <1>9, <3>1, <3>2, WorkerAssumption DEF TryPopCommand, CommandTaken, CommandsLeft
    <3>3. CASE commands = <<>>
      BY <1>1, <1>9, <3>1, <3>3 DEF TryPopCommand
    <3>4. QED
      BY <3>2, <3>3
  <2>3. UNCHANGED <<running, stopRequested, events, pendingDropped, initialized,
                    receiveRequested, outbox, backend, client, posting, posts, starts,
                    packets, accepted, abandoned, outcomes, wrote, reported>>
    BY <1>9 DEF TryPopCommand, caller, history
  <2>4. QED
    BY <2>1, <2>2, <2>3 DEF TypeInv, TypeOK
<1>10. CASE TestPredicate \/ Block \/ TimeOut
  <2>1. {"top", "armed", "blocked"} \subseteq WorkerPcs
    BY DEF WorkerPcs
  <2>2. QED
    BY <1>1, <1>10, <2>1, GotoTypes DEF TestPredicate, Block, TimeOut
<1>11. CASE ReceiveSlice
  <2>1. "top" \in WorkerPcs /\ {"RxPacket", "OtherError"} \subseteq EventKinds
    BY DEF WorkerPcs, EventKinds
  <2>2. CASE ~stopRequested /\ Goto("top", <<>>, backend)
    BY <1>1, <2>1, <2>2, GotoTypes
  <2>3. CASE /\ packets < MaxPackets
             /\ Step("top", <<Event("RxPacket")>>, backend, initialized)
             /\ packets' = packets + 1
             /\ UNCHANGED <<receiveRequested, wrote>>
    <3>1. packets' \in 0 .. MaxPackets
      BY <1>1, <2>3, WorkerAssumption
    <3>2. QED
      BY <1>1, <1>2, <2>1, <2>3, <3>1, StepTypes
  <2>4. CASE GiveUp(<<Event("OtherError")>>)
    BY <1>2, <2>1, <2>4, GiveUpTypes
  <2>5. QED
    BY <1>11, <2>2, <2>3, <2>4 DEF ReceiveSlice
<1>12. CASE HandleRetry
  <2>1. "init" \in WorkerPcs /\ "Initializing" \in EventKinds
    BY DEF WorkerPcs, EventKinds, StateKinds
  <2>2. QED
    BY <1>2, <1>12, <2>1, GotoTypes, BackendTypes DEF HandleRetry
<1>13. CASE HandleSetReceive
  <2>1. "top" \in WorkerPcs /\ {"Receiving", "Idle", "OtherError", "Error"} \subseteq EventKinds
    BY DEF WorkerPcs, EventKinds, StateKinds
  <2>2. receiveRequested' \in BOOLEAN /\ packets' \in 0 .. MaxPackets /\ wrote' \subseteq SendIds
    BY <1>1, <1>13 DEF HandleSetReceive
  <2>3. <<Event("OtherError"), Event("Error")>> \in Seq(Events)
    BY <2>1, EventTypes
  <2>4. ASSUME NEW evs \in Seq(Events), NEW b \in Backends, NEW i \in BOOLEAN,
               Step("top", evs, b, i)
        PROVE  TypeInv'
    BY <2>1, <2>2, <2>4, StepTypes
  <2>5. QED
    BY <1>1, <1>2, <1>13, <2>1, <2>3, <2>4, BackendTypes DEF HandleSetReceive
<1>14. CASE BeginSend
  <2>1. {"top", "stopReceive", "transmit"} \subseteq WorkerPcs /\ {"TxStarted", "Sending"} \subseteq EventKinds
    BY DEF WorkerPcs, EventKinds, StateKinds
  <2>2. <<SendEvent("TxStarted", command.id), Event("Sending")>> \in Seq(Events)
    BY <1>4, <2>1, EventTypes
  <2>3. QED
    BY <1>1, <1>14, <2>1, <2>2, FailureTypes, GotoTypes DEF BeginSend
<1>15. CASE SuspendReceive
  <2>1. "transmit" \in WorkerPcs
    BY DEF WorkerPcs
  <2>2. command.kind = "send"
    BY <1>15 DEF SuspendReceive, TypeInv
  <2>3. QED
    BY <1>1, <1>15, <2>1, <2>2, GotoTypes, FailSendTypes, BackendTypes DEF SuspendReceive
<1>16. CASE Transmit
  <2>1. "resume" \in WorkerPcs /\ "TxCompleted" \in EventKinds
    BY DEF WorkerPcs, EventKinds, OutcomeKinds
  <2>2. CASE Complete
    <3>1. command.id \in SendIds
      BY <1>1, <1>16 DEF Transmit, TypeInv, GoodCommands
    <3>2. wrote' \subseteq SendIds
      BY <1>1, <2>2, <3>1 DEF Complete
    <3>3. QED
      BY <1>1, <1>3, <1>4, <2>1, <2>2, <3>2, StepTypes DEF Complete
  <2>3. QED
    BY <1>16, <2>2, FailSendTypes DEF Transmit
<1>17. CASE ResumeReceive
  <2>1. "top" \in WorkerPcs /\ {"Receiving", "Idle"} \subseteq EventKinds
    BY DEF WorkerPcs, EventKinds, StateKinds
  <2>2. QED
    BY <1>1, <1>2, <1>17, <2>1, GotoTypes, FailSendTypes, BackendTypes DEF ResumeReceive
<1>18. CASE RestoreReceive
  <2>1. "top" \in WorkerPcs /\ {"Receiving", "OtherError"} \subseteq EventKinds
    BY DEF WorkerPcs, EventKinds, StateKinds
  <2>2. QED
    BY <1>2, <1>18, <2>1, GotoTypes, GiveUpTypes, BackendTypes DEF RestoreReceive, RestoredReport
<1>19. CASE Cancel
  <2>1. wrote' \subseteq SendIds
    <3>1. CASE pc = "transmit"
      BY <1>1, <1>19, <3>1 DEF Cancel, TypeInv, GoodCommands
    <3>2. CASE pc # "transmit"
      BY <1>1, <1>19, <3>2 DEF Cancel
    <3>3. QED
      BY <3>1, <3>2
  <2>2. QED
    BY <1>1, <1>19, <2>1, LeaveTypes DEF Cancel
<1>20. CASE Unwind
  <2>1. <<Event("OtherError"), Event("Error")>> \in Seq(Events)
    BY EventTypes DEF EventKinds, StateKinds
  <2>2. QED
    BY <1>1, <1>20, <2>1, LeaveTypes DEF Unwind
<1>21. CASE Finish
  <2>1. pc' \in WorkerPcs /\ pc' \notin {"stopReceive", "transmit"}
    BY <1>21 DEF Finish, WorkerPcs
  <2>2. QED
    BY <1>21, <2>1 DEF Finish, TypeInv, TypeOK, caller, history
<1>22. QED
  BY <1>5, <1>6, <1>7, <1>8, <1>9, <1>10, <1>11, <1>12, <1>13, <1>14, <1>15, <1>16, <1>17,
     <1>18, <1>19, <1>20, <1>21 DEF WorkerStep

LEMMA ClientStepTypes ==
    ASSUME TypeInv, ClientStep
    PROVE  TypeInv'
<1> USE DEF ClientAt, history
<1>1. (Notify => pc' \in WorkerPcs /\ (pc' \in {"stopReceive", "transmit"} => pc' = pc))
  BY DEF Notify, WorkerPcs, TypeInv, TypeOK
<1>2. CASE StopNotify
  BY <1>1, <1>2 DEF StopNotify, TypeInv, TypeOK, ClientPcs
<1>3. CASE Join
  BY <1>3 DEF Join, TypeInv, TypeOK, ClientPcs, WorkerPcs
<1>4. CASE PostPush
  <2>1. client' \in ClientPcs
    BY <1>4 DEF PostPush, AfterPush, ClientPcs
  <2>2. /\ commands' \in Seq(GoodCommands) /\ commands' \in Seq(Commands)
        /\ Len(commands') <= CommandCap
    <3>1. /\ commands \in Seq(GoodCommands) /\ commands \in Seq(Commands)
          /\ Len(commands) <= CommandCap /\ posting \in GoodCommands /\ posting \in Commands
      BY DEF TypeInv, TypeOK
    <3>2. CASE Len(commands) >= CommandCap
      BY <1>4, <3>1, <3>2 DEF PostPush
    <3>3. CASE ~(Len(commands) >= CommandCap)
      <4>1. commands' = Append(commands, posting)
        BY <1>4, <3>3 DEF PostPush
      <4>2. QED
        BY <3>1, <3>3, <4>1, WorkerAssumption
    <3>4. QED
      BY <3>2, <3>3
  <2>3. accepted' \subseteq SendIds /\ abandoned' \subseteq SendIds
    <3>1. /\ accepted \subseteq SendIds /\ abandoned \subseteq SendIds
          /\ posting.kind = "send" => posting.id \in SendIds
      BY DEF TypeInv, TypeOK, GoodCommands
    <3>2. QED
      BY <1>4, <3>1 DEF PostPush
  <2>4. UNCHANGED <<running, stopRequested, events, pendingDropped, pc, command, initialized,
                    receiveRequested, outbox, backend, posting, posts, starts, packets,
                    outcomes, wrote, reported>>
    BY <1>4 DEF PostPush, worker
  <2>5. QED
    BY <2>1, <2>2, <2>3, <2>4 DEF TypeInv, TypeOK
<1>5. CASE PostNotify
  BY <1>1, <1>5 DEF PostNotify, TypeInv, TypeOK, ClientPcs
<1>6. CASE ShutdownNotify
  BY <1>1, <1>6 DEF ShutdownNotify, TypeInv, TypeOK, ClientPcs
<1>7. QED
  BY <1>2, <1>3, <1>4, <1>5, <1>6 DEF ClientStep

LEMMA ClientCallTypes ==
    ASSUME TypeInv, ClientCall
    PROVE  TypeInv'
<1> USE DEF ClientAt, history
<1>1. ASSUME NEW on \in BOOLEAN, Start(on)
      PROVE  TypeInv'
  <2>1. /\ commands' \in Seq(GoodCommands) /\ commands' \in Seq(Commands)
        /\ Len(commands') <= CommandCap
        /\ events' \in Seq(Events) /\ Len(events') <= EventCap /\ pendingDropped' \in Nat
        /\ starts' \in 0 .. MaxStarts /\ stopRequested' \in BOOLEAN
    <3>1. commands' = <<>> /\ events' = <<>> /\ pendingDropped' = 0 /\ stopRequested' = FALSE
      BY <1>1 DEF Start
    <3>2. starts' \in 0 .. MaxStarts
      <4>1. starts \in 0 .. MaxStarts
        BY DEF TypeInv, TypeOK
      <4>2. starts < MaxStarts /\ starts' = starts + 1
        BY <1>1 DEF Start
      <4>3. QED
        BY <4>1, <4>2, WorkerAssumption
    <3>3. Len(<<>>) <= CommandCap /\ Len(<<>>) <= EventCap
      <4>1. Len(<<>>) = 0 /\ CommandCap \in Nat /\ EventCap \in Nat
        BY WorkerAssumption, EventCapAssumption
      <4>2. QED
        BY <4>1
    <3>4. commands' \in Seq(GoodCommands) /\ commands' \in Seq(Commands) /\ events' \in Seq(Events)
      BY <3>1
    <3>5. pendingDropped' \in Nat /\ stopRequested' \in BOOLEAN
      BY <3>1
    <3>6. Len(commands') <= CommandCap /\ Len(events') <= EventCap
      BY <3>1, <3>3
    <3>7. QED
      BY <3>2, <3>4, <3>5, <3>6
  <2>2. <<Event("Initializing")>> \in Seq(Events)
    BY EventTypes DEF EventKinds, StateKinds
  <2>3. /\ running' \in BOOLEAN /\ receiveRequested' \in BOOLEAN /\ initialized' \in BOOLEAN
        /\ pc' \in WorkerPcs /\ pc' \notin {"stopReceive", "transmit"}
        /\ outbox' \in Seq(Events)
    BY <1>1, <2>2 DEF Start, TypeInv, TypeOK, WorkerPcs
  <2>4. UNCHANGED <<command, backend, client, posting, posts, packets, accepted, abandoned,
                    outcomes, wrote, reported>>
    BY <1>1 DEF Start
  <2>5. QED
    BY <2>1, <2>3, <2>4 DEF TypeInv, TypeOK
<1>2. CASE StopStore
  BY <1>2 DEF StopStore, TypeInv, TypeOK, ClientPcs
<1>3. CASE ShutdownStore
  BY <1>3 DEF ShutdownStore, TypeInv, TypeOK, ClientPcs
<1>4. CASE TryPopEvent
  <2>1. events' \in Seq(Events) /\ Len(events') <= EventCap /\ pendingDropped' \in Nat
    <3>1. events \in Seq(Events) /\ Len(events) <= EventCap /\ pendingDropped \in Nat
      BY DEF TypeInv, TypeOK
    <3>2. events # <<>> => /\ Tail(events) \in Seq(Events)
                          /\ Len(Tail(events)) = Len(events) - 1
      BY <3>1
    <3>3. CASE pendingDropped # 0
      BY <1>4, <3>1, <3>3 DEF TryPopEvent, PopEvent
    <3>4. CASE pendingDropped = 0
      <4>1. events # <<>> /\ events' = Tail(events) /\ pendingDropped' = pendingDropped
        BY <1>4, <3>4 DEF TryPopEvent, PopEvent
      <4>2. QED
        BY <3>1, <3>2, <4>1, EventCapAssumption
    <3>5. QED
      BY <3>3, <3>4
  <2>2. UNCHANGED <<running, stopRequested, commands, pc, command, initialized,
                    receiveRequested, outbox, backend, client, posting, posts, starts, packets,
                    accepted, abandoned, outcomes, wrote, reported>>
    BY <1>4 DEF TryPopEvent, PopEvent, worker
  <2>3. QED
    BY <2>1, <2>2 DEF TypeInv, TypeOK
<1>5. ASSUME NEW kind \in CommandKinds, PostBegin(kind)
      PROVE  TypeInv'
  <2>1. posts' \in 0 .. MaxPosts /\ client' \in ClientPcs /\ posts + 1 \in SendIds
    BY <1>5, WorkerAssumption DEF PostBegin, TypeInv, TypeOK, ClientPcs, SendIds
  <2>2. posting' \in GoodCommands
    <3>1. posts + 1 \in 0 .. MaxPosts /\ 0 \in 0 .. MaxPosts
      BY <2>1, WorkerAssumption DEF SendIds
    <3>2. posting \in GoodCommands
      BY DEF TypeInv
    <3>3. \A i \in 0 .. MaxPosts : [kind |-> kind, id |-> i] \in Commands
      BY <1>5 DEF Commands
    <3>4. CASE running
      <4>1. posting' = [kind |-> kind, id |-> IF kind = "send" THEN posts + 1 ELSE 0]
        BY <1>5, <3>4 DEF PostBegin
      <4>2. QED
        BY <2>1, <3>1, <3>3, <4>1 DEF GoodCommands
    <3>5. CASE ~running
      BY <1>5, <3>2, <3>5 DEF PostBegin
    <3>6. QED
      BY <3>4, <3>5
  <2>3. UNCHANGED <<running, stopRequested, commands, events, pendingDropped, pc, command,
                    initialized, receiveRequested, outbox, backend, starts, packets,
                    accepted, abandoned, outcomes, wrote, reported>>
    BY <1>5 DEF PostBegin, shared, worker
  <2>4. posting' \in Commands
    BY <2>2 DEF GoodCommands
  <2>5. QED
    BY <2>1, <2>2, <2>3, <2>4 DEF TypeInv, TypeOK
<1>6. QED
  BY <1>1, <1>2, <1>3, <1>4, <1>5 DEF ClientCall

LEMMA NextTypes ==
    ASSUME TypeInv, [Next]_vars
    PROVE  TypeInv'
<1>1. CASE WorkerStep
  BY <1>1, WorkerStepTypes
<1>2. CASE SpuriousWakeup
  <2>1. "test" \in WorkerPcs /\ backend \in Backends /\ <<>> \in Seq(Events)
    BY DEF WorkerPcs, TypeInv, TypeOK, Backends
  <2>2. QED
    BY <1>2, <2>1, GotoTypes DEF SpuriousWakeup
<1>3. CASE ClientStep
  BY <1>3, ClientStepTypes
<1>4. CASE ClientCall
  BY <1>4, ClientCallTypes
<1>5. CASE UNCHANGED vars
  BY <1>5 DEF vars, shared, worker, caller, history, TypeInv, TypeOK
<1>6. QED
  BY <1>1, <1>2, <1>3, <1>4, <1>5 DEF Next

LEMMA TypeInvariant == Spec => []TypeInv
<1>1. Init => TypeInv
  BY InitTypes
<1>2. TypeInv /\ [Next]_vars => TypeInv'
  BY NextTypes
<1>3. QED
  BY <1>1, <1>2, PTL DEF Spec

\* Every variable keeps its type, and neither the command queue nor the event
\* queue ever outgrows its capacity.
THEOREM WorkerTypeCorrect == Spec => []TypeOK
BY TypeInvariant, PTL DEF TypeInv
-----------------------------------------------------------------------------
(* The thread and _running.                                                *)

\* _running is set before the thread exists and cleared by its last statement.
THEOREM RunningIsTruthful == Spec => []RunningMatchesThread
<1>1. Init => RunningMatchesThread
  BY DEF Init, RunningMatchesThread
<1>2. ASSUME TypeInv, RunningMatchesThread, [Next]_vars
      PROVE  RunningMatchesThread'
  <2> USE DEF RunningMatchesThread
  <2>1. ASSUME NEW l, NEW evs, NEW b, NEW i, Step(l, evs, b, i), l \notin {"none", "done"},
               pc \notin {"none", "done"}
        PROVE  RunningMatchesThread'
    BY <1>2, <2>1 DEF Step, shared
  <2>2. CASE Open \/ FinishInitialization \/ CheckStop
    BY <1>2, <2>1, <2>2 DEF Open, FinishInitialization, CheckStop, At, Goto, GiveUp, Leave
  <2>3. CASE PushEvent \/ TryPopCommand
    BY <1>2, <2>3 DEF PushEvent, TryPopCommand, At
  <2>4. CASE TestPredicate \/ Block \/ TimeOut \/ SpuriousWakeup \/ ReceiveSlice
    BY <1>2, <2>1, <2>4
       DEF TestPredicate, Block, TimeOut, SpuriousWakeup, ReceiveSlice, At, Goto, GiveUp
  <2>5. CASE HandleRetry \/ HandleSetReceive \/ BeginSend
    BY <1>2, <2>1, <2>5 DEF HandleRetry, HandleSetReceive, BeginSend, At, Goto
  <2>6. CASE SuspendReceive \/ Transmit \/ ResumeReceive \/ RestoreReceive
    BY <1>2, <2>1, <2>6 DEF SuspendReceive, Transmit, ResumeReceive, RestoreReceive, FailSend,
                            Complete, At, Goto, GiveUp
  <2>7. CASE Cancel \/ Unwind
    BY <1>2, <2>1, <2>7 DEF Cancel, Unwind, At, Leave
  <2>8. CASE Finish
    BY <2>8 DEF Finish
  <2>9. CASE ClientStep
    BY <1>2, <2>9 DEF ClientStep, StopNotify, Join, PostPush, PostNotify, ShutdownNotify,
                      ClientAt, Notify, worker
  <2>10. CASE ClientCall
    <3>1. CASE \E on \in BOOLEAN : Start(on)
      BY <1>2, <3>1 DEF Start
    <3>2. CASE StopStore \/ ShutdownStore \/ TryPopEvent
      BY <1>2, <3>2 DEF StopStore, ShutdownStore, TryPopEvent, PopEvent, ClientAt, worker
    <3>3. CASE \E kind \in CommandKinds : PostBegin(kind)
      BY <1>2, <3>3 DEF PostBegin, shared, worker
    <3>4. QED
      BY <2>10, <3>1, <3>2, <3>3 DEF ClientCall
  <2>11. CASE UNCHANGED vars
    BY <1>2, <2>11 DEF vars, shared, worker
  <2>12. QED
    BY <1>2, <2>2, <2>3, <2>4, <2>5, <2>6, <2>7, <2>8, <2>9, <2>10, <2>11 DEF Next, WorkerStep
<1>3. QED
  BY <1>1, <1>2, TypeInvariant, PTL DEF Spec
-----------------------------------------------------------------------------
(* The backend.  BackendReady alone is not inductive: that the backend is   *)
(* back in its session after a send depends on what it was before the send, *)
(* and only the places in between, which BackendReady says less about,      *)
(* remember that.                                                           *)

BackendInv ==
    /\ pc = "initReceive" => backend = Opened
    /\ pc \in Resting => backend = Session
    /\ pc = "receive" => initialized /\ receiveRequested
    /\ pc = "stopReceive" => initialized /\ receiveRequested /\ backend.open
    /\ pc \in {"transmit", "resume"} => initialized /\ backend = Opened
    /\ pc = "restore" => initialized /\ receiveRequested /\ backend.open
    /\ pc \in {"none", "leave", "done"} => backend = Closed

LEMMA Sessions ==
    /\ Closed.open = FALSE
    /\ Opened.open = TRUE
    /\ Active.open = TRUE /\ Active.receiving = TRUE
BY DEF Closed, Opened, Active

LEMMA BackendStep ==
    ASSUME TypeInv, BackendInv, [Next]_vars
    PROVE  BackendInv'
<1> USE Sessions DEF BackendInv, Session, Resting, At
<1>1. initialized \in BOOLEAN /\ receiveRequested \in BOOLEAN
  BY DEF TypeInv, TypeOK
\* Steps that end between two commands, with their session.
<1>2. ASSUME NEW evs, NEW b, NEW i \in BOOLEAN, Step("top", evs, b, i),
             b = IF ~i THEN Closed ELSE IF receiveRequested' THEN Active ELSE Opened
      PROVE  BackendInv'
  BY <1>2 DEF Step
<1>3. ASSUME NEW evs, GiveUp(evs)
      PROVE  BackendInv'
  BY <1>3 DEF GiveUp, Step
<1>4. ASSUME NEW evs, Leave(evs)
      PROVE  BackendInv'
  BY <1>4 DEF Leave, Step
<1>5. CASE PushEvent
  BY <1>5 DEF PushEvent
<1>6. CASE Open
  <2>1. CASE Goto("initReceive", <<Event("Initialized")>>, Opened)
    BY <2>1 DEF Goto, Step
  <2>2. QED
    BY <1>3, <1>6, <2>1 DEF Open
<1>7. CASE FinishInitialization
  BY <1>1, <1>2, <1>3, <1>7 DEF FinishInitialization, Same
<1>8. CASE CheckStop
  <2>1. CASE Goto("pop", <<>>, backend)
    BY <1>8, <2>1 DEF CheckStop, Goto, Step, Same
  <2>2. QED
    BY <1>4, <1>8, <2>1 DEF CheckStop
<1>9. CASE TryPopCommand
  BY <1>9 DEF TryPopCommand
<1>10. CASE TestPredicate \/ Block \/ TimeOut \/ SpuriousWakeup
  BY <1>10 DEF TestPredicate, Block, TimeOut, SpuriousWakeup, Goto, Step, Same
<1>11. CASE ReceiveSlice
  <2>1. ASSUME NEW evs, Step("top", evs, backend, initialized), receiveRequested' = receiveRequested
        PROVE  BackendInv'
    BY <1>11, <2>1 DEF ReceiveSlice, Step
  <2>2. QED
    BY <1>3, <1>11, <2>1 DEF ReceiveSlice, Goto, Same
<1>12. CASE HandleRetry
  BY <1>12 DEF HandleRetry, Goto, Step
<1>13. CASE HandleSetReceive
  <2>1. backend = Session
    BY <1>13 DEF HandleSetReceive
  <2> DEFINE on == command.kind = "receiveOn"
  <2>2. receiveRequested' = on /\ on \in BOOLEAN
    BY <1>13 DEF HandleSetReceive
  <2>3. CASE ~initialized /\ Step("top", <<>>, backend, FALSE)
    BY <1>2, <2>1, <2>3
  <2>4. CASE on /\ Step("top", <<Event("Receiving")>>, Active, TRUE)
    BY <1>2, <2>2, <2>4
  <2>5. CASE ~on /\ Step("top", <<Event("Idle")>>, Opened, TRUE)
    BY <1>2, <2>2, <2>5
  <2>6. CASE Step("top", <<Event("OtherError"), Event("Error")>>, Closed, FALSE)
    BY <1>2, <2>6
  <2>7. QED
    BY <1>13, <2>3, <2>4, <2>5, <2>6 DEF HandleSetReceive
<1>14. ASSUME FailSend, initialized, backend.open PROVE BackendInv'
  BY <1>3, <1>14 DEF FailSend, Goto, Step, Same
<1>15. CASE BeginSend
  BY <1>15 DEF BeginSend, Goto, Step, Same
<1>16. CASE SuspendReceive
  <2>1. CASE Goto("transmit", <<>>, Opened)
    BY <1>16, <2>1 DEF SuspendReceive, Goto, Step, Same
  <2>2. QED
    BY <1>14, <1>16, <2>1 DEF SuspendReceive
<1>17. CASE Transmit
  <2>1. CASE Complete
    BY <1>17, <2>1 DEF Transmit, Complete, Step
  <2>2. QED
    BY <1>14, <1>17, <2>1 DEF Transmit
<1>18. CASE ResumeReceive
  <2>1. CASE receiveRequested /\ Goto("top", <<Event("Receiving")>>, Active)
    BY <1>18, <2>1 DEF ResumeReceive, Goto, Step, Same
  <2>2. CASE ~receiveRequested /\ Goto("top", <<Event("Idle")>>, backend)
    BY <1>18, <2>2 DEF ResumeReceive, Goto, Step, Same
  <2>3. QED
    BY <1>14, <1>18, <2>1, <2>2 DEF ResumeReceive
<1>19. CASE RestoreReceive
  <2>1. CASE Goto("top", RestoredReport, Active)
    BY <1>19, <2>1 DEF RestoreReceive, Goto, Step, Same
  <2>2. QED
    BY <1>3, <1>19, <2>1 DEF RestoreReceive
<1>20. CASE Cancel \/ Unwind
  BY <1>4, <1>20 DEF Cancel, Unwind
<1>21. CASE Finish
  BY <1>21 DEF Finish
<1>22. CASE ClientStep
  <2>1. UNCHANGED <<initialized, receiveRequested, backend>>
    BY <1>22 DEF ClientStep, StopNotify, Join, PostPush, PostNotify, ShutdownNotify, ClientAt, worker
  <2>2. \/ pc' = pc
        \/ pc = "blocked" /\ pc' = "test"
        \/ pc \in {"none", "done"} /\ pc' = "none"
    BY <1>22 DEF ClientStep, StopNotify, Join, PostPush, PostNotify, ShutdownNotify, Notify, worker
  <2>3. QED
    BY <2>1, <2>2
<1>23. CASE ClientCall
  <2>1. CASE \E on \in BOOLEAN : Start(on)
    BY <2>1 DEF Start
  <2>2. CASE StopStore \/ ShutdownStore \/ TryPopEvent
    BY <2>2 DEF StopStore, ShutdownStore, TryPopEvent, PopEvent, ClientAt, worker
  <2>3. CASE \E kind \in CommandKinds : PostBegin(kind)
    BY <2>3 DEF PostBegin, worker
  <2>4. QED
    BY <1>23, <2>1, <2>2, <2>3 DEF ClientCall
<1>24. CASE UNCHANGED vars
  BY <1>24 DEF vars, worker
<1>25. QED
  BY <1>5, <1>6, <1>7, <1>8, <1>9, <1>10, <1>11, <1>12, <1>13, <1>15, <1>16, <1>17, <1>18,
     <1>19, <1>20, <1>21, <1>22, <1>23, <1>24 DEF Next, WorkerStep

LEMMA BackendInvariant == Spec => []BackendInv
<1>1. Init => BackendInv
  BY DEF Init, BackendInv, Resting
<1>2. TypeInv /\ BackendInv /\ [Next]_vars => BackendInv'
  BY BackendStep
<1>3. QED
  BY <1>1, <1>2, TypeInvariant, PTL DEF Spec

\* No call reaches a backend that is not ready for it, and between commands
\* the backend is as the thread believes, whichever calls may fail.
THEOREM BackendAlwaysReady == Spec => []BackendReady
<1>1. BackendInv => BackendReady
  BY Sessions DEF BackendInv, BackendReady, Session, Resting
<1>2. QED
  BY <1>1, BackendInvariant, PTL
-----------------------------------------------------------------------------
(* The reported state.  While events wait in outbox the interface has not   *)
(* been told yet, so the invariant is about the last state it will have been*)
(* told once outbox is pushed.                                              *)

Told(evs, last, state) ==
    \/ evs # <<>> /\ evs[Len(evs)].kind = state
    \/ last = state /\ \A k \in DOMAIN evs : evs[k].kind \notin StateKinds

ReportInv == pc \in Resting => Told(outbox, reported, RestingState)

LEMMA ToldNothing == \A last, state : Told(<<>>, last, state) <=> last = state
BY DEF Told

LEMMA ToldState ==
    /\ \A last, state : Told(<<Event(state)>>, last, state)
    /\ \A last, state : \A evs \in Seq(Events) : Told(Append(evs, Event(state)), last, state)
<1>1. \A state : Event(state).kind = state
  BY DEF Event
<1>2. ASSUME NEW last, NEW state, NEW evs \in Seq(Events)
      PROVE  Told(Append(evs, Event(state)), last, state)
  <2>1. /\ Len(Append(evs, Event(state))) = Len(evs) + 1 /\ Len(evs) \in Nat
        /\ Append(evs, Event(state))[Len(evs) + 1] = Event(state)
        /\ Append(evs, Event(state)) # <<>>
    OBVIOUS
  <2>2. QED
    BY <1>1, <2>1 DEF Told
<1>3. QED
  BY <1>1, <1>2 DEF Told

\* Packets and outcomes say nothing of the state.
LEMMA ToldOther ==
    /\ \A state : Told(<<Event("RxPacket")>>, state, state)
    /\ \A i, state : Told(<<SendEvent("TxFailed", i)>>, state, state)
BY DEF Told, Event, SendEvent, StateKinds

LEMMA ToldPush ==
    ASSUME NEW last, NEW state \in StateKinds, NEW evs \in Seq(Events), evs # <<>>,
           Told(evs, last, state)
    PROVE  Told(Tail(evs), IF Head(evs).kind \in StateKinds THEN Head(evs).kind ELSE last, state)
<1>1. /\ Len(evs) \in Nat \ {0} /\ Head(evs) = evs[1] /\ DOMAIN evs = 1 .. Len(evs)
      /\ Tail(evs) \in Seq(Events) /\ Len(Tail(evs)) = Len(evs) - 1
      /\ DOMAIN Tail(evs) = 1 .. Len(evs) - 1
      /\ \A k \in 1 .. Len(evs) - 1 : Tail(evs)[k] = evs[k + 1]
  OBVIOUS
<1>2. CASE last = state /\ \A k \in DOMAIN evs : evs[k].kind \notin StateKinds
  BY <1>1, <1>2 DEF Told
<1>3. CASE evs[Len(evs)].kind = state /\ Len(evs) = 1
  <2>1. Tail(evs) = <<>> /\ Head(evs).kind = state
    BY <1>1, <1>3
  <2>2. (IF Head(evs).kind \in StateKinds THEN Head(evs).kind ELSE last) = state
    BY <2>1
  <2>3. Told(<<>>, state, state)
    BY ToldNothing
  <2>4. QED
    BY <2>1, <2>2, <2>3
<1>4. CASE evs[Len(evs)].kind = state /\ Len(evs) # 1
  <2>1. Len(evs) - 1 \in 1 .. Len(evs) - 1 /\ Tail(evs) # <<>>
    BY <1>1, <1>4
  <2>2. Tail(evs)[Len(Tail(evs))].kind = state
    BY <1>1, <1>4, <2>1
  <2>3. QED
    BY <2>1, <2>2 DEF Told
<1>5. QED
  BY <1>2, <1>3, <1>4 DEF Told

LEMMA ReportStep ==
    ASSUME TypeInv, BackendInv, ReportInv, [Next]_vars
    PROVE  ReportInv'
<1> USE DEF ReportInv, Resting, At
<1>1. /\ initialized \in BOOLEAN /\ receiveRequested \in BOOLEAN /\ outbox \in Seq(Events)
      /\ RestingState \in StateKinds
  BY DEF TypeInv, TypeOK, RestingState, StateKinds
\* Steps to a place between two commands, and to any other place.
<1>2. ASSUME NEW l, NEW evs, NEW b, NEW i \in BOOLEAN, Step(l, evs, b, i),
             Told(evs, reported, IF ~i THEN "Error"
                                 ELSE IF receiveRequested' THEN "Receiving" ELSE "Idle")
      PROVE  ReportInv'
  BY <1>2 DEF Step, RestingState
<1>3. ASSUME NEW l, NEW evs, NEW b, NEW i, Step(l, evs, b, i), l \notin Resting
      PROVE  ReportInv'
  BY <1>3 DEF Step
<1>4. ASSUME NEW evs \in Seq(Events), GiveUp(evs)
      PROVE  ReportInv'
  <2>1. Step("top", Append(evs, Event("Error")), Closed, FALSE)
    BY <1>4 DEF GiveUp
  <2>2. Told(Append(evs, Event("Error")), reported, "Error")
    BY ToldState
  <2>3. QED
    BY <1>2, <2>1, <2>2
<1>5. ASSUME NEW evs, Leave(evs)
      PROVE  ReportInv'
  BY <1>3, <1>5 DEF Leave
\* A step between two such places that says nothing new.
<1>6. ASSUME NEW l, NEW evs, NEW b, Step(l, evs, b, initialized),
             receiveRequested' = receiveRequested, pc \in Resting, outbox = <<>>,
             Told(evs, RestingState, RestingState)
      PROVE  ReportInv'
  <2>1. reported = RestingState
    BY <1>6, ToldNothing
  <2>2. Told(evs, reported, RestingState)
    BY <1>6, <2>1
  <2>3. QED
    BY <1>1, <1>2, <1>6, <2>2 DEF RestingState
<1>7. CASE PushEvent
  <2>1. pc \in Resting => Told(Tail(outbox), reported', RestingState)
    BY <1>1, <1>7, ToldPush DEF PushEvent
  <2>2. outbox' = Tail(outbox) /\ UNCHANGED <<pc, initialized, receiveRequested>>
    BY <1>7 DEF PushEvent
  <2>3. QED
    BY <2>1, <2>2 DEF RestingState
<1>8. \A k \in EventKinds : <<Event(k)>> \in Seq(Events)
  BY EventTypes
<1>9. CASE Open
  BY <1>3, <1>4, <1>8, <1>9 DEF Open, Goto, EventKinds
<1>10. CASE FinishInitialization
  <2>1. CASE receiveRequested /\ Step("top", <<Event("Receiving")>>, Active, TRUE) /\ Same
    BY <1>2, <2>1, ToldState DEF Same
  <2>2. CASE ~receiveRequested /\ Step("top", <<Event("Idle")>>, backend, TRUE) /\ Same
    BY <1>2, <2>2, ToldState DEF Same
  <2>3. QED
    BY <1>4, <1>8, <1>10, <2>1, <2>2 DEF FinishInitialization, EventKinds
<1>11. CASE CheckStop
  BY <1>5, <1>6, <1>11, ToldNothing DEF CheckStop, Goto, Same
<1>12. CASE TryPopCommand
  BY <1>12 DEF TryPopCommand, RestingState, history
<1>13. CASE TestPredicate \/ Block \/ TimeOut \/ SpuriousWakeup
  BY <1>6, <1>13, ToldNothing
     DEF TestPredicate, Block, TimeOut, SpuriousWakeup, Goto, Same
<1>14. CASE ReceiveSlice
  <2>1. CASE Step("top", <<Event("RxPacket")>>, backend, initialized)
             /\ UNCHANGED <<receiveRequested, wrote>>
    BY <1>6, <1>14, <2>1, ToldOther DEF ReceiveSlice
  <2>2. QED
    BY <1>4, <1>6, <1>8, <1>14, <2>1, ToldNothing DEF ReceiveSlice, Goto, Same, EventKinds
<1>15. CASE HandleRetry
  BY <1>3, <1>15 DEF HandleRetry, Goto
<1>16. CASE HandleSetReceive
  <2> DEFINE on == command.kind = "receiveOn"
  <2>1. receiveRequested' = on /\ outbox = <<>> /\ pc \in Resting
    BY <1>16 DEF HandleSetReceive
  <2>2. CASE ~initialized /\ Step("top", <<>>, backend, FALSE)
    <3>1. reported = "Error"
      BY <2>1, <2>2, ToldNothing DEF RestingState
    <3>2. QED
      BY <1>2, <2>2, <3>1, ToldNothing
  <2>3. CASE on /\ Step("top", <<Event("Receiving")>>, Active, TRUE)
    BY <1>2, <2>1, <2>3, ToldState
  <2>4. CASE ~on /\ Step("top", <<Event("Idle")>>, Opened, TRUE)
    BY <1>2, <2>1, <2>4, ToldState
  <2>5. CASE Step("top", <<Event("OtherError"), Event("Error")>>, Closed, FALSE)
    <3>1. <<Event("OtherError"), Event("Error")>> = Append(<<Event("OtherError")>>, Event("Error"))
      OBVIOUS
    <3>2. <<Event("OtherError")>> \in Seq(Events)
      BY <1>8 DEF EventKinds
    <3>3. Told(<<Event("OtherError"), Event("Error")>>, reported, "Error")
      BY <3>1, <3>2, ToldState
    <3>4. QED
      BY <1>2, <2>5, <3>3
  <2>6. QED
    BY <1>16, <2>2, <2>3, <2>4, <2>5 DEF HandleSetReceive
<1>17. CASE BeginSend
  BY <1>3, <1>6, <1>17, ToldOther DEF BeginSend, Goto, Same, FailureOf
<1>18. ASSUME FailSend PROVE ReportInv'
  <2>1. FailureOf(command.id) \in Seq(Events)
    BY FailureTypes DEF TypeInv, TypeOK
  <2>2. QED
    BY <1>3, <1>4, <1>18, <2>1 DEF FailSend, Goto
<1>19. CASE SuspendReceive
  BY <1>3, <1>18, <1>19 DEF SuspendReceive, Goto
<1>20. CASE Transmit
  BY <1>3, <1>18, <1>20 DEF Transmit, Complete
<1>21. CASE ResumeReceive
  <2>1. initialized
    BY <1>21 DEF ResumeReceive, BackendInv
  <2>2. CASE receiveRequested /\ Goto("top", <<Event("Receiving")>>, Active)
    BY <1>1, <1>2, <2>1, <2>2, ToldState DEF Goto, Same
  <2>3. CASE ~receiveRequested /\ Goto("top", <<Event("Idle")>>, backend)
    BY <1>1, <1>2, <2>1, <2>3, ToldState DEF Goto, Same
  <2>4. QED
    BY <1>18, <1>21, <2>2, <2>3 DEF ResumeReceive
<1>22. CASE RestoreReceive
  <2>1. initialized /\ receiveRequested
    BY <1>22 DEF RestoreReceive, BackendInv
  <2>2. CASE Goto("top", RestoredReport, Active)
    BY <1>1, <1>2, <2>1, <2>2, ToldState DEF Goto, Same, RestoredReport
  <2>3. QED
    BY <1>4, <1>8, <1>22, <2>2 DEF RestoreReceive, EventKinds
<1>23. CASE Cancel \/ Unwind
  BY <1>5, <1>23 DEF Cancel, Unwind
<1>24. CASE Finish
  BY <1>24 DEF Finish
<1>25. CASE ClientStep
  <2>1. UNCHANGED <<initialized, receiveRequested, outbox, reported>>
    BY <1>25 DEF ClientStep, StopNotify, Join, PostPush, PostNotify, ShutdownNotify, ClientAt,
                 worker, history
  <2>2. \/ pc' = pc
        \/ pc = "blocked" /\ pc' = "test"
        \/ pc \in {"none", "done"} /\ pc' = "none"
    BY <1>25 DEF ClientStep, StopNotify, Join, PostPush, PostNotify, ShutdownNotify, Notify, worker
  <2>3. QED
    BY <2>1, <2>2 DEF RestingState
<1>26. CASE ClientCall
  <2>1. CASE \E on \in BOOLEAN : Start(on)
    BY <2>1 DEF Start
  <2>2. CASE StopStore \/ ShutdownStore \/ TryPopEvent
    BY <2>2 DEF StopStore, ShutdownStore, TryPopEvent, PopEvent, ClientAt, worker, history,
                RestingState
  <2>3. CASE \E kind \in CommandKinds : PostBegin(kind)
    BY <2>3 DEF PostBegin, worker, history, RestingState
  <2>4. QED
    BY <1>26, <2>1, <2>2, <2>3 DEF ClientCall
<1>27. CASE UNCHANGED vars
  BY <1>27 DEF vars, worker, history, RestingState
<1>28. QED
  BY <1>7, <1>9, <1>10, <1>11, <1>12, <1>13, <1>14, <1>15, <1>16, <1>17, <1>19, <1>20, <1>21,
     <1>22, <1>23, <1>24, <1>25, <1>26, <1>27 DEF Next, WorkerStep

\* Whenever the thread is about to wait or to take a command, the interface has
\* been told the state the radio is in, whichever calls have failed before.
THEOREM ReportsAreFaithful == Spec => []ReportFaithful
<1>1. Init => ReportInv
  BY DEF Init, ReportInv, Resting
<1>2. TypeInv /\ BackendInv /\ ReportInv /\ [Next]_vars => ReportInv'
  BY ReportStep
<1>3. ReportInv => ReportFaithful
  BY ToldNothing DEF ReportInv, ReportFaithful
<1>4. QED
  BY <1>1, <1>2, <1>3, TypeInvariant, BackendInvariant, PTL DEF Spec
-----------------------------------------------------------------------------
(* No send is forgotten.  Once the thread has left its loop only answers     *)
(* count: what else it held is abandoned, and a start throws it away.        *)

Held == IF Serving THEN Waiting \union InHand \union Answering \union Answered ELSE Answered

HeldInv == accepted \ abandoned \subseteq Held

LEMMA HeldStep ==
    ASSUME TypeInv, HeldInv, [Next]_vars
    PROVE  HeldInv'
<1> USE DEF HeldInv, Held, Serving, At
<1>1. outbox = <<>> => Answering = {}
  BY DEF Answering
<1>2. commands' = commands => Waiting' = Waiting
  BY DEF Waiting
<1>3. outcomes' = outcomes => Answered' = Answered
  BY DEF Answered
\* A step of the thread inside its loop hands on the send it has in hand.
<1>4. ASSUME NEW l, NEW evs, NEW b, NEW i, Step(l, evs, b, i), l \notin {"none", "leave", "done"},
             outbox = <<>>, Serving, InHand \subseteq InHand' \union Answering'
      PROVE  HeldInv'
  <2>1. /\ pc' = l /\ abandoned' = abandoned /\ accepted' = accepted
        /\ Waiting' = Waiting /\ Answered' = Answered
    BY <1>2, <1>3, <1>4 DEF Step, shared
  <2>2. QED
    BY <1>1, <1>4, <2>1
\* Outside a send it has none.
<1>5. ASSUME NEW l, NEW evs, NEW b, NEW i, Step(l, evs, b, i), l \notin {"none", "leave", "done"},
             outbox = <<>>, Serving, InHand = {}
      PROVE  HeldInv'
  BY <1>4, <1>5
<1>6. ASSUME NEW evs, Leave(evs) PROVE HeldInv'
  <2>1. pc' = "leave" /\ abandoned' = accepted \ Answered /\ accepted' = accepted
        /\ Answered' = Answered
    BY <1>3, <1>6 DEF Leave, Step
  <2>2. QED
    BY <2>1
<1>7. pc \notin {"handle", "stopReceive", "transmit"} => InHand = {}
  BY DEF InHand
<1>8. CASE PushEvent
  <2> DEFINE e == Head(outbox)
  <2>1. /\ UNCHANGED <<commands, pc, command, accepted, abandoned>>
        /\ outbox # <<>> /\ outbox' = Tail(outbox) /\ outbox \in Seq(Events)
        /\ outcomes' = IF e.kind \in OutcomeKinds
                       THEN [outcomes EXCEPT ![e.id] = Append(@, e.kind)] ELSE outcomes
    BY <1>8 DEF PushEvent, TypeInv, TypeOK
  <2>2. accepted \subseteq SendIds /\ outcomes \in [SendIds -> Seq(OutcomeKinds)]
    BY DEF TypeInv, TypeOK
  <2>3. Answered \subseteq Answered'
    <3>1. ASSUME NEW i \in SendIds, outcomes[i] # <<>> PROVE outcomes'[i] # <<>>
      BY <2>1, <2>2, <3>1
    <3>2. QED
      BY <3>1 DEF Answered
  <2>4. ASSUME NEW i \in SendIds, i \in Answering PROVE i \in Answering' \union Answered'
    <3>1. PICK k \in DOMAIN outbox : outbox[k].kind \in OutcomeKinds /\ outbox[k].id = i
      BY <2>4 DEF Answering
    <3>2. CASE k = 1
      <4>1. e.kind \in OutcomeKinds /\ e.id = i
        BY <2>1, <3>1, <3>2
      <4>2. outcomes'[i] = Append(outcomes[i], e.kind) /\ outcomes[i] \in Seq(OutcomeKinds)
        BY <2>1, <2>2, <4>1
      <4>3. outcomes'[i] # <<>>
        BY <4>1, <4>2
      <4>4. QED
        BY <4>3 DEF Answered
    <3>3. CASE k # 1
      <4>1. k - 1 \in DOMAIN Tail(outbox) /\ Tail(outbox)[k - 1] = outbox[k]
        BY <2>1, <3>1, <3>3
      <4>2. QED
        BY <2>1, <3>1, <4>1 DEF Answering
    <3>4. QED
      BY <3>2, <3>3
  <2>5. Waiting' = Waiting /\ InHand' = InHand
    BY <2>1, <1>2 DEF InHand
  <2>6. QED
    BY <2>1, <2>2, <2>3, <2>4, <2>5
<1>9. ASSUME NEW evs, GiveUp(evs), outbox = <<>>, Serving, InHand \subseteq Answering'
      PROVE  HeldInv'
  BY <1>4, <1>9 DEF GiveUp
<1>10. ASSUME NEW evs, GiveUp(evs), outbox = <<>>, Serving, InHand = {}
       PROVE  HeldInv'
  BY <1>5, <1>10 DEF GiveUp
<1>11. CASE Open \/ FinishInitialization \/ CheckStop
  BY <1>5, <1>6, <1>7, <1>10, <1>11 DEF Open, FinishInitialization, CheckStop, Goto
<1>12. CASE TryPopCommand
  <2>1. UNCHANGED <<accepted, abandoned, outcomes, outbox>> /\ pc = "pop"
        /\ pc' \notin {"none", "leave", "done"} /\ outbox = <<>>
    BY <1>12 DEF TryPopCommand, history
  <2>2. Waiting \subseteq Waiting' \union InHand'
    <3>1. CASE commands = <<>>
      BY <1>2, <1>12, <3>1 DEF TryPopCommand
    <3>2. CASE commands # <<>>
      <4>1. /\ commands \in Seq(Commands) /\ commands' = Tail(commands)
            /\ command' = Head(commands) /\ pc' = "handle"
        BY <1>12, <3>2 DEF TryPopCommand, CommandTaken, CommandsLeft, TypeInv, TypeOK
      <4>2. ASSUME NEW k \in DOMAIN commands, commands[k].kind = "send"
            PROVE  commands[k].id \in Waiting' \union InHand'
        <5>1. CASE k = 1
          BY <3>2, <4>1, <4>2, <5>1 DEF InHand
        <5>2. CASE k # 1
          <6>1. k - 1 \in DOMAIN Tail(commands) /\ Tail(commands)[k - 1] = commands[k]
            BY <3>2, <4>1, <4>2, <5>2
          <6>2. QED
            BY <4>1, <4>2, <6>1 DEF Waiting
        <5>3. QED
          BY <5>1, <5>2
      <4>3. QED
        BY <4>2 DEF Waiting
    <3>3. QED
      BY <3>1, <3>2
  <2>3. QED
    BY <1>1, <1>3, <1>7, <2>1, <2>2
<1>13. CASE TestPredicate \/ Block \/ TimeOut \/ SpuriousWakeup
  BY <1>5, <1>7, <1>13 DEF TestPredicate, Block, TimeOut, SpuriousWakeup, Goto
<1>14. CASE ReceiveSlice
  BY <1>5, <1>7, <1>10, <1>14 DEF ReceiveSlice, Goto
<1>15. CASE HandleRetry \/ HandleSetReceive
  <2>1. InHand = {}
    BY <1>15 DEF HandleRetry, HandleSetReceive, InHand
  <2>2. QED
    BY <1>5, <1>15, <2>1 DEF HandleRetry, HandleSetReceive, Goto
\* An answer that waits to be pushed takes the place of the send in hand.
<1>16. ASSUME NEW kind \in OutcomeKinds, outbox' = <<SendEvent(kind, command.id)>>
       PROVE  InHand \subseteq Answering'
  BY <1>16 DEF InHand, Answering, SendEvent
<1>17. outbox' = Append(FailureOf(command.id), Event("Error")) => InHand \subseteq Answering'
  <2>1. SUFFICES ASSUME outbox' = Append(FailureOf(command.id), Event("Error"))
                 PROVE  command.id \in Answering'
    BY DEF InHand
  <2> DEFINE f == SendEvent("TxFailed", command.id)
             g == Event("Error")
  <2>2. outbox' = Append(<<f>>, g)
    BY <2>1 DEF FailureOf
  <2>3. f.kind \in OutcomeKinds /\ f.id = command.id
    BY DEF SendEvent, OutcomeKinds
  <2> HIDE DEF f, g
  <2> DEFINE s == <<f>>
  <2>4. s \in Seq({f, g}) /\ Len(s) = 1 /\ s[1] = f
    OBVIOUS
  <2> HIDE DEF s
  <2>5. 1 \in DOMAIN Append(s, g) /\ Append(s, g)[1] = f
    BY <2>4
  <2>6. QED
    BY <2>2, <2>3, <2>5 DEF Answering, s
<1>18. CASE BeginSend
  <2>1. CASE Goto("top", FailureOf(command.id), backend)
    <3>1. outbox' = <<SendEvent("TxFailed", command.id)>>
      BY <2>1 DEF Goto, Step, FailureOf
    <3>2. QED
      BY <1>4, <1>16, <1>18, <2>1, <3>1 DEF BeginSend, Goto, OutcomeKinds
  <2>2. ASSUME NEW l \in {"stopReceive", "transmit"}, NEW evs, Goto(l, evs, backend)
        PROVE  HeldInv'
    <3>1. InHand' = InHand
      BY <1>18, <2>2 DEF BeginSend, Goto, Step, InHand
    <3>2. QED
      BY <1>4, <1>18, <2>2, <3>1 DEF BeginSend, Goto
  <2>3. QED
    BY <1>18, <2>1, <2>2 DEF BeginSend
<1>19. ASSUME FailSend, outbox = <<>>, Serving PROVE HeldInv'
  <2>1. CASE Goto("restore", FailureOf(command.id), backend)
    <3>1. outbox' = <<SendEvent("TxFailed", command.id)>>
      BY <2>1 DEF Goto, Step, FailureOf
    <3>2. QED
      BY <1>4, <1>16, <1>19, <2>1, <3>1 DEF Goto, OutcomeKinds
  <2>2. CASE GiveUp(FailureOf(command.id))
    BY <1>9, <1>17, <1>19, <2>2 DEF GiveUp, Step
  <2>3. QED
    BY <1>19, <2>1, <2>2 DEF FailSend
<1>20. CASE SuspendReceive
  <2>1. CASE Goto("transmit", <<>>, Opened)
    <3>1. InHand' = InHand
      BY <1>20, <2>1 DEF SuspendReceive, Goto, Step, InHand
    <3>2. QED
      BY <1>4, <1>20, <2>1, <3>1 DEF SuspendReceive, Goto
  <2>2. QED
    BY <1>19, <1>20, <2>1 DEF SuspendReceive
<1>21. CASE Transmit
  <2>1. CASE Complete
    <3>1. outbox' = <<SendEvent("TxCompleted", command.id)>>
      BY <2>1 DEF Complete, Step
    <3>2. QED
      BY <1>4, <1>16, <1>21, <2>1, <3>1 DEF Transmit, Complete, OutcomeKinds
  <2>2. QED
    BY <1>19, <1>21, <2>1 DEF Transmit
<1>22. CASE ResumeReceive
  BY <1>5, <1>7, <1>19, <1>22 DEF ResumeReceive, Goto
<1>23. CASE RestoreReceive
  BY <1>5, <1>7, <1>10, <1>23 DEF RestoreReceive, Goto
<1>24. CASE Cancel \/ Unwind
  BY <1>6, <1>24 DEF Cancel, Unwind
<1>25. CASE Finish
  BY <1>3, <1>25 DEF Finish, history
<1>26. CASE ClientStep
  <2>1. CASE StopNotify \/ Join \/ PostNotify \/ ShutdownNotify
    <3>1. UNCHANGED <<commands, command, outbox, accepted, abandoned, outcomes>>
      BY <2>1 DEF StopNotify, Join, PostNotify, ShutdownNotify, ClientAt, history
    <3>2. \/ pc' = pc
          \/ pc = "blocked" /\ pc' = "test"
          \/ pc \in {"none", "done"} /\ pc' = "none"
      BY <2>1 DEF StopNotify, Join, PostNotify, ShutdownNotify, Notify
    <3>3. InHand' = InHand /\ Answering' = Answering
      BY <3>1, <3>2 DEF InHand, Answering
    <3>4. QED
      BY <1>2, <1>3, <3>1, <3>2, <3>3
  <2>2. CASE PostPush
    <3>1. UNCHANGED <<pc, command, outbox, outcomes>>
      BY <2>2 DEF PostPush, worker
    <3>2. InHand' = InHand /\ Answering' = Answering /\ Answered' = Answered
      BY <3>1 DEF InHand, Answering, Answered
    <3>3. CASE Len(commands) >= CommandCap
      BY <1>2, <2>2, <3>1, <3>2, <3>3 DEF PostPush
    <3>4. CASE ~(Len(commands) >= CommandCap)
      <4> DEFINE new == IF posting.kind = "send" THEN {posting.id} ELSE {}
      <4>1. /\ commands \in Seq(Commands) /\ posting \in Commands
            /\ commands' = Append(commands, posting)
            /\ accepted' = accepted \union new
            /\ abandoned' = IF Serving THEN abandoned ELSE abandoned \union new
        BY <2>2, <3>4 DEF PostPush, TypeInv, TypeOK
      <4>2. /\ DOMAIN commands' = 1 .. Len(commands) + 1
            /\ DOMAIN commands = 1 .. Len(commands) /\ Len(commands) \in Nat
            /\ commands'[Len(commands) + 1] = posting
            /\ \A k \in 1 .. Len(commands) : commands'[k] = commands[k]
        BY <4>1
      <4>3. Waiting \subseteq Waiting'
        BY <4>2 DEF Waiting
      <4>4. new \subseteq Waiting'
        BY <4>2 DEF Waiting
      <4>5. QED
        BY <3>1, <3>2, <4>1, <4>3, <4>4
    <3>5. QED
      BY <3>3, <3>4
  <2>3. QED
    BY <1>26, <2>1, <2>2 DEF ClientStep
<1>27. CASE ClientCall
  <2>1. ASSUME NEW on \in BOOLEAN, Start(on) PROVE HeldInv'
    <3>1. accepted \ abandoned \subseteq Answered
      BY <2>1 DEF Start
    <3>2. UNCHANGED <<accepted, abandoned, outcomes>>
      BY <2>1 DEF Start, history
    <3>3. QED
      BY <1>3, <3>1, <3>2
  <2>2. ASSUME UNCHANGED <<commands, pc, command, outbox, accepted, abandoned, outcomes>>
        PROVE  HeldInv'
    BY <1>2, <1>3, <2>2 DEF InHand, Answering
  <2>3. CASE StopStore \/ ShutdownStore \/ TryPopEvent
    BY <2>2, <2>3 DEF StopStore, ShutdownStore, TryPopEvent, PopEvent, ClientAt, worker, history
  <2>4. CASE \E kind \in CommandKinds : PostBegin(kind)
    BY <2>2, <2>4 DEF PostBegin, shared, worker, history
  <2>5. QED
    BY <1>27, <2>1, <2>3, <2>4 DEF ClientCall
<1>28. CASE UNCHANGED vars
  BY <1>2, <1>3, <1>28 DEF vars, shared, worker, history, InHand, Answering
<1>29. QED
  BY <1>8, <1>11, <1>12, <1>13, <1>14, <1>15, <1>18, <1>20, <1>21, <1>22, <1>23, <1>24, <1>25,
     <1>26, <1>27, <1>28 DEF Next, WorkerStep

\* Every accepted send is in the queue, in hand, about to be answered or
\* answered, unless its thread has ended.
THEOREM NoSendForgotten == Spec => []NoneForgotten
<1>1. Init => HeldInv
  BY DEF Init, HeldInv
<1>2. TypeInv /\ HeldInv /\ [Next]_vars => HeldInv'
  BY HeldStep
<1>3. HeldInv => NoneForgotten
  BY DEF HeldInv, Held, NoneForgotten
<1>4. QED
  BY <1>1, <1>2, <1>3, TypeInvariant, PTL DEF Spec

-----------------------------------------------------------------------------
(* What becomes of the sends that post accepts: each is answered once and  *)
(* truthfully, in the order of acceptance, and the worker implements       *)
(* SendService.  None of this is inductive.  It rests on one fact about    *)
(* the order of the sends (SendsInv): whatever is answered or being        *)
(* answered comes before the send in hand, and that before those in the    *)
(* queue.                                                                  *)

Before(S, T) == \A i \in S, j \in T : i < j

\* The sends of a sequence of commands, and of one of events.
SendsOf(q)   == {q[k].id : k \in {j \in DOMAIN q : q[j].kind = "send"}}
AnswersOf(q) == {q[k].id : k \in {j \in DOMAIN q : q[j].kind \in OutcomeKinds}}

InOrder(q)   == \A j, k \in DOMAIN q :
                    j < k /\ q[j].kind = "send" /\ q[k].kind = "send" => q[j].id < q[k].id
OneAnswer(q) == \A j, k \in DOMAIN q :
                    q[j].kind \in OutcomeKinds /\ q[k].kind \in OutcomeKinds => j = k

\* The caller has numbered a send and not yet pushed it.
PostingSend == client = "push" /\ posting.kind = "send"
Issued      == IF PostingSend THEN posts - 1 ELSE posts

\* Who has been accepted, and in which order.
NumbersInv ==
    /\ PostingSend => posting.id = posts
    /\ \A i \in accepted : i <= Issued
    /\ abandoned \subseteq accepted
    /\ Waiting \union InHand \union Answering \union Answered \subseteq accepted

OrderInv ==
    /\ InOrder(commands) /\ OneAnswer(outbox)
    /\ Before(InHand, Waiting)
    /\ Before(Answering \union Answered, Waiting \union InHand)

\* Where the answers come from.  At "resume" the send is answered already: if
\* receiving cannot be resumed it is answered again (see OneOutcome).
AnswersInv ==
    /\ pc = "resume" => command.id \in Answering \union Answered
    /\ Serving => abandoned \intersect (Waiting \union InHand \union (Answering \ Answered)) = {}
    /\ ~Serving => Answering = {}

SendsInv == NumbersInv /\ OrderInv /\ AnswersInv

\* Without a startReceive that fails on an open backend nothing is answered twice.
OnceInv ==
    /\ \A i \in SendIds : Len(outcomes[i]) <= 1
    /\ Answering \intersect Answered = {}

\* A frame that was written belongs to no send still to be answered, unless the
\* answer waiting to be pushed says so.
TruthInv ==
    /\ wrote \subseteq accepted
    /\ wrote \intersect (Waiting \union InHand) = {}
    /\ \A k \in DOMAIN outbox : outbox[k].kind \in OutcomeKinds =>
           ((outbox[k].kind = "TxCompleted") <=> (outbox[k].id \in wrote))
    /\ OutcomeTruthful

\* The worker tests its predicate with the mutex held.
StrandedInv == NoCommandStranded /\ (pc = "armed" => commands = <<>>)

-----------------------------------------------------------------------------
(* Facts about the sequences.                                              *)

LEMMA WaitingIsSends == Waiting = SendsOf(commands) /\ Answering = AnswersOf(outbox)
BY DEF Waiting, SendsOf, Answering, AnswersOf

\* Events that answer nothing.
NoAnswers(q) == \A k \in DOMAIN q : q[k].kind \notin OutcomeKinds

LEMMA NothingAnswered ==
    ASSUME NEW q, NoAnswers(q)
    PROVE  AnswersOf(q) = {} /\ OneAnswer(q)
BY DEF NoAnswers, AnswersOf, OneAnswer

LEMMA EmptyAnswersNothing == NoAnswers(<<>>)
BY DEF NoAnswers

LEMMA EventAnswersNothing ==
    ASSUME NEW k, k \notin OutcomeKinds
    PROVE  NoAnswers(<<Event(k)>>)
BY DEF NoAnswers, Event

LEMMA EventsAnswerNothing ==
    ASSUME NEW j, NEW k, j \notin OutcomeKinds, k \notin OutcomeKinds
    PROVE  NoAnswers(<<Event(j), Event(k)>>) /\ NoAnswers(Append(<<Event(j)>>, Event(k)))
BY DEF NoAnswers, Event

LEMMA JoinedAnswerNothing ==
    ASSUME NEW S, NEW q \in Seq(S), NEW r \in Seq(S), NoAnswers(q), NoAnswers(r)
    PROVE  NoAnswers(q \o r)
BY DEF NoAnswers

LEMMA OneAndTwo ==
    ASSUME NEW f, NEW g
    PROVE  /\ DOMAIN <<f>> = {1} /\ <<f>>[1] = f
           /\ DOMAIN Append(<<f>>, g) = {1, 2}
           /\ Append(<<f>>, g)[1] = f /\ Append(<<f>>, g)[2] = g
<1> DEFINE s == <<f>>
<1>1. DOMAIN s = {1} /\ s[1] = f
  OBVIOUS
<1>2. DOMAIN Append(s, g) = {1, 2} /\ Append(s, g)[1] = f /\ Append(s, g)[2] = g
  <2>1. s \in Seq({f, g}) /\ Len(s) = 1
    OBVIOUS
  <2>2. QED
    BY <2>1, <1>1
<1>3. QED
  BY <1>1, <1>2

\* An outcome and at most one event after it.
LEMMA OutcomeAnswersOne ==
    ASSUME NEW k \in OutcomeKinds, NEW i, NEW j, j \notin OutcomeKinds
    PROVE  /\ AnswersOf(<<SendEvent(k, i)>>) = {i} /\ OneAnswer(<<SendEvent(k, i)>>)
           /\ AnswersOf(Append(<<SendEvent(k, i)>>, Event(j))) = {i}
           /\ OneAnswer(Append(<<SendEvent(k, i)>>, Event(j)))
<1> DEFINE f == SendEvent(k, i)
           g == Event(j)
           s == <<f>>
<1>1. f.kind \in OutcomeKinds /\ f.id = i /\ g.kind \notin OutcomeKinds
  BY DEF SendEvent, Event
<1> HIDE DEF f, g
<1>2. DOMAIN s = {1} /\ s[1] = f
  BY OneAndTwo
<1>3. DOMAIN Append(s, g) = {1, 2} /\ Append(s, g)[1] = f /\ Append(s, g)[2] = g
  BY OneAndTwo
<1> HIDE DEF s
<1>4. AnswersOf(s) = {i} /\ OneAnswer(s)
  BY <1>1, <1>2 DEF AnswersOf, OneAnswer
<1>5. AnswersOf(Append(s, g)) = {i} /\ OneAnswer(Append(s, g))
  BY <1>1, <1>3 DEF AnswersOf, OneAnswer
<1>6. QED
  BY <1>4, <1>5 DEF f, g, s

LEMMA CompletionAnswers ==
    ASSUME NEW i
    PROVE  /\ AnswersOf(<<SendEvent("TxCompleted", i)>>) = {i}
           /\ OneAnswer(<<SendEvent("TxCompleted", i)>>)
<1>1. "TxCompleted" \in OutcomeKinds /\ "Error" \notin OutcomeKinds
  BY DEF OutcomeKinds
<1>2. QED
  BY <1>1, OutcomeAnswersOne

LEMMA FailureAnswers ==
    ASSUME NEW i
    PROVE  /\ AnswersOf(FailureOf(i)) = {i} /\ OneAnswer(FailureOf(i))
           /\ AnswersOf(Append(FailureOf(i), Event("Error"))) = {i}
           /\ OneAnswer(Append(FailureOf(i), Event("Error")))
<1>1. "TxFailed" \in OutcomeKinds /\ "Error" \notin OutcomeKinds
  BY DEF OutcomeKinds
<1>2. FailureOf(i) = <<SendEvent("TxFailed", i)>>
  BY DEF FailureOf
<1>3. QED
  BY <1>1, <1>2, OutcomeAnswersOne

\* A queue of commands without its first one.
LEMMA SendsAfterPop ==
    ASSUME NEW q \in Seq(Commands), q # <<>>, InOrder(q)
    PROVE  /\ InOrder(Tail(q))
           /\ SendsOf(Tail(q)) \subseteq SendsOf(q)
           /\ Head(q).kind = "send" => /\ Head(q).id \in SendsOf(q)
                                       /\ Before({Head(q).id}, SendsOf(Tail(q)))
<1>1. /\ DOMAIN q = 1 .. Len(q) /\ Len(q) \in Nat \ {0} /\ Head(q) = q[1]
      /\ DOMAIN Tail(q) = 1 .. Len(q) - 1
      /\ \A k \in 1 .. Len(q) - 1 : k + 1 \in DOMAIN q /\ Tail(q)[k] = q[k + 1]
  OBVIOUS
<1> DEFINE t == Tail(q)
<1> HIDE DEF t
<1>2. InOrder(t)
  BY <1>1 DEF InOrder, t
<1>3. SendsOf(t) \subseteq SendsOf(q)
  BY <1>1 DEF SendsOf, t
<1>4. ASSUME Head(q).kind = "send"
      PROVE  Head(q).id \in SendsOf(q) /\ Before({Head(q).id}, SendsOf(t))
  <2>1. Head(q).id \in SendsOf(q)
    BY <1>1, <1>4 DEF SendsOf
  <2>2. ASSUME NEW k \in DOMAIN t, t[k].kind = "send" PROVE Head(q).id < t[k].id
    BY <1>1, <1>4, <2>2 DEF InOrder, t
  <2>3. QED
    BY <2>1, <2>2 DEF Before, SendsOf
<1>5. QED
  BY <1>2, <1>3, <1>4 DEF t

\* A queue of commands with another one at its end.
LEMMA SendsAfterPush ==
    ASSUME NEW q \in Seq(Commands), NEW c \in Commands, InOrder(q),
           c.kind = "send" => \A i \in SendsOf(q) : i < c.id
    PROVE  /\ InOrder(Append(q, c))
           /\ SendsOf(Append(q, c)) = SendsOf(q) \union (IF c.kind = "send" THEN {c.id} ELSE {})
<1>1. /\ DOMAIN q = 1 .. Len(q) /\ Len(q) \in Nat
      /\ DOMAIN Append(q, c) = 1 .. Len(q) + 1
      /\ Append(q, c)[Len(q) + 1] = c
      /\ \A k \in 1 .. Len(q) : Append(q, c)[k] = q[k]
  OBVIOUS
<1> DEFINE a == Append(q, c)
<1> HIDE DEF a
<1>2. InOrder(a)
  <2>1. SUFFICES ASSUME NEW j \in DOMAIN a, NEW k \in DOMAIN a, j < k,
                        a[j].kind = "send", a[k].kind = "send"
                 PROVE  a[j].id < a[k].id
    BY DEF InOrder
  <2>2. j \in DOMAIN q /\ a[j] = q[j]
    BY <1>1, <2>1 DEF a
  <2>3. CASE k \in DOMAIN q
    BY <1>1, <2>1, <2>2, <2>3 DEF InOrder, a
  <2>4. CASE k = Len(q) + 1
    BY <1>1, <2>1, <2>2, <2>4 DEF SendsOf, a
  <2>5. QED
    BY <1>1, <2>3, <2>4 DEF a
<1>3. SendsOf(a) = SendsOf(q) \union (IF c.kind = "send" THEN {c.id} ELSE {})
  BY <1>1 DEF SendsOf, a
<1>4. QED
  BY <1>2, <1>3 DEF a
-----------------------------------------------------------------------------
(* The steps of the thread that answer at most the send in hand.           *)

\* The thread goes on with evs to push.  What they answer was in hand and is
\* no more, or has been answered before.
LEMMA StepKeepsSends ==
    ASSUME SendsInv, NEW l, NEW evs, NEW b, NEW i, Step(l, evs, b, i), outbox = <<>>, Serving,
           l \notin {"none", "leave", "done"}, OneAnswer(evs),
           AnswersOf(evs) \subseteq InHand \union Answered,
           InHand' \subseteq InHand, AnswersOf(evs) = {} \/ InHand' = {},
           l = "resume" => command.id \in AnswersOf(evs)
    PROVE  SendsInv'
<1>1. /\ Answering = {} /\ Answering' = AnswersOf(evs) /\ Waiting' = Waiting
      /\ Answered' = Answered
  BY EmptyAnswersNothing, NothingAnswered, WaitingIsSends DEF Step, shared, AnswersOf, Answering,
     Waiting, Answered
<1>2. /\ pc' = l /\ outbox' = evs /\ Serving'
      /\ UNCHANGED <<command, commands, client, posting, posts, accepted, abandoned>>
  BY DEF Step, shared, caller, Serving
<1>3. NumbersInv'
  BY <1>1, <1>2 DEF SendsInv, NumbersInv, Issued, PostingSend
<1>4. OrderInv'
  <2>1. InOrder(commands)' /\ OneAnswer(outbox)'
    BY <1>2 DEF SendsInv, OrderInv, InOrder, OneAnswer
  <2>2. Before(InHand, Waiting)'
    BY <1>1 DEF SendsInv, OrderInv, Before
  <2>3. Before(Answering \union Answered, Waiting \union InHand)'
    BY <1>1 DEF SendsInv, OrderInv, Before
  <2>4. QED
    BY <2>1, <2>2, <2>3 DEF OrderInv
<1>5. AnswersInv'
  <2>1. abandoned \intersect (Waiting \union InHand) = {}
    BY DEF SendsInv, AnswersInv
  <2>2. Answering' \ Answered \subseteq InHand
    BY <1>1
  <2>3. QED
    BY <1>1, <1>2, <2>1, <2>2 DEF AnswersInv
<1>6. QED
  BY <1>3, <1>4, <1>5 DEF SendsInv

\* The events answer nothing and the thread is not at "resume".
LEMMA QuietStepKeepsSends ==
    ASSUME SendsInv, NEW l, NEW evs, NEW b, NEW i, Step(l, evs, b, i), outbox = <<>>, Serving,
           l \notin {"none", "leave", "done", "resume"}, NoAnswers(evs), InHand' \subseteq InHand
    PROVE  SendsInv'
BY NothingAnswered, StepKeepsSends

\* The events answer the send in hand, which has been put away, or one answered
\* already.
LEMMA AnswerStepKeepsSends ==
    ASSUME SendsInv, NEW l, NEW evs, NEW b, NEW i, Step(l, evs, b, i), outbox = <<>>, Serving,
           l \notin {"none", "leave", "done"}, OneAnswer(evs), AnswersOf(evs) = {command.id},
           command.id \in InHand \union Answered, InHand' = {}
    PROVE  SendsInv'
<1>1. AnswersOf(evs) \subseteq InHand \union Answered
  OBVIOUS
<1>2. InHand' \subseteq InHand
  OBVIOUS
<1>3. QED
  BY <1>1, <1>2, StepKeepsSends

\* On its way out the thread answers nothing.
LEMMA LeaveKeepsSends ==
    ASSUME TypeInv, SendsInv, NEW evs \in Seq(Events), Leave(evs), outbox = <<>>, NoAnswers(evs)
    PROVE  SendsInv'
<1> DEFINE out == evs \o <<Event("Stopping"), Event("Stopped")>>
<1>1. NoAnswers(out)
  <2>1. <<Event("Stopping"), Event("Stopped")>> \in Seq(Events)
    BY EventTypes DEF EventKinds, StateKinds
  <2>2. QED
    BY <2>1, EventsAnswerNothing, JoinedAnswerNothing DEF OutcomeKinds
<1>2. /\ pc' = "leave" /\ outbox' = out /\ abandoned' = accepted \ Answered
      /\ UNCHANGED <<command, commands, client, posting, posts, accepted, outcomes>>
  BY DEF Leave, Step, shared, caller
<1> HIDE DEF out
<1>3. /\ Answering' = {} /\ OneAnswer(outbox)' /\ Waiting' = Waiting /\ Answered' = Answered
      /\ InHand' = {} /\ ~Serving'
  <2>1. AnswersOf(out) = {} /\ OneAnswer(out)
    BY <1>1, NothingAnswered
  <2>2. QED
    BY <1>2, <2>1 DEF Answering, AnswersOf, OneAnswer, Waiting, Answered, InHand, Serving
<1>4. NumbersInv'
  BY <1>2, <1>3 DEF SendsInv, NumbersInv, Issued, PostingSend
<1>5. OrderInv'
  BY <1>2, <1>3 DEF SendsInv, OrderInv, Before, InOrder
<1>6. AnswersInv'
  BY <1>2, <1>3 DEF AnswersInv
<1>7. QED
  BY <1>4, <1>5, <1>6 DEF SendsInv

\* An event is pushed: if it answers a send, no other answer was waiting.
LEMMA PushAnswers ==
    ASSUME TypeInv, OneAnswer(outbox), PushEvent
    PROVE  /\ OneAnswer(outbox)'
           /\ Head(outbox).kind \in OutcomeKinds =>
                 /\ Answering = {Head(outbox).id} /\ Answering' = {}
                 /\ Head(outbox).id \in SendIds => Answered' = Answered \union {Head(outbox).id}
           /\ Head(outbox).kind \notin OutcomeKinds =>
                 Answering' = Answering /\ Answered' = Answered
<1> DEFINE e == Head(outbox)
           t == Tail(outbox)
<1>1. /\ outbox # <<>> /\ outbox' = t /\ outbox \in Seq(Events)
      /\ outcomes' = IF e.kind \in OutcomeKinds
                     THEN [outcomes EXCEPT ![e.id] = Append(@, e.kind)] ELSE outcomes
      /\ outcomes \in [SendIds -> Seq(OutcomeKinds)]
  BY DEF PushEvent, TypeInv, TypeOK
<1>2. /\ DOMAIN outbox = 1 .. Len(outbox) /\ Len(outbox) \in Nat \ {0} /\ e = outbox[1]
      /\ DOMAIN t = 1 .. Len(outbox) - 1
      /\ \A k \in 1 .. Len(outbox) - 1 : k + 1 \in DOMAIN outbox /\ t[k] = outbox[k + 1]
      /\ \A k \in DOMAIN outbox : k = 1 \/ (k - 1 \in DOMAIN t /\ t[k - 1] = outbox[k])
  BY <1>1
<1> HIDE DEF e, t
<1>3. OneAnswer(t)
  <2>1. SUFFICES ASSUME NEW j \in DOMAIN t, NEW k \in DOMAIN t,
                        t[j].kind \in OutcomeKinds, t[k].kind \in OutcomeKinds
                 PROVE  j = k
    BY DEF OneAnswer
  <2>2. j + 1 = k + 1
    BY <1>2, <2>1 DEF OneAnswer
  <2>3. QED
    BY <1>2, <2>2
<1>4. ASSUME e.kind \in OutcomeKinds
      PROVE  Answering = {e.id} /\ AnswersOf(t) = {}
  <2>1. 1 \in DOMAIN outbox
    BY <1>2
  <2>2. \A k \in DOMAIN outbox : outbox[k].kind \in OutcomeKinds => k = 1
    BY <1>2, <1>4, <2>1 DEF OneAnswer
  <2>3. Answering = {e.id}
    BY <1>2, <1>4, <2>1, <2>2 DEF Answering
  <2>4. \A k \in DOMAIN t : t[k].kind \notin OutcomeKinds
    BY <1>2, <2>2
  <2>5. QED
    BY <2>3, <2>4 DEF AnswersOf
<1>5. ASSUME e.kind \in OutcomeKinds, e.id \in SendIds
      PROVE  Answered' = Answered \union {e.id}
  <2>1. /\ \A i \in SendIds : i # e.id => outcomes'[i] = outcomes[i]
        /\ outcomes'[e.id] = Append(outcomes[e.id], e.kind) /\ outcomes[e.id] \in Seq(OutcomeKinds)
    BY <1>1, <1>5
  <2>2. Append(outcomes[e.id], e.kind) # <<>>
    BY <1>5, <2>1
  <2>3. QED
    BY <1>5, <2>1, <2>2 DEF Answered
<1>6. ASSUME e.kind \notin OutcomeKinds
      PROVE  AnswersOf(t) = Answering /\ Answered' = Answered
  <2>1. Answered' = Answered
    BY <1>1, <1>6 DEF Answered
  <2>2. AnswersOf(t) \subseteq Answering
    BY <1>2 DEF AnswersOf, Answering
  <2>3. Answering \subseteq AnswersOf(t)
    BY <1>2, <1>6 DEF AnswersOf, Answering
  <2>4. QED
    BY <2>1, <2>2, <2>3
<1>7. Answering' = AnswersOf(t) /\ OneAnswer(outbox)' = OneAnswer(t)
  BY <1>1 DEF Answering, AnswersOf, OneAnswer
<1>8. QED
  BY <1>3, <1>4, <1>5, <1>6, <1>7 DEF e

LEMMA PushKeepsSends ==
    ASSUME TypeInv, SendsInv, PushEvent
    PROVE  SendsInv'
<1>1. /\ OneAnswer(outbox)' /\ Answering' \subseteq Answering /\ Answered \subseteq Answered'
      /\ Answering' \union Answered' = Answering \union Answered
  <2>1. Answering \subseteq SendIds
    BY DEF SendsInv, NumbersInv, TypeInv, TypeOK
  <2>2. QED
    BY <2>1, PushAnswers DEF SendsInv, OrderInv
<1>2. /\ UNCHANGED <<pc, command, commands, client, posting, posts, accepted, abandoned>>
      /\ Waiting' = Waiting /\ InHand' = InHand
  BY DEF PushEvent, caller, Waiting, InHand
<1>3. NumbersInv'
  BY <1>1, <1>2 DEF SendsInv, NumbersInv, Issued, PostingSend
<1>4. OrderInv'
  BY <1>1, <1>2 DEF SendsInv, OrderInv, Before, InOrder
<1>5. AnswersInv'
  BY <1>1, <1>2 DEF SendsInv, AnswersInv, Serving
<1>6. QED
  BY <1>3, <1>4, <1>5 DEF SendsInv

\* The thread takes the oldest command.
LEMMA PopTakes ==
    ASSUME TypeInv, SendsInv, TryPopCommand
    PROVE  /\ UNCHANGED <<outbox, outcomes, client, posting, posts, accepted, abandoned, wrote>>
           /\ pc = "pop" /\ pc' \in {"handle", "receive", "test"} /\ outbox = <<>>
           /\ Waiting' \union InHand' \subseteq Waiting /\ InOrder(commands)'
           /\ Before(InHand', Waiting')
<1>1. /\ UNCHANGED <<outbox, outcomes, client, posting, posts, accepted, abandoned, wrote>>
      /\ pc = "pop" /\ pc' \in {"handle", "receive", "test"} /\ outbox = <<>>
  BY DEF TryPopCommand, At, caller, history
<1>2. CASE commands = <<>>
  <2>1. commands' = commands /\ pc' # "handle"
    BY <1>2 DEF TryPopCommand
  <2>2. InHand' = {} /\ Waiting' = Waiting
    BY <1>1, <2>1 DEF InHand, Waiting
  <2>3. QED
    BY <1>1, <2>1, <2>2 DEF SendsInv, OrderInv, InOrder, Before
<1>3. CASE commands # <<>>
  <2>1. /\ command' = Head(commands) /\ commands' = Tail(commands) /\ pc' = "handle"
        /\ commands \in Seq(Commands) /\ InOrder(commands)
    BY <1>3 DEF TryPopCommand, CommandTaken, CommandsLeft, TypeInv, TypeOK, SendsInv, OrderInv
  <2>2. /\ InHand' = IF Head(commands).kind = "send" THEN {Head(commands).id} ELSE {}
        /\ Waiting' = SendsOf(Tail(commands)) /\ Waiting = SendsOf(commands)
    BY <2>1, WaitingIsSends DEF InHand, Waiting, SendsOf
  <2>3. InOrder(commands)'
    BY <1>3, <2>1, SendsAfterPop DEF InOrder
  <2>4. Waiting' \union InHand' \subseteq Waiting /\ Before(InHand', Waiting')
    BY <1>3, <2>1, <2>2, SendsAfterPop DEF Before
  <2>5. QED
    BY <1>1, <2>3, <2>4
<1>4. QED
  BY <1>2, <1>3

LEMMA PopKeepsSends ==
    ASSUME TypeInv, SendsInv, TryPopCommand
    PROVE  SendsInv'
<1>1. /\ UNCHANGED <<outbox, outcomes, client, posting, posts, accepted, abandoned>>
      /\ pc = "pop" /\ pc' \in {"handle", "receive", "test"} /\ outbox = <<>>
      /\ Waiting' \union InHand' \subseteq Waiting /\ InOrder(commands)'
      /\ Before(InHand', Waiting')
  BY PopTakes
<1>2. /\ Answering' = Answering /\ Answered' = Answered /\ Serving /\ Serving' /\ InHand = {}
      /\ OneAnswer(outbox)'
  BY <1>1 DEF Answering, Answered, Serving, InHand, SendsInv, OrderInv, OneAnswer
<1>3. NumbersInv'
  BY <1>1, <1>2 DEF SendsInv, NumbersInv, Issued, PostingSend
<1>4. OrderInv'
  BY <1>1, <1>2 DEF SendsInv, OrderInv, Before
<1>5. AnswersInv'
  BY <1>1, <1>2 DEF SendsInv, AnswersInv
<1>6. QED
  BY <1>3, <1>4, <1>5 DEF SendsInv

LEMMA FailSendKeepsSends ==
    ASSUME SendsInv, FailSend, outbox = <<>>, Serving, command.id \in InHand \union Answered
    PROVE  SendsInv'
<1>1. CASE Goto("restore", FailureOf(command.id), backend)
  <2>1. InHand' = {}
    BY <1>1 DEF Goto, Step, InHand
  <2>2. QED
    BY <1>1, <2>1, FailureAnswers, AnswerStepKeepsSends DEF Goto
<1>2. CASE GiveUp(FailureOf(command.id))
  <2>1. InHand' = {}
    BY <1>2 DEF GiveUp, Step, InHand
  <2>2. QED
    BY <1>2, <2>1, FailureAnswers, AnswerStepKeepsSends DEF GiveUp
<1>3. QED
  BY <1>1, <1>2 DEF FailSend

\* In the middle of a send the thread has it in hand.
LEMMA InHandIs ==
    ASSUME TypeInv, pc \in {"stopReceive", "transmit"} \/ (pc = "handle" /\ command.kind = "send")
    PROVE  InHand = {command.id} /\ command.id \in SendIds
BY DEF InHand, TypeInv, GoodCommands

LEMMA WorkerStepKeepsSends ==
    ASSUME TypeInv, SendsInv, WorkerStep \/ SpuriousWakeup
    PROVE  SendsInv'
<1> USE DEF At
<1>1. /\ NoAnswers(<<>>) /\ <<>> \in Seq(Events)
      /\ \A k \in EventKinds \ OutcomeKinds : NoAnswers(<<Event(k)>>)
      /\ NoAnswers(<<Event("OtherError"), Event("Error")>>)
  <2>1. NoAnswers(<<Event("OtherError"), Event("Error")>>)
    <3>1. "OtherError" \notin OutcomeKinds /\ "Error" \notin OutcomeKinds
      BY DEF OutcomeKinds
    <3>2. QED
      BY <3>1, EventsAnswerNothing
  <2>2. QED
    BY <2>1, EmptyAnswersNothing, EventAnswersNothing
<1>2. ASSUME NEW l, NEW evs, NEW b, Goto(l, evs, b), outbox = <<>>, Serving,
             l \notin {"none", "leave", "done", "resume"}, NoAnswers(evs), InHand' \subseteq InHand
      PROVE  SendsInv'
  BY <1>2, QuietStepKeepsSends DEF Goto
<1>3. ASSUME NEW k \in EventKinds \ OutcomeKinds, GiveUp(<<Event(k)>>), outbox = <<>>, Serving
      PROVE  SendsInv'
  <2>1. NoAnswers(Append(<<Event(k)>>, Event("Error"))) /\ InHand' = {}
    BY <1>3, EventsAnswerNothing DEF GiveUp, Step, InHand, OutcomeKinds
  <2>2. QED
    BY <1>3, <2>1, QuietStepKeepsSends DEF GiveUp
<1>4. pc' \notin {"handle", "stopReceive", "transmit"} => InHand' = {}
  BY DEF InHand
<1>5. CASE PushEvent
  BY <1>5, PushKeepsSends
<1>6. CASE Open
  <2>1. outbox = <<>> /\ Serving /\ {"Initialized", "InitializeError"} \subseteq EventKinds \ OutcomeKinds
    BY <1>6 DEF Open, Serving, EventKinds, OutcomeKinds
  <2>2. QED
    BY <1>1, <1>2, <1>3, <1>4, <1>6, <2>1 DEF Open, Goto, Step
<1>7. CASE FinishInitialization
  <2>1. /\ outbox = <<>> /\ Serving
        /\ {"Receiving", "Idle", "InitializeError"} \subseteq EventKinds \ OutcomeKinds
    BY <1>7 DEF FinishInitialization, Serving, EventKinds, StateKinds, OutcomeKinds
  <2>2. ASSUME NEW k \in EventKinds \ OutcomeKinds, NEW b, Step("top", <<Event(k)>>, b, TRUE)
        PROVE  SendsInv'
    <3>1. InHand' = {} /\ NoAnswers(<<Event(k)>>)
      BY <1>1, <1>4, <2>2 DEF Step
    <3>2. QED
      BY <2>1, <2>2, <3>1, QuietStepKeepsSends
  <2>3. QED
    BY <1>3, <1>7, <2>1, <2>2 DEF FinishInitialization
<1>8. CASE CheckStop
  <2>1. outbox = <<>> /\ Serving
    BY <1>8 DEF CheckStop, Serving
  <2>2. QED
    BY <1>1, <1>2, <1>4, <1>8, <2>1, LeaveKeepsSends DEF CheckStop, Goto, Step
<1>9. CASE TryPopCommand
  BY <1>9, PopKeepsSends
<1>10. CASE TestPredicate \/ Block \/ TimeOut \/ SpuriousWakeup
  <2>1. outbox = <<>> /\ Serving
    BY <1>10 DEF TestPredicate, Block, TimeOut, SpuriousWakeup, Serving
  <2>2. QED
    BY <1>1, <1>2, <1>4, <1>10, <2>1 DEF TestPredicate, Block, TimeOut, SpuriousWakeup, Goto, Step
<1>11. CASE ReceiveSlice
  <2>1. outbox = <<>> /\ Serving /\ {"RxPacket", "OtherError"} \subseteq EventKinds \ OutcomeKinds
    BY <1>11 DEF ReceiveSlice, Serving, EventKinds, OutcomeKinds
  <2>2. CASE Step("top", <<Event("RxPacket")>>, backend, initialized)
    BY <1>1, <1>4, <2>1, <2>2, QuietStepKeepsSends DEF Step
  <2>3. QED
    BY <1>1, <1>2, <1>3, <1>4, <1>11, <2>1, <2>2 DEF ReceiveSlice, Goto, Step
<1>12. CASE HandleRetry
  <2>1. outbox = <<>> /\ Serving /\ "Initializing" \in EventKinds \ OutcomeKinds
    BY <1>12 DEF HandleRetry, Serving, EventKinds, StateKinds, OutcomeKinds
  <2>2. QED
    BY <1>1, <1>2, <1>4, <1>12, <2>1 DEF HandleRetry, Goto, Step
<1>13. CASE HandleSetReceive
  <2>1. outbox = <<>> /\ Serving /\ {"Receiving", "Idle"} \subseteq EventKinds \ OutcomeKinds
    BY <1>13 DEF HandleSetReceive, Serving, EventKinds, StateKinds, OutcomeKinds
  <2>2. ASSUME NEW evs, NEW b, NEW i, Step("top", evs, b, i), NoAnswers(evs) PROVE SendsInv'
    BY <1>4, <2>1, <2>2, QuietStepKeepsSends DEF Step
  <2>3. QED
    BY <1>1, <1>13, <2>1, <2>2 DEF HandleSetReceive
<1>14. CASE BeginSend
  <2>1. outbox = <<>> /\ Serving /\ InHand = {command.id}
    BY <1>14, InHandIs DEF BeginSend, Serving
  <2>2. CASE initialized
    <3>1. NoAnswers(<<SendEvent("TxStarted", command.id), Event("Sending")>>)
      BY DEF NoAnswers, SendEvent, Event, OutcomeKinds
    <3>2. PICK l \in {"stopReceive", "transmit"} :
              Goto(l, <<SendEvent("TxStarted", command.id), Event("Sending")>>, backend)
      BY <1>14, <2>2 DEF BeginSend
    <3>3. InHand' \subseteq InHand
      BY <2>1, <3>2 DEF Goto, Step, InHand
    <3>4. QED
      BY <1>2, <2>1, <3>1, <3>2, <3>3
  <2>3. CASE ~initialized
    <3>1. Goto("top", FailureOf(command.id), backend)
      BY <1>14, <2>3 DEF BeginSend
    <3>2. InHand' = {}
      BY <1>4, <3>1 DEF Goto, Step
    <3>3. QED
      BY <2>1, <3>1, <3>2, FailureAnswers, AnswerStepKeepsSends DEF Goto
  <2>4. QED
    BY <2>2, <2>3
<1>15. CASE SuspendReceive
  <2>1. outbox = <<>> /\ Serving /\ InHand = {command.id}
    BY <1>15, InHandIs DEF SuspendReceive, Serving
  <2>2. CASE Goto("transmit", <<>>, Opened)
    <3>1. InHand' \subseteq InHand
      BY <2>1, <2>2 DEF Goto, Step, InHand
    <3>2. QED
      BY <1>1, <1>2, <2>1, <2>2, <3>1
  <2>3. QED
    BY <1>15, <2>1, <2>2, FailSendKeepsSends DEF SuspendReceive
<1>16. CASE Transmit
  <2>1. outbox = <<>> /\ Serving /\ InHand = {command.id}
    BY <1>16, InHandIs DEF Transmit, Serving
  <2>2. CASE Complete
    <3>1. Step("resume", <<SendEvent("TxCompleted", command.id)>>, backend, initialized) /\ InHand' = {}
      BY <1>4, <2>2 DEF Complete, Step
    <3>2. QED
      BY <2>1, <3>1, CompletionAnswers, AnswerStepKeepsSends
  <2>3. QED
    BY <1>16, <2>1, <2>2, FailSendKeepsSends DEF Transmit
<1>17. CASE ResumeReceive
  <2>1. outbox = <<>> /\ Serving /\ {"Receiving", "Idle"} \subseteq EventKinds \ OutcomeKinds
    BY <1>17 DEF ResumeReceive, Serving, EventKinds, StateKinds, OutcomeKinds
  <2>2. command.id \in Answered
    BY <1>17, <2>1 DEF ResumeReceive, SendsInv, AnswersInv, Answering
  <2>3. QED
    BY <1>1, <1>2, <1>4, <1>17, <2>1, <2>2, FailSendKeepsSends DEF ResumeReceive, Goto, Step
<1>18. CASE RestoreReceive
  <2>1. outbox = <<>> /\ Serving /\ {"Receiving", "OtherError"} \subseteq EventKinds \ OutcomeKinds
    BY <1>18 DEF RestoreReceive, Serving, EventKinds, StateKinds, OutcomeKinds
  <2>2. QED
    BY <1>1, <1>2, <1>3, <1>4, <1>18, <2>1 DEF RestoreReceive, RestoredReport, Goto, Step
<1>19. CASE Cancel
  BY <1>1, <1>19, LeaveKeepsSends DEF Cancel
<1>20. CASE Unwind
  <2>1. <<Event("OtherError"), Event("Error")>> \in Seq(Events)
    BY EventTypes DEF EventKinds, StateKinds
  <2>2. QED
    BY <1>1, <1>20, <2>1, LeaveKeepsSends DEF Unwind
<1>21. CASE Finish
  <2>1. /\ pc = "leave" /\ pc' = "done"
        /\ UNCHANGED <<command, commands, outbox, client, posting, posts, accepted, abandoned, outcomes>>
    BY <1>21 DEF Finish, caller, history
  <2>2. /\ Waiting' = Waiting /\ Answering' = Answering /\ Answered' = Answered
        /\ InHand' = {} /\ InHand = {} /\ ~Serving /\ ~Serving'
    BY <2>1 DEF Waiting, Answering, Answered, InHand, Serving
  <2>3. NumbersInv'
    BY <2>1, <2>2 DEF SendsInv, NumbersInv, Issued, PostingSend
  <2>4. OrderInv'
    BY <2>1, <2>2 DEF SendsInv, OrderInv, InOrder, OneAnswer, Before
  <2>5. AnswersInv'
    BY <2>1, <2>2 DEF SendsInv, AnswersInv
  <2>6. QED
    BY <2>3, <2>4, <2>5 DEF SendsInv
<1>22. QED
  BY <1>5, <1>6, <1>7, <1>8, <1>9, <1>10, <1>11, <1>12, <1>13, <1>14, <1>15, <1>16, <1>17, <1>18,
     <1>19, <1>20, <1>21 DEF WorkerStep
\* A step of the calling thread that pushes and numbers no command.
LEMMA QuietCallKeepsSends ==
    ASSUME SendsInv, PostingSend' = PostingSend,
           UNCHANGED <<command, commands, outbox, posting, posts, accepted, abandoned, outcomes>>,
           \/ pc' = pc
           \/ pc = "blocked" /\ pc' = "test"
           \/ pc \in {"none", "done"} /\ pc' = "none"
    PROVE  SendsInv'
<1>1. /\ Waiting' = Waiting /\ InHand' = InHand /\ Answering' = Answering /\ Answered' = Answered
      /\ Serving' = Serving /\ Issued' = Issued /\ (pc' = "resume" => pc = "resume")
  BY DEF Waiting, InHand, Answering, Answered, Serving, Issued
<1>2. NumbersInv'
  BY <1>1 DEF SendsInv, NumbersInv
<1>3. OrderInv'
  BY <1>1 DEF SendsInv, OrderInv, InOrder, OneAnswer, Before
<1>4. AnswersInv'
  BY <1>1 DEF SendsInv, AnswersInv
<1>5. QED
  BY <1>2, <1>3, <1>4 DEF SendsInv

\* The send being posted has a larger number than any accepted before.
LEMMA PostedIsLast ==
    ASSUME TypeInv, SendsInv, PostingSend
    PROVE  \A j \in accepted : j < posting.id
<1>1. posts \in Nat /\ accepted \subseteq Nat
  BY DEF TypeInv, TypeOK, SendIds
<1>2. posting.id = posts /\ Issued = posts - 1 /\ \A j \in accepted : j <= Issued
  BY DEF SendsInv, NumbersInv, Issued
<1>3. QED
  BY <1>1, <1>2

LEMMA PostPushKeepsSends ==
    ASSUME TypeInv, SendsInv, PostPush
    PROVE  SendsInv'
<1> DEFINE new == IF posting.kind = "send" THEN {posting.id} ELSE {}
<1>1. /\ UNCHANGED <<pc, command, outbox, posting, posts, outcomes>>
      /\ client = "push" /\ client' \in {"idle", "notify"}
      /\ posts \in Nat /\ accepted \subseteq Nat
  BY DEF PostPush, AfterPush, worker, TypeInv, TypeOK, SendIds
<1>2. /\ InHand' = InHand /\ Answering' = Answering /\ Answered' = Answered /\ Serving' = Serving
      /\ ~PostingSend' /\ Issued' = posts
  BY <1>1 DEF InHand, Answering, Answered, Serving, PostingSend, Issued
<1>3. \A i \in new : i = posts /\ \A j \in accepted : j < i
  BY <1>1 DEF SendsInv, NumbersInv, PostingSend, Issued
<1>4. \A j \in accepted : j <= posts
  BY <1>1 DEF SendsInv, NumbersInv, Issued
<1>5. CASE Len(commands) >= CommandCap
  <2>1. UNCHANGED <<commands, accepted, abandoned>>
    BY <1>5 DEF PostPush
  <2>2. Waiting' = Waiting
    BY <2>1 DEF Waiting
  <2>3. NumbersInv'
    BY <1>1, <1>2, <1>4, <2>1, <2>2 DEF SendsInv, NumbersInv
  <2>4. OrderInv'
    BY <1>1, <1>2, <2>1, <2>2 DEF SendsInv, OrderInv, InOrder, OneAnswer, Before
  <2>5. AnswersInv'
    BY <1>1, <1>2, <2>1, <2>2 DEF SendsInv, AnswersInv
  <2>6. QED
    BY <2>3, <2>4, <2>5 DEF SendsInv
<1>6. CASE ~(Len(commands) >= CommandCap)
  <2>1. /\ commands \in Seq(Commands) /\ posting \in Commands
        /\ commands' = Append(commands, posting) /\ InOrder(commands)
        /\ accepted' = accepted \union new
        /\ abandoned' = IF Serving THEN abandoned ELSE abandoned \union new
    BY <1>6 DEF PostPush, TypeInv, TypeOK, SendsInv, OrderInv
  <2>2. SendsOf(commands) \subseteq accepted
    BY WaitingIsSends DEF SendsInv, NumbersInv
  <2>3. posting.kind = "send" => \A i \in SendsOf(commands) : i < posting.id
    BY <1>3, <2>2
  <2>4. InOrder(commands') /\ SendsOf(commands') = SendsOf(commands) \union new
    BY <2>1, <2>3, SendsAfterPush
  <2>5. Waiting' = Waiting \union new /\ InOrder(commands)'
    BY <2>4, WaitingIsSends DEF Waiting, SendsOf, InOrder
  <2>6. Waiting \union InHand \union Answering \union Answered \subseteq accepted
        /\ abandoned \subseteq accepted
    BY DEF SendsInv, NumbersInv
  <2>7. \A i \in new : i \notin accepted
    BY <1>1, <1>3
  <2> HIDE DEF new
  <2>8. NumbersInv'
    <3>1. \A i \in accepted' : i <= posts
      BY <1>1, <1>3, <1>4, <2>1
    <3>2. QED
      BY <1>2, <2>1, <2>5, <2>6, <3>1 DEF NumbersInv
  <2>9. OrderInv'
    <3>1. Before(InHand, Waiting \union new)
      BY <1>3, <2>6 DEF SendsInv, OrderInv, Before
    <3>2. Before(Answering \union Answered, (Waiting \union new) \union InHand)
      BY <1>3, <2>6 DEF SendsInv, OrderInv, Before
    <3>3. OneAnswer(outbox)'
      BY <1>1 DEF SendsInv, OrderInv, OneAnswer
    <3>4. QED
      BY <1>2, <2>5, <3>1, <3>2, <3>3 DEF OrderInv, Before
  <2>10. AnswersInv'
    BY <1>1, <1>2, <2>1, <2>5, <2>6, <2>7 DEF SendsInv, AnswersInv
  <2>11. QED
    BY <2>8, <2>9, <2>10 DEF SendsInv
<1>7. QED
  BY <1>5, <1>6

LEMMA PostBeginKeepsSends ==
    ASSUME TypeInv, SendsInv, NEW kind \in CommandKinds, PostBegin(kind)
    PROVE  SendsInv'
<1>1. /\ UNCHANGED <<pc, command, commands, outbox, accepted, abandoned, outcomes>>
      /\ client = "idle" /\ posts \in Nat /\ posts' = posts + 1 /\ accepted \subseteq Nat
  BY DEF PostBegin, shared, worker, history, TypeInv, TypeOK, SendIds
<1>2. /\ Waiting' = Waiting /\ InHand' = InHand /\ Answering' = Answering /\ Answered' = Answered
      /\ Serving' = Serving
  BY <1>1 DEF Waiting, InHand, Answering, Answered, Serving
<1>3. PostingSend' => posting'.id = posts'
  BY <1>1 DEF PostBegin, PostingSend
<1>4. Issued = posts /\ Issued' \in {posts, posts + 1}
  BY <1>1 DEF Issued, PostingSend
<1>5. NumbersInv'
  <2>1. \A i \in accepted' : i <= Issued'
    BY <1>1, <1>4 DEF SendsInv, NumbersInv
  <2>2. QED
    BY <1>1, <1>2, <1>3, <2>1 DEF SendsInv, NumbersInv
<1>6. OrderInv'
  BY <1>1, <1>2 DEF SendsInv, OrderInv, InOrder, OneAnswer, Before
<1>7. AnswersInv'
  BY <1>1, <1>2 DEF SendsInv, AnswersInv
<1>8. QED
  BY <1>5, <1>6, <1>7 DEF SendsInv

\* A start throws away what a thread left in the queue.
LEMMA StartKeepsSends ==
    ASSUME TypeInv, SendsInv, NEW on \in BOOLEAN, Start(on)
    PROVE  SendsInv'
<1>1. /\ UNCHANGED <<command, client, posting, posts, accepted, abandoned, outcomes>>
      /\ commands' = <<>> /\ pc \in {"none", "done"} /\ pc' \in {"none", "init"}
      /\ outbox' = outbox \/ outbox' = <<Event("Initializing")>>
  BY DEF Start, history
<1>2. Answering = {} /\ OneAnswer(outbox)
  BY <1>1 DEF SendsInv, OrderInv, AnswersInv, Serving
<1>3. Answering' = {} /\ OneAnswer(outbox)'
  <2>1. "Initializing" \notin OutcomeKinds
    BY DEF OutcomeKinds
  <2>2. AnswersOf(outbox') = {} /\ OneAnswer(outbox')
    BY <1>1, <1>2, <2>1, EventAnswersNothing, NothingAnswered, WaitingIsSends DEF Answering, AnswersOf
  <2>3. QED
    BY <2>2 DEF Answering, AnswersOf, OneAnswer
<1>4. Waiting' = {} /\ InHand' = {} /\ Answered' = Answered /\ InOrder(commands)'
  BY <1>1 DEF Waiting, InHand, Answered, InOrder
<1>5. NumbersInv'
  BY <1>1, <1>3, <1>4 DEF SendsInv, NumbersInv, Issued, PostingSend
<1>6. OrderInv'
  BY <1>3, <1>4 DEF OrderInv, Before
<1>7. AnswersInv'
  BY <1>1, <1>3, <1>4 DEF AnswersInv
<1>8. QED
  BY <1>5, <1>6, <1>7 DEF SendsInv

LEMMA ClientKeepsSends ==
    ASSUME TypeInv, SendsInv, ClientStep \/ ClientCall
    PROVE  SendsInv'
<1>1. CASE StopNotify \/ Join \/ PostNotify \/ ShutdownNotify \/ StopStore \/ ShutdownStore
  <2>1. /\ UNCHANGED <<command, commands, outbox, posting, posts, accepted, abandoned, outcomes>>
        /\ client # "push" /\ client' # "push"
    BY <1>1 DEF StopNotify, Join, PostNotify, ShutdownNotify, StopStore, ShutdownStore, ClientAt,
                history
  <2>2. \/ pc' = pc
        \/ pc = "blocked" /\ pc' = "test"
        \/ pc \in {"none", "done"} /\ pc' = "none"
    BY <1>1 DEF StopNotify, Join, PostNotify, ShutdownNotify, StopStore, ShutdownStore, Notify
  <2>3. PostingSend' = PostingSend
    BY <2>1 DEF PostingSend
  <2>4. QED
    BY <2>1, <2>2, <2>3, QuietCallKeepsSends
<1>2. CASE TryPopEvent
  <2>1. /\ UNCHANGED <<pc, command, commands, outbox, client, posting, posts, accepted, abandoned,
                       outcomes>>
    BY <1>2 DEF TryPopEvent, PopEvent, worker, history
  <2>2. PostingSend' = PostingSend
    BY <2>1 DEF PostingSend
  <2>3. QED
    BY <2>1, <2>2, QuietCallKeepsSends
<1>3. QED
  BY <1>1, <1>2, PostPushKeepsSends, PostBeginKeepsSends, StartKeepsSends DEF ClientStep, ClientCall

LEMMA SendsStep ==
    ASSUME TypeInv, SendsInv, [Next]_vars
    PROVE  SendsInv'
<1>1. CASE UNCHANGED vars
  <2>1. UNCHANGED <<pc, command, commands, outbox, client, posting, posts, accepted, abandoned,
                    outcomes>>
    BY <1>1 DEF vars, shared, worker, caller, history
  <2>2. PostingSend' = PostingSend
    BY <2>1 DEF PostingSend
  <2>3. QED
    BY <2>1, <2>2, QuietCallKeepsSends
<1>2. QED
  BY <1>1, WorkerStepKeepsSends, ClientKeepsSends DEF Next

LEMMA SendsInitially == Init => SendsInv
<1> SUFFICES ASSUME Init PROVE SendsInv
  OBVIOUS
<1>1. /\ commands = <<>> /\ outbox = <<>> /\ pc = "none" /\ client = "idle"
      /\ accepted = {} /\ abandoned = {} /\ outcomes = [i \in SendIds |-> <<>>]
  BY DEF Init
<1>2. Waiting = {} /\ InHand = {} /\ Answering = {} /\ Answered = {} /\ ~Serving
  BY <1>1 DEF Waiting, InHand, Answering, Answered, Serving
<1>3. NumbersInv
  BY <1>1, <1>2 DEF NumbersInv, PostingSend
<1>4. OrderInv
  BY <1>1, <1>2 DEF OrderInv, Before, InOrder, OneAnswer
<1>5. AnswersInv
  BY <1>1, <1>2 DEF AnswersInv
<1>6. QED
  BY <1>3, <1>4, <1>5 DEF SendsInv

LEMMA SendsInvariant == Spec => []SendsInv
<1>1. Init => SendsInv
  BY SendsInitially
<1>2. TypeInv /\ SendsInv /\ [Next]_vars => SendsInv'
  BY SendsStep
<1>3. QED
  BY <1>1, <1>2, TypeInvariant, PTL DEF Spec
-----------------------------------------------------------------------------
(* A command whose wait nobody would end.                                  *)

\* A thread that waits without a timeout has an empty queue, or the caller who
\* filled it is about to notify: the predicate is tested and the wait begun
\* under the mutex that post holds to push.
THEOREM NoCommandIsStranded == Spec => []NoCommandStranded
<1>1. Init => StrandedInv
  BY DEF Init, StrandedInv, NoCommandStranded
<1>2. ASSUME StrandedInv, [Next]_vars PROVE StrandedInv'
  <2> USE DEF StrandedInv, NoCommandStranded, At
  <2>1. CASE TestPredicate
    BY <2>1 DEF TestPredicate, WaitPredicate, Goto, Step, shared
  <2>2. CASE Block
    BY <1>2, <2>2 DEF Block, Goto, Step, shared
  <2>3. CASE PushEvent \/ UNCHANGED vars
    BY <1>2, <2>3 DEF PushEvent, vars, shared, worker, caller
  <2>4. CASE TimeOut \/ SpuriousWakeup \/ CheckStop \/ TryPopCommand \/ Finish
    BY <2>4 DEF TimeOut, SpuriousWakeup, CheckStop, TryPopCommand, Finish, Leave, Goto, Step
  <2>5. CASE Open \/ FinishInitialization \/ ReceiveSlice \/ RestoreReceive \/ Cancel \/ Unwind
    BY <2>5 DEF Open, FinishInitialization, ReceiveSlice, RestoreReceive, Cancel, Unwind, Leave,
                GiveUp, Goto, Step
  <2>6. CASE HandleRetry \/ HandleSetReceive \/ BeginSend
    BY <2>6 DEF HandleRetry, HandleSetReceive, BeginSend, Goto, Step
  <2>7. CASE SuspendReceive \/ Transmit \/ ResumeReceive
    BY <2>7 DEF SuspendReceive, Transmit, ResumeReceive, Complete, FailSend, GiveUp, Goto, Step
  <2>8. CASE PostPush
    BY <1>2, <2>8 DEF PostPush, AfterPush, worker
  <2>9. CASE StopNotify \/ Join \/ PostNotify \/ ShutdownNotify
    BY <1>2, <2>9 DEF StopNotify, Join, PostNotify, ShutdownNotify, ClientAt, Notify
  <2>10. CASE StopStore \/ ShutdownStore \/ TryPopEvent
    BY <1>2, <2>10 DEF StopStore, ShutdownStore, TryPopEvent, PopEvent, ClientAt, worker
  <2>11. ASSUME NEW kind \in CommandKinds, PostBegin(kind) PROVE StrandedInv'
    BY <1>2, <2>11 DEF PostBegin, shared, worker
  <2>12. ASSUME NEW on \in BOOLEAN, Start(on) PROVE StrandedInv'
    BY <2>12 DEF Start
  <2>13. QED
    BY <1>2, <2>1, <2>2, <2>3, <2>4, <2>5, <2>6, <2>7, <2>8, <2>9, <2>10, <2>11, <2>12
       DEF Next, WorkerStep, ClientStep, ClientCall
<1>3. StrandedInv => NoCommandStranded
  BY DEF StrandedInv
<1>4. QED
  BY <1>1, <1>2, <1>3, PTL DEF Spec
-----------------------------------------------------------------------------
(* Each send is answered once, and truthfully.  These two hold of every     *)
(* backend whose startReceive cannot fail on an open device; OneOutcome     *)
(* says which backends these are, and why the condition is needed.          *)

LEMMA AnsweredBeforeTheRest ==
    ASSUME TypeInv, SendsInv
    PROVE  /\ (Waiting \union InHand) \intersect (Answering \union Answered) = {}
           /\ InHand \intersect Waiting = {}
           /\ \A i \in SendIds : i \in InHand => outcomes[i] = <<>>
<1>1. \A i \in accepted : ~(i < i)
  BY DEF TypeInv, TypeOK, SendIds
<1>2. (Waiting \union InHand) \intersect (Answering \union Answered) = {}
  BY <1>1 DEF SendsInv, NumbersInv, OrderInv, Before
<1>3. InHand \intersect Waiting = {}
  BY <1>1 DEF SendsInv, NumbersInv, OrderInv, Before
<1>4. QED
  BY <1>2, <1>3 DEF Answered

\* A step of the thread that answers the send in hand, or nothing, and writes
\* no frame but that of the send in hand.
LEMMA StepKeepsTruth ==
    ASSUME TypeInv, SendsInv, OnceInv, TruthInv, outbox = <<>>,
           NEW l, NEW evs, NEW b, NEW i, Step(l, evs, b, i),
           \A k \in DOMAIN evs : evs[k].kind \in OutcomeKinds =>
               /\ evs[k].id \in InHand
               /\ (evs[k].kind = "TxCompleted") <=> (evs[k].id \in wrote'),
           wrote \subseteq wrote', wrote' \ wrote \subseteq InHand,
           InHand' \subseteq InHand, wrote' \intersect InHand' = {}
    PROVE  OnceInv' /\ TruthInv'
<1>1. /\ outbox' = evs /\ UNCHANGED <<commands, outcomes, accepted>>
      /\ Waiting' = Waiting /\ Answered' = Answered
  BY DEF Step, shared, Waiting, Answered
<1>2. Answering' \subseteq InHand
  BY <1>1 DEF Answering
<1>3. OnceInv'
  BY <1>1, <1>2, AnsweredBeforeTheRest DEF OnceInv
<1>4. wrote' \subseteq accepted' /\ wrote' \intersect (Waiting' \union InHand') = {}
  BY <1>1, AnsweredBeforeTheRest DEF TruthInv, SendsInv, NumbersInv
<1>5. OutcomeTruthful'
  <2>1. SUFFICES ASSUME NEW s \in SendIds, NEW k \in DOMAIN outcomes[s]
                 PROVE  (outcomes[s][k] = "TxCompleted") <=> (s \in wrote')
    BY <1>1 DEF OutcomeTruthful
  <2>2. s \notin InHand
    BY AnsweredBeforeTheRest
  <2>3. QED
    BY <2>2 DEF TruthInv, OutcomeTruthful
<1>6. QED
  BY <1>1, <1>3, <1>4, <1>5 DEF TruthInv

LEMMA QuietStepKeepsTruth ==
    ASSUME TypeInv, SendsInv, OnceInv, TruthInv, outbox = <<>>,
           NEW l, NEW evs, NEW b, NEW i, Step(l, evs, b, i), NoAnswers(evs),
           InHand' \subseteq InHand, wrote' = wrote
    PROVE  OnceInv' /\ TruthInv'
<1>1. wrote' \intersect InHand' = {}
  BY DEF TruthInv
<1>2. \A k \in DOMAIN evs : evs[k].kind \notin OutcomeKinds
  BY DEF NoAnswers
<1>3. QED
  BY <1>1, <1>2, StepKeepsTruth

LEMMA LeaveKeepsTruth ==
    ASSUME TypeInv, SendsInv, OnceInv, TruthInv, outbox = <<>>,
           NEW evs \in Seq(Events), Leave(evs), NoAnswers(evs),
           wrote \subseteq wrote', wrote' \ wrote \subseteq InHand
    PROVE  OnceInv' /\ TruthInv'
<1> DEFINE out == evs \o <<Event("Stopping"), Event("Stopped")>>
<1>1. NoAnswers(out)
  <2>1. <<Event("Stopping"), Event("Stopped")>> \in Seq(Events)
    BY EventTypes DEF EventKinds, StateKinds
  <2>2. QED
    BY <2>1, EventsAnswerNothing, JoinedAnswerNothing DEF OutcomeKinds
<1>2. Step("leave", out, Closed, initialized)
  BY DEF Leave
<1> HIDE DEF out
<1>3. InHand' = {}
  BY <1>2 DEF Step, InHand
<1>4. \A k \in DOMAIN out : out[k].kind \notin OutcomeKinds
  BY <1>1 DEF NoAnswers
<1>5. QED
  BY <1>2, <1>3, <1>4, StepKeepsTruth

LEMMA FailSendKeepsTruth ==
    ASSUME TypeInv, SendsInv, OnceInv, TruthInv, outbox = <<>>, FailSend, InHand = {command.id}
    PROVE  OnceInv' /\ TruthInv'
<1>1. ASSUME NEW l, NEW evs, NEW b, NEW i, Step(l, evs, b, i), Same, l \in {"restore", "top"},
             evs \in {FailureOf(command.id), Append(FailureOf(command.id), Event("Error"))}
      PROVE  OnceInv' /\ TruthInv'
  <2>1. InHand' = {} /\ wrote' = wrote /\ command.id \notin wrote
    BY <1>1 DEF Step, Same, InHand, TruthInv
  <2>2. \A k \in DOMAIN evs : evs[k].kind \in OutcomeKinds => evs[k] = SendEvent("TxFailed", command.id)
    <3> DEFINE f == SendEvent("TxFailed", command.id)
               g == Event("Error")
               s == <<f>>
    <3>1. g.kind \notin OutcomeKinds
      BY DEF Event, OutcomeKinds
    <3> HIDE DEF f, g
    <3>2. DOMAIN s = {1} /\ s[1] = f
      BY OneAndTwo
    <3>3. DOMAIN Append(s, g) = {1, 2} /\ Append(s, g)[1] = f /\ Append(s, g)[2] = g
      BY OneAndTwo
    <3> HIDE DEF s
    <3>4. evs \in {s, Append(s, g)}
      BY <1>1 DEF FailureOf, s, f, g
    <3>5. QED
      BY <3>1, <3>2, <3>3, <3>4 DEF f
  <2>3. \A k \in DOMAIN evs : evs[k].kind \in OutcomeKinds =>
            evs[k].id = command.id /\ evs[k].kind # "TxCompleted"
    BY <2>2 DEF SendEvent
  <2>4. \A k \in DOMAIN evs : evs[k].kind \in OutcomeKinds =>
            /\ evs[k].id \in InHand
            /\ (evs[k].kind = "TxCompleted") <=> (evs[k].id \in wrote')
    BY <2>1, <2>3
  <2>5. /\ wrote \subseteq wrote' /\ wrote' \ wrote \subseteq InHand
        /\ InHand' \subseteq InHand /\ wrote' \intersect InHand' = {}
    BY <2>1
  <2>6. Step(l, evs, b, i)
    BY <1>1
  <2>7. QED
    BY <2>4, <2>5, <2>6, StepKeepsTruth
<1>2. CASE Goto("restore", FailureOf(command.id), backend)
  BY <1>1, <1>2 DEF Goto
<1>3. CASE GiveUp(FailureOf(command.id))
  BY <1>1, <1>3 DEF GiveUp
<1>4. QED
  BY <1>2, <1>3 DEF FailSend
\* An answer is pushed.
LEMMA PushKeepsTruth ==
    ASSUME TypeInv, SendsInv, OnceInv, TruthInv, PushEvent
    PROVE  OnceInv' /\ TruthInv'
<1> DEFINE e == Head(outbox)
           t == Tail(outbox)
<1>1. /\ outbox # <<>> /\ outbox' = t /\ outbox \in Seq(Events)
      /\ UNCHANGED <<commands, pc, command, accepted, wrote>>
      /\ outcomes' = IF e.kind \in OutcomeKinds
                     THEN [outcomes EXCEPT ![e.id] = Append(@, e.kind)] ELSE outcomes
      /\ outcomes \in [SendIds -> Seq(OutcomeKinds)]
  BY DEF PushEvent, TypeInv, TypeOK
<1>2. /\ 1 \in DOMAIN outbox /\ e = outbox[1]
      /\ \A k \in DOMAIN t : k + 1 \in DOMAIN outbox /\ t[k] = outbox[k + 1]
  BY <1>1
<1> HIDE DEF e, t
<1>3. Waiting' = Waiting /\ InHand' = InHand
  BY <1>1 DEF Waiting, InHand
<1>4. \A k \in DOMAIN t : t[k].kind \in OutcomeKinds =>
          ((t[k].kind = "TxCompleted") <=> (t[k].id \in wrote))
  BY <1>2 DEF TruthInv
<1>5. CASE e.kind \notin OutcomeKinds
  <2>1. outcomes' = outcomes /\ Answering' = Answering /\ Answered' = Answered
    BY <1>1, <1>5, PushAnswers DEF SendsInv, OrderInv, e
  <2>2. QED
    BY <1>1, <1>3, <1>4, <2>1 DEF OnceInv, TruthInv, OutcomeTruthful
<1>6. CASE e.kind \in OutcomeKinds
  <2>1. Answering = {e.id} /\ Answering' = {}
    BY <1>6, PushAnswers DEF SendsInv, OrderInv, e
  <2>2. e.id \in SendIds
    BY <2>1 DEF SendsInv, NumbersInv, TypeInv, TypeOK
  <2>3. outcomes[e.id] = <<>>
    BY <2>1, <2>2 DEF OnceInv, Answered
  <2>4. outcomes'[e.id] = <<e.kind>> /\ \A i \in SendIds \ {e.id} : outcomes'[i] = outcomes[i]
    BY <1>1, <1>6, <2>2, <2>3
  <2>5. Len(outcomes'[e.id]) <= 1 /\ DOMAIN outcomes'[e.id] = {1} /\ outcomes'[e.id][1] = e.kind
    BY <2>4
  <2>6. OnceInv'
    <3>1. ASSUME NEW i \in SendIds PROVE Len(outcomes'[i]) <= 1
      <4>1. CASE i = e.id
        BY <2>5, <4>1
      <4>2. CASE i # e.id
        BY <2>4, <4>2 DEF OnceInv
      <4>3. QED
        BY <4>1, <4>2
    <3>2. QED
      BY <2>1, <3>1 DEF OnceInv
  <2>7. (e.kind = "TxCompleted") <=> (e.id \in wrote)
    BY <1>2, <1>6 DEF TruthInv
  <2>8. OutcomeTruthful'
    BY <1>1, <2>4, <2>5, <2>7 DEF TruthInv, OutcomeTruthful
  <2>9. QED
    BY <1>1, <1>3, <1>4, <2>6, <2>8 DEF TruthInv
<1>7. QED
  BY <1>5, <1>6

LEMMA WorkerStepKeepsTruth ==
    ASSUME TypeInv, SendsInv, OnceInv, TruthInv, "startReceive" \notin Faults,
           WorkerStep \/ SpuriousWakeup
    PROVE  OnceInv' /\ TruthInv'
<1> USE DEF At
<1>1. NoAnswers(<<>>) /\ <<>> \in Seq(Events)
  BY EmptyAnswersNothing
<1>2. \A k : k \notin OutcomeKinds =>
          NoAnswers(<<Event(k)>>) /\ NoAnswers(Append(<<Event(k)>>, Event("Error")))
  <2>1. "Error" \notin OutcomeKinds
    BY DEF OutcomeKinds
  <2>2. QED
    BY <2>1, EventAnswersNothing, EventsAnswerNothing
<1>3. /\ NoAnswers(<<Event("OtherError"), Event("Error")>>)
      /\ <<Event("OtherError"), Event("Error")>> \in Seq(Events)
  <2>1. "OtherError" \notin OutcomeKinds /\ "Error" \notin OutcomeKinds
    BY DEF OutcomeKinds
  <2>2. NoAnswers(<<Event("OtherError"), Event("Error")>>)
    BY <2>1, EventsAnswerNothing
  <2>3. Event("OtherError") \in Events /\ Event("Error") \in Events
    BY EventTypes DEF EventKinds, StateKinds
  <2>4. QED
    BY <2>2, <2>3
<1>4. ~Throws("startReceive")
  BY DEF Throws
<1>5. pc' \notin {"handle", "stopReceive", "transmit"} => InHand' = {}
  BY DEF InHand
<1>6. ASSUME NEW l, NEW evs, NEW b, NEW i, Step(l, evs, b, i), outbox = <<>>, wrote' = wrote,
             l \notin {"handle", "stopReceive", "transmit"}, NoAnswers(evs)
      PROVE  OnceInv' /\ TruthInv'
  BY <1>5, <1>6, QuietStepKeepsTruth DEF Step
<1>7. CASE PushEvent
  BY <1>7, PushKeepsTruth
<1>8. CASE Open \/ FinishInitialization
  <2>1. \A k \in {"Initialized", "InitializeError", "Receiving", "Idle"} : k \notin OutcomeKinds
    BY DEF OutcomeKinds
  <2>2. QED
    BY <1>2, <1>4, <1>6, <1>8, <2>1 DEF Open, FinishInitialization, Goto, GiveUp, Same
<1>9. CASE CheckStop
  BY <1>1, <1>6, <1>9, LeaveKeepsTruth DEF CheckStop, Goto, Same
<1>10. CASE TryPopCommand
  <2>1. Answering' = Answering /\ Answered' = Answered
    BY <1>10, PopTakes DEF Answering, Answered
  <2>2. QED
    BY <1>10, <2>1, PopTakes DEF OnceInv, TruthInv, OutcomeTruthful
<1>11. CASE TestPredicate \/ Block \/ TimeOut \/ SpuriousWakeup
  BY <1>1, <1>6, <1>11 DEF TestPredicate, Block, TimeOut, SpuriousWakeup, Goto, Same
<1>12. CASE ReceiveSlice
  <2>1. \A k \in {"RxPacket", "OtherError"} : k \notin OutcomeKinds
    BY DEF OutcomeKinds
  <2>2. QED
    BY <1>1, <1>2, <1>6, <1>12, <2>1 DEF ReceiveSlice, Goto, GiveUp, Same
<1>13. CASE HandleRetry \/ HandleSetReceive
  <2>1. \A k \in {"Initializing", "Receiving", "Idle"} : k \notin OutcomeKinds
    BY DEF OutcomeKinds
  <2>2. QED
    BY <1>1, <1>2, <1>3, <1>6, <1>13, <2>1 DEF HandleRetry, HandleSetReceive, Goto, Same
<1>14. CASE BeginSend
  <2>1. outbox = <<>> /\ InHand = {command.id}
    BY <1>14, InHandIs DEF BeginSend
  <2>2. CASE initialized
    <3>1. NoAnswers(<<SendEvent("TxStarted", command.id), Event("Sending")>>)
      BY DEF NoAnswers, SendEvent, Event, OutcomeKinds
    <3>2. PICK l \in {"stopReceive", "transmit"} :
              Goto(l, <<SendEvent("TxStarted", command.id), Event("Sending")>>, backend)
      BY <1>14, <2>2 DEF BeginSend
    <3>3. InHand' \subseteq InHand
      BY <2>1, <3>2 DEF Goto, Step, InHand
    <3>4. QED
      BY <2>1, <3>1, <3>2, <3>3, QuietStepKeepsTruth DEF Goto, Same
  <2>3. CASE ~initialized
    <3> DEFINE evs == <<SendEvent("TxFailed", command.id)>>
    <3>1. Step("top", evs, backend, initialized) /\ wrote' = wrote
      BY <1>14, <2>3 DEF BeginSend, FailureOf, Goto, Same
    <3>2. \A k \in DOMAIN evs : evs[k].id = command.id /\ evs[k].kind # "TxCompleted"
      BY DEF SendEvent
    <3> HIDE DEF evs
    <3>3. InHand' = {} /\ command.id \notin wrote
      BY <1>5, <2>1, <3>1 DEF Step, TruthInv
    <3>4. QED
      BY <2>1, <3>1, <3>2, <3>3, StepKeepsTruth
  <2>4. QED
    BY <2>2, <2>3
<1>15. CASE SuspendReceive
  <2>1. outbox = <<>> /\ InHand = {command.id}
    BY <1>15, InHandIs DEF SuspendReceive
  <2>2. CASE Goto("transmit", <<>>, Opened)
    <3>1. InHand' \subseteq InHand
      BY <2>1, <2>2 DEF Goto, Step, InHand
    <3>2. QED
      BY <1>1, <2>1, <2>2, <3>1, QuietStepKeepsTruth DEF Goto, Same
  <2>3. QED
    BY <1>15, <2>1, <2>2, FailSendKeepsTruth DEF SuspendReceive
<1>16. CASE Transmit
  <2>1. outbox = <<>> /\ InHand = {command.id}
    BY <1>16, InHandIs DEF Transmit
  <2>2. CASE Complete
    <3> DEFINE evs == <<SendEvent("TxCompleted", command.id)>>
    <3>1. /\ Step("resume", evs, backend, initialized)
          /\ wrote' = wrote \union {command.id}
      BY <2>2 DEF Complete
    <3>2. \A k \in DOMAIN evs : evs[k].id = command.id /\ evs[k].kind = "TxCompleted"
      BY DEF SendEvent
    <3> HIDE DEF evs
    <3>3. InHand' = {}
      BY <1>5, <3>1 DEF Step
    <3>4. QED
      BY <2>1, <3>1, <3>2, <3>3, StepKeepsTruth
  <2>3. QED
    BY <1>16, <2>1, <2>2, FailSendKeepsTruth DEF Transmit
<1>17. CASE ResumeReceive \/ RestoreReceive
  <2>1. \A k \in {"Receiving", "Idle"} : k \notin OutcomeKinds
    BY DEF OutcomeKinds
  <2>2. QED
    BY <1>2, <1>4, <1>6, <1>17, <2>1 DEF ResumeReceive, RestoreReceive, RestoredReport, Goto, Same
<1>18. CASE Cancel
  <2>1. wrote \subseteq wrote' /\ wrote' \ wrote \subseteq InHand
    BY <1>18, InHandIs DEF Cancel
  <2>2. QED
    BY <1>1, <1>18, <2>1, LeaveKeepsTruth DEF Cancel
<1>19. CASE Unwind
  BY <1>1, <1>3, <1>19, LeaveKeepsTruth DEF Unwind
<1>20. CASE Finish
  <2>1. /\ Answering' = Answering /\ Answered' = Answered /\ Waiting' = Waiting /\ InHand' = {}
        /\ UNCHANGED <<outbox, outcomes, accepted, wrote>>
    BY <1>20 DEF Finish, history, Answering, Answered, Waiting, InHand
  <2>2. QED
    BY <2>1 DEF OnceInv, TruthInv, OutcomeTruthful
<1>21. QED
  BY <1>7, <1>8, <1>9, <1>10, <1>11, <1>12, <1>13, <1>14, <1>15, <1>16, <1>17, <1>18, <1>19, <1>20
     DEF WorkerStep

LEMMA ClientKeepsTruth ==
    ASSUME TypeInv, SendsInv, OnceInv, TruthInv, ClientStep \/ ClientCall \/ UNCHANGED vars
    PROVE  OnceInv' /\ TruthInv'
<1>1. UNCHANGED <<outcomes, wrote, command>> /\ Answered' = Answered
  BY DEF ClientStep, ClientCall, StopNotify, Join, PostPush, PostNotify, ShutdownNotify, StopStore,
         ShutdownStore, TryPopEvent, PopEvent, PostBegin, Start, ClientAt, vars, worker, history,
         Answered
<1>2. InHand' = InHand
  <2>1. \/ pc' = pc
        \/ pc = "blocked" /\ pc' = "test"
        \/ pc \in {"none", "done"} /\ pc' \in {"none", "init"}
    BY DEF ClientStep, ClientCall, StopNotify, Join, PostPush, PostNotify, ShutdownNotify, StopStore,
           ShutdownStore, TryPopEvent, PopEvent, PostBegin, Start, ClientAt, Notify, vars, worker
  <2>2. QED
    BY <1>1, <2>1 DEF InHand
\* Nothing is added to the outbox that answers a send, and what is added to the
\* queue was not written, not having been accepted.
<1>3. ASSUME outbox' = outbox, Waiting' \subseteq Waiting \/ Waiting' = {},
             accepted \subseteq accepted'
      PROVE  OnceInv' /\ TruthInv'
  <2>1. Answering' = Answering
    BY <1>3 DEF Answering
  <2>2. QED
    BY <1>1, <1>2, <1>3, <2>1 DEF OnceInv, TruthInv, OutcomeTruthful
<1>4. CASE PostPush
  <2> DEFINE new == IF posting.kind = "send" THEN {posting.id} ELSE {}
  <2>1. client = "push" /\ outbox' = outbox /\ commands \in Seq(Commands) /\ posting \in Commands
    BY <1>4 DEF PostPush, worker, TypeInv, TypeOK
  <2>2. CASE Len(commands) >= CommandCap
    <3>1. UNCHANGED <<commands, accepted>>
      BY <1>4, <2>2 DEF PostPush
    <3>2. QED
      BY <1>3, <2>1, <3>1 DEF Waiting
  <2>3. CASE ~(Len(commands) >= CommandCap)
    <3>1. commands' = Append(commands, posting) /\ accepted' = accepted \union new
      BY <1>4, <2>3 DEF PostPush
    <3>2. \A i \in new : i \notin accepted
      <4>1. \A j \in accepted : ~(j < j)
        BY DEF TypeInv, TypeOK, SendIds
      <4>2. QED
        BY <2>1, <4>1, PostedIsLast DEF PostingSend
    <3>3. Waiting' = Waiting \union new
      <4>1. SendsOf(commands) \subseteq accepted /\ InOrder(commands)
        BY WaitingIsSends DEF SendsInv, NumbersInv, OrderInv
      <4>2. posting.kind = "send" => \A i \in SendsOf(commands) : i < posting.id
        BY <2>1, <4>1, PostedIsLast DEF PostingSend
      <4>3. SendsOf(commands') = SendsOf(commands) \union new
        BY <2>1, <3>1, <4>1, <4>2, SendsAfterPush
      <4>4. QED
        BY <4>3, WaitingIsSends DEF Waiting, SendsOf
    <3> HIDE DEF new
    <3>4. wrote' \intersect (Waiting' \union InHand') = {} /\ wrote' \subseteq accepted'
      BY <1>1, <1>2, <3>1, <3>2, <3>3 DEF TruthInv
    <3>5. Answering' = Answering
      BY <2>1 DEF Answering
    <3>6. QED
      BY <1>1, <2>1, <3>4, <3>5 DEF OnceInv, TruthInv, OutcomeTruthful
  <2>4. QED
    BY <2>2, <2>3
<1>5. CASE \E on \in BOOLEAN : Start(on)
  <2>1. /\ Waiting' = {} /\ UNCHANGED <<accepted>>
        /\ outbox' = outbox \/ outbox' = <<Event("Initializing")>>
    BY <1>5 DEF Start, history, Waiting
  <2>2. CASE outbox' = outbox
    BY <1>3, <2>1, <2>2
  <2>3. CASE outbox' = <<Event("Initializing")>>
    <3>1. "Initializing" \notin OutcomeKinds
      BY DEF OutcomeKinds
    <3>2. NoAnswers(<<Event("Initializing")>>)
      BY <3>1, EventAnswersNothing
    <3>3. \A k \in DOMAIN outbox' : outbox'[k].kind \notin OutcomeKinds
      BY <2>3, <3>2 DEF NoAnswers
    <3>4. Answering' = {}
      BY <3>3 DEF Answering
    <3>5. QED
      BY <1>1, <1>2, <2>1, <3>3, <3>4 DEF OnceInv, TruthInv, OutcomeTruthful
  <2>4. QED
    BY <2>1, <2>2, <2>3
<1>6. CASE ~PostPush /\ ~(\E on \in BOOLEAN : Start(on))
  <2>1. UNCHANGED <<commands, outbox, accepted>>
    BY <1>6 DEF ClientStep, ClientCall, StopNotify, Join, PostNotify, ShutdownNotify, StopStore,
                ShutdownStore, TryPopEvent, PopEvent, PostBegin, ClientAt, vars, shared, worker,
                history
  <2>2. QED
    BY <1>3, <2>1 DEF Waiting
<1>7. QED
  BY <1>4, <1>5, <1>6

LEMMA TruthInvariant ==
    ASSUME "startReceive" \notin Faults
    PROVE  Spec => [](OnceInv /\ TruthInv)
<1>1. Init => OnceInv /\ TruthInv
  <2> SUFFICES ASSUME Init PROVE OnceInv /\ TruthInv
    OBVIOUS
  <2>1. outcomes = [i \in SendIds |-> <<>>] /\ outbox = <<>> /\ wrote = {}
    BY DEF Init
  <2>2. Answering = {} /\ Answered = {}
    BY <2>1 DEF Answering, Answered
  <2>3. \A i \in SendIds : Len(outcomes[i]) = 0 /\ DOMAIN outcomes[i] = {}
    BY <2>1
  <2>4. QED
    BY <2>1, <2>2, <2>3 DEF OnceInv, TruthInv, OutcomeTruthful
<1>2. TypeInv /\ SendsInv /\ (OnceInv /\ TruthInv) /\ [Next]_vars => (OnceInv /\ TruthInv)'
  BY WorkerStepKeepsTruth, ClientKeepsTruth DEF Next
<1>3. QED
  BY <1>1, <1>2, TypeInvariant, SendsInvariant, PTL DEF Spec

\* An accepted send is answered at most once: it is never reported both as
\* completed and as failed, however its three backend calls fail and whatever is
\* posted, stopped and started meanwhile.
THEOREM EachSendHasOneOutcome ==
    ASSUME "startReceive" \notin Faults
    PROVE  Spec => []OneOutcome
<1>1. TypeInv /\ SendsInv /\ OnceInv /\ TruthInv => OneOutcome
  BY AnsweredBeforeTheRest DEF OnceInv, OneOutcome
<1>2. QED
  BY <1>1, TypeInvariant, SendsInvariant, TruthInvariant, PTL

\* A send is reported as completed only when its whole frame was written, and as
\* failed only when it was not: a stop may hide what was written, never bend it.
THEOREM OutcomesAreTruthful ==
    ASSUME "startReceive" \notin Faults
    PROVE  Spec => []OutcomeTruthful
<1>1. OnceInv /\ TruthInv => OutcomeTruthful
  BY DEF TruthInv
<1>2. QED
  BY <1>1, TruthInvariant, PTL
-----------------------------------------------------------------------------
(* The worker implements SendService.  A send is accepted when post pushes  *)
(* it, answered when its outcome is pushed, and abandoned when its thread   *)
(* leaves its loop; every other step of either thread is a stutter.         *)

LEMMA StatusOfSends ==
    ASSUME TypeInv, SendsInv
    PROVE  /\ Service!WaitingSends = (accepted \ abandoned) \ Answered
           /\ \A i \in SendIds : sendStatus[i] = "new" <=> i \notin accepted
<1>1. Answered \subseteq accepted /\ abandoned \subseteq accepted /\ accepted \subseteq SendIds
  BY DEF SendsInv, NumbersInv, TypeInv, TypeOK
<1>2. ASSUME NEW i \in SendIds
      PROVE  /\ sendStatus[i] = "waiting" <=> i \in (accepted \ abandoned) \ Answered
             /\ sendStatus[i] = "new" <=> i \notin accepted
  BY <1>1 DEF sendStatus
<1>3. QED
  BY <1>1, <1>2 DEF Service!WaitingSends

\* What only the history of the sends decides stays as it is with that history.
LEMMA SameStatus ==
    ASSUME UNCHANGED <<accepted, abandoned, outcomes>>
    PROVE  sendStatus' = sendStatus
<1>1. Answered' = Answered
  BY DEF Answered
<1>2. QED
  BY <1>1 DEF sendStatus

LEMMA LeaveAbandons ==
    ASSUME TypeInv, SendsInv, UNCHANGED <<accepted, outcomes>>, abandoned' = accepted \ Answered
    PROVE  [Service!Next]_sendStatus
<1>1. Answered' = Answered /\ abandoned \subseteq accepted /\ Answered \subseteq accepted
      /\ accepted \subseteq SendIds
  BY DEF Answered, SendsInv, NumbersInv, TypeInv, TypeOK
<1>2. Service!WaitingSends = (accepted \ abandoned) \ Answered
  BY StatusOfSends
<1>3. ASSUME NEW i \in SendIds
      PROVE  sendStatus'[i] = IF i \in Service!WaitingSends THEN "abandoned" ELSE sendStatus[i]
  BY <1>1, <1>2 DEF sendStatus
<1>4. sendStatus' = [i \in SendIds |->
                        IF i \in Service!WaitingSends THEN "abandoned" ELSE sendStatus[i]]
  BY <1>3 DEF sendStatus
<1>5. CASE Service!WaitingSends # {}
  BY <1>4, <1>5 DEF Service!Next, Service!Abandon
<1>6. CASE Service!WaitingSends = {}
  <2>1. sendStatus' = sendStatus
    BY <1>4, <1>6 DEF sendStatus
  <2>2. QED
    BY <2>1
<1>7. QED
  BY <1>5, <1>6

LEMMA PushAccepts ==
    ASSUME TypeInv, SendsInv, PostPush
    PROVE  [Service!Next]_sendStatus
<1> DEFINE i == posting.id
<1>1. /\ outcomes' = outcomes /\ Answered' = Answered /\ client = "push"
      /\ accepted \subseteq SendIds /\ abandoned \subseteq accepted /\ Answered \subseteq accepted
  BY DEF PostPush, Answered, TypeInv, TypeOK, SendsInv, NumbersInv
<1>2. CASE UNCHANGED <<accepted, abandoned>>
  BY <1>1, <1>2, SameStatus
<1>3. CASE ~(UNCHANGED <<accepted, abandoned>>)
  <2>1. /\ posting.kind = "send" /\ i \in SendIds
        /\ accepted' = accepted \union {i}
        /\ abandoned' = IF Serving THEN abandoned ELSE abandoned \union {i}
    BY <1>3 DEF PostPush, TypeInv, GoodCommands
  <2>2. \A j \in accepted : j < i
    BY <1>1, <2>1, PostedIsLast DEF PostingSend
  <2> HIDE DEF i
  <2>3. i \notin accepted /\ \A j \in SendIds : j > i => j \notin accepted
    BY <1>1, <2>1, <2>2 DEF SendIds
  <2>4. sendStatus[i] = "new" /\ \A j \in SendIds : j > i => sendStatus[j] = "new"
    BY <2>1, <2>3, StatusOfSends
  <2> DEFINE s == IF Serving THEN "waiting" ELSE "abandoned"
  <2>5. ASSUME NEW j \in SendIds
        PROVE  sendStatus'[j] = IF j = i THEN s ELSE sendStatus[j]
    BY <1>1, <2>1, <2>3 DEF sendStatus
  <2>6. sendStatus' = [sendStatus EXCEPT ![i] = s]
    BY <2>5 DEF sendStatus
  <2>7. s \in {"waiting", "abandoned"}
    OBVIOUS
  <2> HIDE DEF s
  <2>8. Service!Accept(i)
    BY <2>4, <2>6, <2>7 DEF Service!Accept
  <2>9. QED
    BY <2>1, <2>8 DEF Service!Next
<1>4. QED
  BY <1>2, <1>3

\* The outcome pushed is that of the oldest waiting send, or the second one of a
\* send answered before.
LEMMA PushAnswersOldest ==
    ASSUME TypeInv, SendsInv, HeldInv, PushEvent
    PROVE  [Service!Next]_sendStatus
<1> DEFINE e == Head(outbox)
<1>1. /\ UNCHANGED <<accepted, abandoned>>
      /\ outcomes' = IF e.kind \in OutcomeKinds
                     THEN [outcomes EXCEPT ![e.id] = Append(@, e.kind)] ELSE outcomes
      /\ outcomes \in [SendIds -> Seq(OutcomeKinds)]
      /\ accepted \subseteq SendIds
  BY DEF PushEvent, TypeInv, TypeOK
<1>2. e.kind \in OutcomeKinds =>
          Answering = {e.id} /\ (e.id \in SendIds => Answered' = Answered \union {e.id})
  BY PushAnswers DEF SendsInv, OrderInv
<1> HIDE DEF e
<1>3. CASE e.kind \notin OutcomeKinds
  BY <1>1, <1>3, SameStatus
<1>4. CASE e.kind \in OutcomeKinds
  <2> DEFINE i == e.id
             s == IF e.kind = "TxCompleted" THEN "sent" ELSE "failed"
  <2>1. Answering = {i} /\ i \in accepted /\ i \in SendIds /\ Answered' = Answered \union {i}
    BY <1>1, <1>2, <1>4 DEF SendsInv, NumbersInv
  <2>2. /\ outcomes'[i] = Append(outcomes[i], e.kind) /\ outcomes[i] \in Seq(OutcomeKinds)
        /\ \A j \in SendIds : j # i => outcomes'[j] = outcomes[j]
    BY <1>1, <1>4, <2>1
  <2> HIDE DEF i
  <2>3. CASE i \in Answered
    <3>1. outcomes[i] # <<>>
      BY <2>3 DEF Answered
    <3>2. outcomes'[i][1] = outcomes[i][1]
      BY <1>4, <2>2, <3>1
    <3>3. \A j \in SendIds : sendStatus'[j] = sendStatus[j]
      BY <1>1, <2>1, <2>2, <2>3, <3>2 DEF sendStatus
    <3>4. sendStatus' = sendStatus
      BY <3>3 DEF sendStatus
    <3>5. QED
      BY <3>4
  <2>4. CASE i \notin Answered
    <3>1. outcomes[i] = <<>>
      BY <2>1, <2>4 DEF Answered
    <3>2. outcomes'[i] = <<e.kind>>
      BY <2>2, <3>1
    <3>3. outcomes'[i][1] = e.kind
      BY <3>2
    <3>4. Serving /\ i \notin abandoned
      BY <2>1, <2>4 DEF SendsInv, AnswersInv
    <3>5. i \in Service!WaitingSends
      BY <2>1, <2>4, <3>4, StatusOfSends
    <3>6. \A j \in Service!WaitingSends : i <= j
      <4>1. ASSUME NEW j \in Service!WaitingSends PROVE i <= j
        <5>1. j \in accepted /\ j \notin abandoned /\ j \notin Answered
          BY StatusOfSends
        <5>2. j \in Waiting \union InHand \union Answering
          BY <3>4, <5>1 DEF HeldInv, Held
        <5>3. j = i \/ i < j
          BY <2>1, <5>2 DEF SendsInv, OrderInv, Before
        <5>4. QED
          BY <1>1, <2>1, <5>1, <5>3 DEF SendIds
      <4>2. QED
        BY <4>1
    <3>7. ASSUME NEW j \in SendIds
          PROVE  sendStatus'[j] = IF j = i THEN s ELSE sendStatus[j]
      BY <1>1, <2>1, <2>2, <3>3 DEF sendStatus
    <3>8. sendStatus' = [sendStatus EXCEPT ![i] = s]
      BY <3>7 DEF sendStatus
    <3>9. s \in {"sent", "failed"}
      OBVIOUS
    <3> HIDE DEF s
    <3>10. Service!Answer(i)
      BY <3>5, <3>6, <3>8, <3>9 DEF Service!Answer
    <3>11. QED
      BY <2>1, <3>10 DEF Service!Next
  <2>5. QED
    BY <2>3, <2>4
<1>5. QED
  BY <1>3, <1>4

LEMMA StepImplementsService ==
    ASSUME TypeInv, SendsInv, HeldInv, [Next]_vars
    PROVE  [Service!Next]_sendStatus
<1>1. ASSUME NEW l, NEW evs, NEW b, NEW i, Step(l, evs, b, i)
      PROVE  [Service!Next]_sendStatus
  <2>1. UNCHANGED <<accepted, outcomes>>
        /\ (abandoned' = abandoned \/ abandoned' = accepted \ Answered)
    BY <1>1 DEF Step
  <2>2. QED
    BY <2>1, SameStatus, LeaveAbandons
<1>2. CASE PushEvent
  BY <1>2, PushAnswersOldest
<1>3. CASE Open \/ FinishInitialization \/ CheckStop \/ TestPredicate \/ Block \/ TimeOut
           \/ SpuriousWakeup \/ ReceiveSlice
  BY <1>1, <1>3 DEF Open, FinishInitialization, CheckStop, TestPredicate, Block, TimeOut,
                    SpuriousWakeup, ReceiveSlice, Goto, GiveUp, Leave
<1>4. CASE HandleRetry \/ HandleSetReceive \/ BeginSend \/ SuspendReceive \/ Transmit
           \/ ResumeReceive \/ RestoreReceive \/ Cancel \/ Unwind
  BY <1>1, <1>4 DEF HandleRetry, HandleSetReceive, BeginSend, SuspendReceive, Transmit,
                    ResumeReceive, RestoreReceive, Cancel, Unwind, Complete, FailSend,
                    Goto, GiveUp, Leave
<1>5. CASE PostPush
  BY <1>5, PushAccepts
<1>6. CASE \/ TryPopCommand \/ Finish \/ StopNotify \/ Join \/ PostNotify \/ ShutdownNotify
           \/ ClientCall \/ UNCHANGED vars
  <2>1. UNCHANGED <<accepted, abandoned, outcomes>>
    BY <1>6 DEF TryPopCommand, Finish, StopNotify, Join, PostNotify, ShutdownNotify, ClientCall,
                Start, StopStore, ShutdownStore, TryPopEvent, PopEvent, PostBegin, ClientAt,
                vars, history
  <2>2. QED
    BY <2>1, SameStatus
<1>7. QED
  BY <1>2, <1>3, <1>4, <1>5, <1>6 DEF Next, WorkerStep, ClientStep

\* The worker implements the service of its callers: an accepted send is
\* answered at most once, the sends are answered in the order of their
\* acceptance, and they are abandoned only all together.
THEOREM WorkerImplementsSendService == Spec => ImplementsSendService
<1>1. Init => Service!Init
  BY DEF Init, Service!Init, sendStatus, Answered
<1>2. TypeInv /\ SendsInv /\ HeldInv /\ [Next]_vars => [Service!Next]_sendStatus
  BY StepImplementsService
<1>3. Init => HeldInv
  BY DEF Init, HeldInv
<1>4. TypeInv /\ HeldInv /\ [Next]_vars => HeldInv'
  BY HeldStep
<1>5. QED
  BY <1>1, <1>2, <1>3, <1>4, TypeInvariant, SendsInvariant, PTL
     DEF Spec, ImplementsSendService, Service!Spec
-----------------------------------------------------------------------------
(* What a caller of the worker may rely on from one step to the next.       *)

Unanswered == Waiting \union InHand \union Answering

LEMMA WorkerOnlyTakes ==
    ASSUME TypeInv, SendsInv, WorkerStep \/ SpuriousWakeup
    PROVE  /\ accepted' = accepted /\ Waiting' \subseteq Waiting /\ Answered \subseteq Answered'
           /\ Serving' => Serving /\ abandoned' = abandoned
<1> USE DEF At, Serving
<1>1. commands' = commands => Waiting' = Waiting
  BY DEF Waiting
<1>2. outcomes' = outcomes => Answered' = Answered
  BY DEF Answered
<1>3. ASSUME NEW l, NEW evs, NEW b, NEW i, Step(l, evs, b, i), Serving
      PROVE  /\ accepted' = accepted /\ Waiting' \subseteq Waiting /\ Answered \subseteq Answered'
             /\ Serving' => Serving /\ abandoned' = abandoned
  BY <1>1, <1>2, <1>3 DEF Step, shared
<1>4. CASE PushEvent
  <2>1. UNCHANGED <<commands, pc, accepted, abandoned>>
    BY <1>4 DEF PushEvent
  <2>2. Answering \subseteq SendIds
    BY DEF SendsInv, NumbersInv, TypeInv, TypeOK
  <2>3. Answered \subseteq Answered'
    BY <1>4, <2>2, PushAnswers DEF SendsInv, OrderInv
  <2>4. QED
    BY <1>1, <2>1, <2>3
<1>5. CASE TryPopCommand
  BY <1>2, <1>5, PopTakes
<1>6. CASE Finish
  BY <1>1, <1>2, <1>6 DEF Finish, history
<1>7. CASE Open \/ FinishInitialization \/ CheckStop \/ TestPredicate \/ Block \/ TimeOut
           \/ SpuriousWakeup \/ ReceiveSlice
  BY <1>3, <1>7 DEF Open, FinishInitialization, CheckStop, TestPredicate, Block, TimeOut,
                    SpuriousWakeup, ReceiveSlice, Goto, GiveUp, Leave
<1>8. CASE HandleRetry \/ HandleSetReceive \/ BeginSend \/ SuspendReceive \/ Transmit
           \/ ResumeReceive \/ RestoreReceive \/ Cancel \/ Unwind
  BY <1>3, <1>8 DEF HandleRetry, HandleSetReceive, BeginSend, SuspendReceive, Transmit,
                    ResumeReceive, RestoreReceive, Cancel, Unwind, Complete, FailSend,
                    Goto, GiveUp, Leave
<1>9. QED
  BY <1>4, <1>5, <1>6, <1>7, <1>8 DEF WorkerStep

\* The worker takes sends out of the caller's sight and puts none back.
LEMMA NoneComesBack ==
    ASSUME TypeInv, SendsInv, HeldInv, SendsInv', OneOutcome', WorkerStep \/ SpuriousWakeup
    PROVE  Unanswered' \subseteq Unanswered
<1>1. SUFFICES ASSUME NEW i \in InHand' \union Answering'
               PROVE  i \in Unanswered
  BY WorkerOnlyTakes DEF Unanswered
<1>2. Serving'
  BY <1>1 DEF SendsInv, AnswersInv, InHand, Serving
<1>3. Serving /\ abandoned' = abandoned /\ accepted' = accepted /\ Answered \subseteq Answered'
  BY <1>2, WorkerOnlyTakes
<1>4. i \notin Answered'
  BY <1>1 DEF OneOutcome
<1>5. i \in accepted /\ i \notin abandoned
  BY <1>1, <1>2, <1>3, <1>4 DEF SendsInv, NumbersInv, AnswersInv
<1>6. QED
  BY <1>3, <1>4, <1>5 DEF HeldInv, Held, Unanswered

\* The first outcome of a send is what it stays.
FirstOutcome(i) == outcomes[i][1]

LEMMA FirstOutcomeStays ==
    ASSUME TypeInv, [Next]_vars
    PROVE  \A i \in Answered : i \in Answered' /\ FirstOutcome(i)' = FirstOutcome(i)
<1>1. CASE PushEvent
  <2> DEFINE e == Head(outbox)
  <2>1. /\ outcomes' = IF e.kind \in OutcomeKinds
                       THEN [outcomes EXCEPT ![e.id] = Append(@, e.kind)] ELSE outcomes
        /\ outcomes \in [SendIds -> Seq(OutcomeKinds)]
    BY <1>1 DEF PushEvent, TypeInv, TypeOK
  <2> HIDE DEF e
  <2>2. ASSUME NEW i \in Answered
        PROVE  i \in Answered' /\ outcomes'[i][1] = outcomes[i][1]
    <3>1. i \in SendIds /\ outcomes[i] # <<>> /\ outcomes[i] \in Seq(OutcomeKinds)
      BY <2>1 DEF Answered
    <3>2. outcomes'[i] = outcomes[i] \/ outcomes'[i] = Append(outcomes[i], e.kind)
      BY <2>1, <3>1
    <3>3. outcomes'[i] # <<>> /\ outcomes'[i][1] = outcomes[i][1]
      BY <3>1, <3>2
    <3>4. QED
      BY <3>1, <3>3 DEF Answered
  <2>3. QED
    BY <2>2 DEF FirstOutcome
<1>2. CASE ~PushEvent
  <2>1. outcomes' = outcomes
    BY <1>2 DEF Next, WorkerStep, Open, FinishInitialization, CheckStop, TryPopCommand,
                TestPredicate, Block, TimeOut, SpuriousWakeup, ReceiveSlice, HandleRetry,
                HandleSetReceive, BeginSend, SuspendReceive, Transmit, ResumeReceive,
                RestoreReceive, Cancel, Unwind, Finish, Complete, FailSend, GiveUp, Leave, Goto,
                Step, ClientStep, StopNotify, Join, PostPush, PostNotify, ShutdownNotify,
                ClientCall, Start, StopStore, ShutdownStore, TryPopEvent, PopEvent, PostBegin,
                ClientAt, history, vars
  <2>2. QED
    BY <2>1 DEF Answered, FirstOutcome
<1>3. QED
  BY <1>1, <1>2
=============================================================================
