--------------------------- MODULE DefaultBackend ---------------------------
(***************************************************************************)
(* The backend a build selects (src/radio/radio_backend.cpp) under the     *)
(* calls the worker makes of it (src/radio/radio_worker.cpp): which call   *)
(* follows which is the worker's, so that what the calls do together is    *)
(* checked; the worker's own state and queues are module RadioWorker's.    *)
(***************************************************************************)
EXTENDS LinuxIrBackend, MockRadioBackend

CONSTANTS
    MaxOpens,   \* bound: initializations
    MaxSends    \* bound: frames sent

VARIABLES
    kind,        \* the backend of the build
    pc,          \* what the worker does next
    requested,   \* its receive_requested
    opens, sends \* how much of the bounds is used

worker == <<pc, requested, opens, sends>>
vars   == <<linux, mock, cancelled, outcome, delivered, sent, kind, worker>>

\* A call, of the backend there is; the other is not in the build.  A stop may be
\* requested before it, see Stop, or while it runs.
Call(linuxCall, mockCall) ==
    /\ \/ kind = "linux" /\ linuxCall /\ UNCHANGED mock
       \/ kind = "mock" /\ mockCall /\ UNCHANGED linux
    /\ cancelled' = (cancelled \/ outcome' = "cancelled")
    /\ UNCHANGED kind

\* What the worker does after a call, by its outcome.
Then(ok, error) ==
    pc' = IF outcome' = "cancelled" THEN "unwind" ELSE IF outcome' = "error" THEN error ELSE ok

Init ==
    /\ \/ kind = "linux" /\ LinuxInit(Worlds, FeatureSets) /\ MockInit({FALSE})
       \/ kind = "mock" /\ LinuxInit({CHOOSE w \in Worlds : TRUE}, {{}}) /\ MockInit(BOOLEAN)
    /\ cancelled = FALSE /\ outcome = "ok" /\ delivered = <<>> /\ sent = <<>>
    /\ pc = "initialize" /\ requested \in BOOLEAN /\ opens = 0 /\ sends = 0

\* initializeBackend closes the backend and opens it; the mock's open is one step.
Initialize ==
    /\ pc = "initialize" /\ opens < MaxOpens /\ opens' = opens + 1
    /\ Call(LinuxOpenBegin, MockClose)
    /\ pc' = "open"
    /\ UNCHANGED <<requested, sends>>

Open ==
    /\ pc = "open"
    /\ Call(LinuxOpenStep, MockOpen)
    /\ IF outcome' = "busy" THEN pc' = pc ELSE Then(IF requested THEN "start" ELSE "up", "failed")
    /\ UNCHANGED <<requested, opens, sends>>

Start ==
    /\ pc = "start"
    /\ Call(LinuxStartReceive, MockStartReceive)
    /\ Then("up", "failed")
    /\ UNCHANGED <<requested, opens, sends>>

Receive ==
    /\ pc = "up" /\ requested
    /\ Call(LinuxReceive, MockReceive)
    /\ Then("up", "failed")
    /\ UNCHANGED <<requested, opens, sends>>

\* RadioSetReceiveCommand, whatever was requested before; without a backend that is
\* up it only notes the request.
SetReceiveOn ==
    /\ pc = "up" /\ requested' = TRUE
    /\ Call(LinuxStartReceive, MockStartReceive)
    /\ Then("up", "failed")
    /\ UNCHANGED <<opens, sends>>

SetReceiveOff ==
    /\ pc = "up" /\ requested' = FALSE
    /\ Call(LinuxStopReceive, MockStopReceive)
    /\ UNCHANGED <<pc, opens, sends>>

SetReceiveDown ==
    /\ pc = "down" /\ ~cancelled /\ requested' = ~requested
    /\ UNCHANGED <<linux, mock, cancelled, outcome, delivered, sent, kind, pc, opens, sends>>

\* handleSend: receiving is suspended, the frame sent, receiving resumed, with one
\* more attempt after an error.
Suspend ==
    /\ pc = "up" /\ requested /\ sends < MaxSends
    /\ Call(LinuxStopReceive, MockStopReceive)
    /\ pc' = "transmit" /\ UNCHANGED <<requested, opens, sends>>

Transmit ==
    /\ pc = (IF requested THEN "transmit" ELSE "up")
    /\ sends < MaxSends /\ sends' = sends + 1
    /\ Call(LinuxTransmit, MockTransmit)
    /\ Then(IF requested THEN "resume" ELSE "up", IF requested THEN "start" ELSE "failed")
    /\ UNCHANGED <<requested, opens>>

Resume ==
    /\ pc = "resume"
    /\ Call(LinuxStartReceive, MockStartReceive)
    /\ Then("up", "start")
    /\ UNCHANGED <<requested, opens, sends>>

\* The handlers of the worker close the backend; a retry opens it again.
GiveUp ==
    /\ pc = "failed" /\ pc' = "down"
    /\ Call(LinuxClose, MockClose)
    /\ UNCHANGED <<requested, opens, sends>>

Retry ==
    /\ pc \in {"up", "down"} /\ ~cancelled /\ opens < MaxOpens
    /\ pc' = "initialize"
    /\ UNCHANGED <<linux, mock, cancelled, outcome, delivered, sent, kind, requested, opens, sends>>

\* stop: the token is set at any time.
Stop ==
    /\ ~cancelled /\ cancelled' = TRUE
    /\ UNCHANGED <<linux, mock, outcome, delivered, sent, kind, worker>>

\* The thread leaves its loop by the exception, or at its test of the token, and
\* closes the backend.
Unwind ==
    /\ pc = "unwind" \/ (pc \in {"up", "down"} /\ cancelled)
    /\ pc' = "ended"
    /\ Call(LinuxClose, MockClose)
    /\ UNCHANGED <<requested, opens, sends>>

\* start, after a thread has ended: the backend is the same.
Restart ==
    /\ pc = "ended" /\ opens < MaxOpens
    /\ pc' = "initialize" /\ cancelled' = FALSE /\ requested' \in BOOLEAN
    /\ UNCHANGED <<linux, mock, outcome, delivered, sent, kind, opens, sends>>

\* What happens between and within the calls.
World ==
    /\ \/ kind = "linux" /\ LinuxEnvironment /\ UNCHANGED mock
       \/ kind = "mock" /\ MockTime /\ UNCHANGED linux
    /\ UNCHANGED <<kind, cancelled, worker>>

Next ==
    \/ Initialize \/ Open \/ Start \/ Receive
    \/ SetReceiveOn \/ SetReceiveOff \/ SetReceiveDown
    \/ Suspend \/ Transmit \/ Resume \/ GiveUp \/ Retry \/ Stop \/ Unwind \/ Restart \/ World

Spec == Init /\ [][Next]_vars

-----------------------------------------------------------------------------
(* Properties of both backends.                                            *)

\* Both backends keep what RadioBackend promises the worker, across every close,
\* reopening and failure.
Contract == INSTANCE RadioBackend WITH
    mode <- IF kind = "linux"
            THEN IF ~isOpen THEN "closed" ELSE IF receiving THEN "receiving" ELSE "idle"
            ELSE IF ~mockOpen THEN "closed" ELSE IF mockReceiving THEN "receiving" ELSE "idle"
ImplementsRadioBackend == Contract!Spec
=============================================================================
