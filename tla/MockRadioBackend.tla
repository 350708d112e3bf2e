--------------------------- MODULE MockRadioBackend ---------------------------
(***************************************************************************)
(* The backend of the desktop build (src/radio/mock_radio_backend.cpp): a  *)
(* frame sent comes back ReadyIn later through the one slot of the         *)
(* loopback, and a sample packet is generated at every interval.  Times    *)
(* are in steps of 20 ms and kept as what is left of them, the slot's not  *)
(* below 0, the interval's not below -1, which stands for "past".  A sleep *)
(* may last one step too long.                                             *)
(***************************************************************************)
EXTENDS BackendCall

CONSTANTS
    RxInterval,    \* IR_CHAT_MOCK_RX_INTERVAL_MS
    Airtimes       \* what a frame may take to send

ASSUME MockAssumption == RxInterval \in Nat /\ Airtimes \subseteq Nat

ReadyIn    == 5    \* 100 ms
TimeSlice  == 2    \* the worker's kReceiveSlice, 40 ms

VARIABLES
    settings,       \* the environment: loopback, generate, initFail, txFail
    mockOpen,       \* _open
    mockReceiving,  \* _receiving
    slot,           \* _pending_loopback: the frame and the time until it is ready
    nextSample,     \* the time until _next_generated_packet
    sequence,       \* _next_sequence
    protocol,       \* _next_protocol_sequence
    looped,         \* history: frames sent with the loopback on
    newest,         \* history: the last of them since the backend was opened, 0 for none
    returned        \* history: those received

mock == <<settings, mockOpen, mockReceiving, slot, nextSample, sequence, protocol, looped, newest, returned>>

Empty == [id |-> 0, ready |-> 0]

MockInit(values) ==
    /\ settings \in [loopback : values, generate : values, initFail : values, txFail : values]
    /\ mockOpen = FALSE /\ mockReceiving = FALSE /\ slot = Empty /\ nextSample = 0
    /\ sequence = 0 /\ protocol = 0 /\ looped = 0 /\ newest = 0 /\ returned = {}

Left(time, passed, floor) == IF time - passed < floor THEN floor ELSE time - passed

\* Time passes for what is waited for.
SlotAfter(t)   == [slot EXCEPT !.ready = Left(@, t, 0)]
SampleAfter(t) == Left(nextSample, t, -1)

MockClosed ==
    /\ mockOpen' = FALSE /\ mockReceiving' = FALSE
    /\ slot' = Empty /\ newest' = 0

\* Mutation: close starts the count of packets again.
MockCloseRestarting ==
    /\ MockClosed /\ outcome' = "ok" /\ sequence' = 0
    /\ UNCHANGED <<settings, nextSample, protocol, looped, returned, delivered, sent>>

MockClose ==
    /\ MockClosed /\ outcome' = "ok"
    /\ UNCHANGED <<settings, nextSample, sequence, protocol, looped, returned, delivered, sent>>

\* The 250 ms of open begin and end between closed and open.
MockOpen ==
    /\ IF cancelled \/ settings.initFail
       THEN /\ Throw(IF cancelled THEN "cancelled" ELSE "error")
            /\ MockClosed /\ UNCHANGED nextSample
       ELSE /\ outcome' = "ok" /\ mockOpen' = TRUE /\ mockReceiving' = FALSE
            /\ slot' = Empty /\ newest' = 0 /\ nextSample' = RxInterval
    /\ UNCHANGED <<settings, sequence, protocol, looped, returned, delivered, sent>>

MockRefused ==
    /\ cancelled \/ ~mockOpen
    /\ Throw(IF cancelled THEN "cancelled" ELSE "error")
    /\ UNCHANGED <<mock, delivered, sent>>

\* An interval that is past begins anew.
MockStartReceive ==
    \/ MockRefused
    \/ /\ ~cancelled /\ mockOpen
       /\ mockReceiving' = TRUE /\ outcome' = "ok"
       /\ nextSample' = IF nextSample < 0 THEN RxInterval ELSE nextSample
       /\ UNCHANGED <<settings, mockOpen, slot, sequence, protocol, looped, newest, returned,
                      delivered, sent>>

\* Mutation: stopping to receive drops the frame in the slot.
MockStopReceiveDropping ==
    /\ mockReceiving' = FALSE /\ outcome' = "ok" /\ slot' = Empty
    /\ UNCHANGED <<settings, mockOpen, nextSample, sequence, protocol, looped, newest, returned,
                   delivered, sent>>

MockStopReceive ==
    /\ mockReceiving' = FALSE /\ outcome' = "ok"
    /\ UNCHANGED <<settings, mockOpen, slot, nextSample, sequence, protocol, looped, newest,
                   returned, delivered, sent>>

LoopedBack(t) == slot # Empty /\ slot.ready <= t
Sample(t)     == settings.generate /\ nextSample <= t

\* The call wakes when something it waits for is due and at its deadline, t steps
\* after it began: at the first such time or one step later.
WakesAt(t) ==
    \E due \in 0 .. TimeSlice :
        /\ due = TimeSlice \/ LoopedBack(due) \/ Sample(due)
        /\ \A earlier \in 0 .. due - 1 : ~LoopedBack(earlier) /\ ~Sample(earlier)
        /\ t \in due .. due + 1

\* fillPacket.
Fill == sequence' = sequence + 1 /\ delivered' = Append(delivered, sequence + 1) /\ outcome' = "ok"

\* Without receiving the call returns at once; the worker does not make it then.
MockReceive ==
    \/ MockRefused
    \/ /\ ~cancelled /\ mockOpen
       /\ \E t \in 0 .. TimeSlice + 1 :
            /\ IF mockReceiving THEN WakesAt(t) ELSE t = 0
            /\ \/ /\ mockReceiving /\ LoopedBack(t)
                  /\ Fill /\ slot' = Empty /\ returned' = returned \union {slot.id}
                  /\ nextSample' = SampleAfter(t) /\ UNCHANGED protocol
               \/ /\ mockReceiving /\ ~LoopedBack(t) /\ Sample(t)
                  /\ sequence < MaxFrames
                  /\ Fill /\ protocol' = NextNumber(protocol)
                  /\ nextSample' = RxInterval /\ slot' = SlotAfter(t) /\ UNCHANGED returned
               \/ /\ mockReceiving => ~LoopedBack(t) /\ ~Sample(t)
                  /\ outcome' = "nothing"
                  /\ slot' = SlotAfter(t) /\ nextSample' = SampleAfter(t)
                  /\ UNCHANGED <<sequence, delivered, protocol, returned>>
       /\ UNCHANGED <<settings, mockOpen, mockReceiving, looped, newest, sent>>

\* A second frame takes the slot of the first.
MockTransmit ==
    \/ MockRefused
    \/ /\ ~cancelled /\ mockOpen /\ settings.txFail
       /\ Throw("error") /\ UNCHANGED <<mock, delivered, sent>>
    \/ /\ ~cancelled /\ mockOpen /\ ~settings.txFail
       /\ protocol' = NextNumber(protocol) /\ sent' = Append(sent, protocol') /\ outcome' = "ok"
       /\ \E airtime \in Airtimes :
            /\ nextSample' = SampleAfter(airtime)
            /\ IF settings.loopback
               THEN /\ looped' = looped + 1 /\ newest' = looped + 1
                    /\ slot' = [id |-> looped + 1, ready |-> ReadyIn]
               ELSE UNCHANGED <<slot, looped, newest>>
       /\ UNCHANGED <<settings, mockOpen, mockReceiving, sequence, returned, delivered>>
    \/ /\ mockOpen /\ ~settings.txFail /\ Stopped     \* before the frame is out
       /\ protocol' = NextNumber(protocol)
       /\ UNCHANGED <<settings, mockOpen, mockReceiving, slot, nextSample, sequence, looped,
                      newest, returned, delivered, sent>>

\* The worker is doing something else.
MockTime ==
    /\ slot' = SlotAfter(1) /\ nextSample' = SampleAfter(1)
    /\ <<slot, nextSample>>' # <<slot, nextSample>>
    /\ UNCHANGED <<settings, mockOpen, mockReceiving, sequence, protocol, looped, newest, returned,
                   outcome, delivered, sent>>

-----------------------------------------------------------------------------
(* Properties.                                                             *)

\* The last frame sent comes back: until the backend is closed it is in the slot
\* or received, across the stop and the start of receiving around every send;
\* and only a newer frame ever displaces an older one.
LastFrameLoopsBack ==
    /\ newest # 0 => slot.id = newest \/ newest \in returned
    /\ slot # Empty => slot.id = newest /\ slot.id \notin returned
=============================================================================
