---------------------------- MODULE RadioBackend ----------------------------
(***************************************************************************)
(* What a radio backend promises to the worker                             *)
(* (src/radio/radio_backend.hpp, RadioPacket of radio_types.hpp): it is    *)
(* closed, open or receiving; packets come out only while it receives and  *)
(* are numbered in increasing order for as long as the program runs,       *)
(* however often it is reopened; frames go out only while it is open and   *)
(* not receiving.                                                          *)
(***************************************************************************)
EXTENDS Integers, Sequences

VARIABLES
    mode,        \* "closed", "idle" or "receiving"
    delivered,   \* the sequences of the packets delivered
    sent         \* the protocol sequences of the frames transmitted

vars == <<mode, delivered, sent>>

Init == mode = "closed" /\ delivered = <<>> /\ sent = <<>>

Extends(old, new) == new # <<>> /\ SubSeq(new, 1, Len(new) - 1) = old
Newest(s)         == s[Len(s)]

Open         == mode = "closed" /\ mode' = "idle" /\ UNCHANGED <<delivered, sent>>
Close        == mode' = "closed" /\ UNCHANGED <<delivered, sent>>
StartReceive == mode = "idle" /\ mode' = "receiving" /\ UNCHANGED <<delivered, sent>>
StopReceive  == mode = "receiving" /\ mode' = "idle" /\ UNCHANGED <<delivered, sent>>

Deliver ==
    /\ mode = "receiving" /\ Extends(delivered, delivered')
    /\ delivered # <<>> => Newest(delivered') > Newest(delivered)
    /\ UNCHANGED <<mode, sent>>

Transmit ==
    /\ mode = "idle" /\ Extends(sent, sent')
    /\ UNCHANGED <<mode, delivered>>

Next == Open \/ Close \/ StartReceive \/ StopReceive \/ Deliver \/ Transmit

Spec == Init /\ [][Next]_vars
=============================================================================
