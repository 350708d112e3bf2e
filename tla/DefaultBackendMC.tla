-------------------------- MODULE DefaultBackendMC --------------------------
(* Two lirc nodes, under two rc-core paths in the other order or one of them *)
(* in /dev only, and the overrides that matter.                             *)
EXTENDS DefaultBackend

MCDevices     == {"lirc0", "lirc1"}
MCFeatureSets == {{"REC_MODE2"}, {"SEND_PULSE"}, {"REC_MODE2", "SEND_PULSE"}}

Override(d, r) == [device |-> d, rc |-> r]
Free           == Override(None, None)

Found(rcNodes, forRx, forTx) ==
    [rcs |-> <<"rc0", "rc1">>, dev |-> <<"lirc0", "lirc1">>, nodes |-> rcNodes,
     env |-> [receiver |-> forRx, transmitter |-> forTx]]

Mapped2 == [r \in {"rc0", "rc1"} |-> IF r = "rc0" THEN <<"lirc1">> ELSE <<"lirc0">>]
Mapped1 == [r \in {"rc1"} |-> <<"lirc1">>]

\* One in which both roles may be found, and three in which the receiver is searched
\* for in other ways while there is no path for the transmitter's.
MCWorlds == {
    Found(Mapped1, Free, Override("lirc1", None)),
    Found(Mapped2, Free, Override(None, "rc2")),
    Found(Mapped2, Override(None, "rc1"), Override(None, "rc2")),
    Found(Mapped2, Override("lirc0", "rc0"), Override(None, "rc2"))}
=============================================================================
