--------------------------- MODULE LinuxIrBackend ---------------------------
(***************************************************************************)
(* The backend of the device (src/radio/linux_ir_backend.cpp): two lirc    *)
(* descriptors found by LircDiscovery, the stream decoder and the packets  *)
(* it has decoded.  open is one step per system call that can find the     *)
(* world changed; the other operations are one step each.                  *)
(*                                                                         *)
(* The kernel and the air are the environment.  A frame reaches the        *)
(* receiver's descriptor as two parts, which is all the decoder of module  *)
(* IrChatCodec is here: the head of a frame and, if nothing came between,  *)
(* its tail make a packet.  Nodes are plugged, unplugged and given to      *)
(* another device at any time; a descriptor of a node that has gone stays  *)
(* dead.                                                                   *)
(***************************************************************************)
EXTENDS BackendCall, LircDiscovery

CONSTANTS
    Devices,       \* the lirc nodes
    FeatureSets,   \* what a node may be capable of
    Worlds,        \* the rc-core paths, nodes and overrides, see LircDiscovery
    KernelCap,     \* the parts the kernel buffers for a descriptor
    MaxChanges     \* bound: changes of the nodes and failing system calls

\* A node has a name; the empty one stands for an unset override.  What the program
\* lists are names.
ASSUME LinuxAssumption ==
    /\ None \notin Devices
    /\ Worlds # {}
    /\ \A w \in Worlds : /\ w.rcs \in Seq(STRING) /\ w.dev \in Seq(STRING)
                         /\ \A rc \in DOMAIN w.nodes : w.nodes[rc] \in Seq(STRING)

VARIABLES
    world,         \* rcs, nodes, dev and the two overrides
    features,      \* the capabilities of every node that answers
    isOpen,        \* _open
    receiving,     \* _receiving
    opening,       \* the next step of an open in progress
    found,         \* its two candidates, as they are found
    rx, tx,        \* _rx_fd and _tx_fd: NoFd, or the node and whether it is still there
    descriptors,   \* the descriptors the process holds
    partial,       \* the frame the decoder is in the middle of, 0 for none
    decoded,       \* _decoded_packets
    received,      \* _received_frames
    nextNumber,    \* _next_tx_protocol_sequence
    kernel,        \* the parts buffered for _rx_fd
    onAir,         \* the frame whose tail is still to come, 0 for none
    frames,        \* frames on the air so far
    changes,       \* how much of MaxChanges is used
    old,           \* history: the last frame begun before receiving was started
    owed,          \* history: the frames heard whole since then
    handed         \* history: the frames delivered since then

device  == <<world, features, changes>>
air     == <<onAir, frames>>
memory  == <<isOpen, receiving, rx, tx, descriptors, partial, decoded, old, owed, handed>>
buffers == <<kernel, received, nextNumber>>
linux   == <<device, air, memory, buffers, opening, found>>

Sys == [rcs |-> world.rcs, nodes |-> world.nodes, dev |-> world.dev, features |-> features]
Env(role) == world.env[role]

\* An open file descriptor and whether its node is still there; -1.
Descriptor(node) == [node |-> node, live |-> TRUE]
NoFd == [node |-> "", live |-> FALSE]

LinuxInit(worlds, sets) ==
    /\ world \in worlds /\ features \in UNION {[nodes -> sets] : nodes \in SUBSET Devices}
    /\ isOpen = FALSE /\ receiving = FALSE /\ opening = "no" /\ found = <<>>
    /\ rx = NoFd /\ tx = NoFd /\ descriptors = 0
    /\ partial = 0 /\ decoded = <<>> /\ received = 0 /\ nextNumber = 0
    /\ kernel = <<>> /\ onAir = 0 /\ frames = 0 /\ changes = 0
    /\ old = 0 /\ owed = {} /\ handed = {}

Held == (IF rx = NoFd THEN 0 ELSE 1) + (IF tx = NoFd THEN 0 ELSE 1)

\* The session of a receiver ends: nothing is owed of it.
Forget == partial' = 0 /\ decoded' = <<>> /\ owed' = {} /\ handed' = {}

\* closeFd of both, and the rest of close.
LinuxClosed ==
    /\ isOpen' = FALSE /\ receiving' = FALSE /\ Forget
    /\ rx' = NoFd /\ tx' = NoFd /\ descriptors' = descriptors - Held
    /\ kernel' = <<>>
    /\ UNCHANGED <<received, nextNumber, old>>

LinuxClose ==
    /\ LinuxClosed /\ opening' = "no" /\ outcome' = "ok"
    /\ UNCHANGED <<found, device, air, delivered, sent>>

-----------------------------------------------------------------------------
(* open.                                                                   *)

\* Mutation: an open that fails leaves what it has opened.
OpenFailsHolding(what) ==
    /\ Throw(what) /\ opening' = "no"
    /\ UNCHANGED <<memory, buffers, found>>

\* The handler of open: everything is closed before the exception goes on.
OpenFails(what) ==
    /\ Throw(what) /\ LinuxClosed /\ opening' = "no" /\ found' = <<>>

OpenGoesOn(step) == outcome' = "busy" /\ opening' = step

LinuxOpenBegin ==
    /\ LinuxClosed /\ OpenGoesOn("receiver")
    /\ found' = <<>>
    /\ UNCHANGED <<device, air, delivered, sent>>

DiscoverRole(role, next) ==
    LET candidate == Discover(Sys, Env(role), role)
    IN  IF Failed(candidate) THEN OpenFails("error")
        ELSE /\ OpenGoesOn(next) /\ found' = Append(found, candidate)
             /\ UNCHANGED <<memory, buffers>>

\* openReceiver: the node found may have gone since; from here on the descriptor is
\* the backend's to close.
OpenReceiver ==
    IF found[1].device \notin DOMAIN features THEN OpenFails("error")
    ELSE /\ OpenGoesOn("set up receiver")
         /\ rx' = Descriptor(found[1].device) /\ descriptors' = descriptors + 1 /\ kernel' = <<>>
         /\ UNCHANGED <<isOpen, receiving, tx, partial, decoded, received, nextNumber,
                        old, owed, handed, found>>

OpenTransmitter ==
    IF found[2].device \notin DOMAIN features THEN OpenFails("error")
    ELSE /\ OpenGoesOn("set up transmitter")
         /\ tx' = Descriptor(found[2].device) /\ descriptors' = descriptors + 1
         /\ UNCHANGED <<isOpen, receiving, rx, partial, decoded, old, owed, handed, found, buffers>>

\* Mutation: what fails after ::open is not caught.
SetUpUncaught(fd, role, next) ==
    IF ~fd.live \/ ~SupportsRole(features[fd.node], role) THEN OpenFailsHolding("error")
    ELSE OpenGoesOn(next) /\ UNCHANGED <<memory, buffers, found>>

\* readFeatures, the test of the role and the required ioctl, on the descriptor just
\* opened: they fail if its node has gone since, the test also if the node is of
\* another device than the one found.  The optional ioctls change nothing here.
SetUp(fd, role, next) ==
    IF ~fd.live \/ ~SupportsRole(features[fd.node], role) THEN OpenFails("error")
    ELSE OpenGoesOn(next) /\ UNCHANGED <<memory, buffers, found>>

FinishOpen ==
    /\ isOpen' = TRUE /\ outcome' = "ok" /\ opening' = "no" /\ found' = <<>>
    /\ UNCHANGED <<receiving, rx, tx, descriptors, partial, decoded, old, owed, handed, buffers>>

\* The steps before which the token is tested: an ::open goes on to its set-up
\* without a test.
Tested == opening \in {"receiver", "transmitter", "open receiver", "open transmitter", "finish"}

\* A system call of open fails for a reason of its own: ::open, or with the
\* descriptor held the reading of the features or the required ioctl.
OpenCallFails ==
    /\ changes < MaxChanges /\ changes' = changes + 1
    /\ opening \in {"open receiver", "set up receiver", "open transmitter", "set up transmitter"}
    /\ Tested => ~cancelled
    /\ OpenFails("error")
    /\ UNCHANGED <<world, features>>

\* The test of the token that comes before the step, or the step.
LinuxOpenStep ==
    /\ \/ Tested /\ cancelled /\ OpenFails("cancelled") /\ UNCHANGED device
       \/ /\ Tested => ~cancelled
          /\ \/ opening = "receiver" /\ DiscoverRole("receiver", "transmitter")
             \/ opening = "transmitter" /\ DiscoverRole("transmitter", "open receiver")
             \/ opening = "open receiver" /\ OpenReceiver
             \/ opening = "set up receiver" /\ SetUp(rx, "receiver", "open transmitter")
             \/ opening = "open transmitter" /\ OpenTransmitter
             \/ opening = "set up transmitter" /\ SetUp(tx, "transmitter", "finish")
             \/ opening = "finish" /\ FinishOpen
          /\ UNCHANGED device
       \/ OpenCallFails
    /\ UNCHANGED <<air, delivered, sent>>

-----------------------------------------------------------------------------
(* The other operations.  Each begins with the test of the token, and       *)
(* requireOpen.                                                            *)

Ready == isOpen /\ rx # NoFd /\ tx # NoFd

Refused ==
    /\ cancelled \/ ~Ready
    /\ Throw(IF cancelled THEN "cancelled" ELSE "error")
    /\ UNCHANGED <<linux, delivered, sent>>

\* Mutation: what the kernel has buffered is not drained.
StartReceivingUndrained ==
    /\ UNCHANGED kernel
    /\ Forget /\ receiving' = TRUE /\ outcome' = "ok"
    /\ old' = frames

\* drainReceiver, the reset of the decoder and of the packets.
StartReceiving ==
    /\ kernel' = <<>>
    /\ Forget /\ receiving' = TRUE /\ outcome' = "ok"
    /\ old' = frames

LinuxStartReceive ==
    \/ Refused
    \/ /\ ~cancelled /\ Ready
       /\ StartReceiving
       /\ UNCHANGED <<isOpen, rx, tx, descriptors, received, nextNumber, device, air, opening,
                      found, delivered, sent>>

LinuxStopReceive ==
    /\ Forget /\ receiving' = FALSE /\ outcome' = "ok"
    /\ UNCHANGED <<isOpen, rx, tx, descriptors, old, buffers, device, air, opening, found,
                   delivered, sent>>

Part(id, part) == [id |-> id, part |-> part]

\* processMode2Event, for the samples of one part: a timeout or an overflow
\* resets the decoder, a head begins a frame, a tail ends the frame begun.
Process(read, part) ==
    IF part.part = "gap" THEN [read EXCEPT !.partial = 0]
    ELSE IF part.part = "head" THEN [read EXCEPT !.partial = part.id]
    ELSE IF read.partial # part.id THEN [read EXCEPT !.partial = 0]
    ELSE [partial  |-> 0,
          received |-> read.received + 1,
          decoded  |-> Append(read.decoded, [id |-> part.id, sequence |-> read.received + 1])]

\* The parts read one after the other, from a state of the decoder.
ReadParts(start, parts) ==
    LET read[n \in 0 .. Len(parts)] == IF n = 0 THEN start ELSE Process(read[n - 1], parts[n])
    IN  read

\* readAvailableEvents: to the end of what the kernel has.
DecoderNow == [partial |-> partial, received |-> received, decoded |-> decoded]
ReadAll    == ReadParts(DecoderNow, kernel)[Len(kernel)]

\* Mutation: a read of several packets keeps the first.
PopKeepingNone(packets) ==
    IF packets = <<>> THEN decoded' = <<>> /\ outcome' = "nothing" /\ UNCHANGED <<delivered, handed>>
    ELSE /\ decoded' = <<>> /\ outcome' = "ok"
         /\ delivered' = Append(delivered, Head(packets).sequence)
         /\ handed' = handed \union {Head(packets).id}

\* popDecodedPacket.
Pop(packets) ==
    IF packets = <<>> THEN decoded' = <<>> /\ outcome' = "nothing" /\ UNCHANGED <<delivered, handed>>
    ELSE /\ decoded' = Tail(packets) /\ outcome' = "ok"
         /\ delivered' = Append(delivered, Head(packets).sequence)
         /\ handed' = handed \union {Head(packets).id}

\* A packet decoded earlier is handed out before the descriptor is looked at.
ReceiveDecoded ==
    /\ decoded # <<>>
    /\ Pop(decoded)
    /\ UNCHANGED <<partial, received, kernel>>

\* Receiving was not started, which the worker does not ask of it, or the poll
\* times out; the poll reports an error; or the read that follows succeeds.
ReceiveNothing ==
    /\ ~receiving \/ (decoded = <<>> /\ rx.live /\ kernel = <<>>)
    /\ outcome' = "nothing" /\ UNCHANGED <<partial, decoded, received, kernel, delivered, handed>>
ReceiveFails ==
    /\ decoded = <<>> /\ ~rx.live
    /\ Throw("error") /\ UNCHANGED <<partial, decoded, received, kernel, delivered, handed>>
ReceiveRead ==
    /\ decoded = <<>> /\ rx.live /\ kernel # <<>>
    /\ Pop(ReadAll.decoded)
    /\ partial' = ReadAll.partial /\ received' = ReadAll.received /\ kernel' = <<>>

\* The read ends in an error, or the token is set when it is done: what was
\* decoded stays where it is.
ReceiveReadOnly ==
    /\ decoded = <<>> /\ rx.live /\ kernel # <<>>
    /\ Throw("error") \/ Stopped
    /\ decoded' = ReadAll.decoded
    /\ partial' = ReadAll.partial /\ received' = ReadAll.received /\ kernel' = <<>>
    /\ UNCHANGED <<delivered, handed>>

LinuxReceive ==
    \/ Refused
    \/ /\ ~cancelled /\ Ready
       /\ \/ ReceiveNothing
          \/ receiving /\ (ReceiveDecoded \/ ReceiveFails \/ ReceiveRead \/ ReceiveReadOnly)
       /\ UNCHANGED <<isOpen, receiving, rx, tx, descriptors, nextNumber, old, owed, device, air,
                      opening, found, sent>>

\* The receiver hears the transmitter: all of the frame, its head so far, or
\* nothing.  A frame of another sender that is on the air is ruined.
Echo ==
    /\ frames' = frames + 1
    /\ \/ /\ kernel' = kernel \o <<Part(frames + 1, "head"), Part(frames + 1, "tail")>>
          /\ onAir' = 0
       \/ kernel' = Append(kernel, Part(frames + 1, "head")) /\ onAir' = frames + 1
       \/ kernel' = kernel /\ onAir' = 0

\* The sequence is consumed before the frame is encoded and written, and the token
\* tested after the write, whatever became of it.
LinuxTransmit ==
    \/ Refused
    \/ /\ ~cancelled /\ Ready
       /\ nextNumber' = NextNumber(nextNumber)
       /\ \/ /\ tx.live                              \* the whole frame is written
             /\ outcome' = "ok" \/ Stopped
             /\ sent' = Append(sent, nextNumber') /\ Echo
             /\ UNCHANGED changes
          \/ /\ tx.live /\ changes < MaxChanges      \* a short write
             /\ Throw("error") \/ Stopped
             /\ changes' = changes + 1
             /\ UNCHANGED <<sent, kernel, air>>
          \/ /\ ~tx.live                             \* the write fails
             /\ Throw("error") \/ Stopped
             /\ UNCHANGED <<sent, kernel, air, changes>>
       /\ UNCHANGED <<memory, received, world, features, opening, found, delivered>>

-----------------------------------------------------------------------------
(* The environment.                                                        *)

Unheard == UNCHANGED <<isOpen, receiving, rx, tx, descriptors, partial, decoded, old, handed,
                       received, nextNumber, opening, found, device, delivered, sent, outcome>>

Listening == rx # NoFd /\ rx.live
Buffer(part) == kernel' = IF Listening THEN Append(kernel, part) ELSE kernel

\* A frame of another sender begins, and ends.  The end that does not fit is lost;
\* without its beginning there is no frame.
FrameBegins ==
    /\ onAir = 0 /\ frames < MaxFrames /\ Len(kernel) < KernelCap
    /\ frames' = frames + 1 /\ onAir' = frames + 1
    /\ Buffer(Part(frames + 1, "head"))
    /\ UNCHANGED owed /\ Unheard

FrameEnds ==
    /\ onAir # 0 /\ onAir' = 0 /\ UNCHANGED frames
    /\ IF Len(kernel) < KernelCap
       THEN /\ Buffer(Part(onAir, "tail"))
            /\ owed' = IF receiving /\ Listening /\ onAir > old THEN owed \union {onAir} ELSE owed
       ELSE UNCHANGED <<kernel, owed>>
    /\ Unheard

\* A timeout report or an overflow: the frame on the air is lost.
FrameBreaks ==
    /\ onAir # 0 /\ onAir' = 0 /\ UNCHANGED frames
    /\ IF Len(kernel) < KernelCap THEN Buffer(Part(0, "gap")) ELSE UNCHANGED kernel
    /\ UNCHANGED owed /\ Unheard

Dead(fd, node) == IF fd # NoFd /\ fd.node = node THEN [fd EXCEPT !.live = FALSE] ELSE fd

Unplug(node) ==
    /\ node \in DOMAIN features
    /\ features' = [d \in DOMAIN features \ {node} |-> features[d]]

\* The node is of another device than before, or of one at all.
Plug(node) ==
    \E f \in FeatureSets :
        features' = [d \in DOMAIN features \union {node} |-> IF d = node THEN f ELSE features[d]]

NodesChange ==
    /\ changes < MaxChanges /\ changes' = changes + 1
    /\ \E node \in Devices :
           /\ Unplug(node) \/ Plug(node)
           /\ rx' = Dead(rx, node) /\ tx' = Dead(tx, node)
    /\ owed' = IF rx' = rx THEN owed ELSE {}
    /\ UNCHANGED <<world, air, isOpen, receiving, descriptors, partial, decoded, old, handed,
                   buffers, opening, found, delivered, sent, outcome>>

LinuxEnvironment == FrameBegins \/ FrameEnds \/ FrameBreaks \/ NodesChange

-----------------------------------------------------------------------------
(* Properties.                                                             *)

\* The backend holds either both descriptors or none, both exactly while it is
\* open, and the process holds no descriptor that the backend has forgotten.
\* Only within a call of open is it otherwise, and however such a call fails, with
\* none, one or both of its descriptors held, it leaves none.
DescriptorsPaired ==
    /\ descriptors = Held
    /\ opening = "no" => /\ isOpen <=> rx # NoFd
                         /\ isOpen <=> tx # NoFd
    /\ receiving => isOpen
    /\ kernel # <<>> => rx # NoFd

\* Nothing begun before receiving was last started is handed to the worker: not
\* the echo of the program's own frame, not a frame the kernel still held, not
\* the end of a frame whose beginning was drained.
OnlyFreshDelivered == [][\A id \in handed' \ handed : id > old]_<<handed>>

\* While the receiver lives no frame that arrived whole since receiving was
\* started is lost: it was delivered, it is decoded, or the kernel has its end,
\* however many frames one read returns and wherever a read cuts a frame.
WholeFramesKept ==
    \A id \in owed :
        \/ id \in handed
        \/ \E k \in DOMAIN decoded : decoded[k].id = id
        \/ \E k \in DOMAIN kernel : kernel[k] = Part(id, "tail")

\* Whatever is plugged and overridden, discovery does what it promises.
DiscoveryRight == \A role \in Roles : DiscoveryCorrect(Sys, Env(role), role)
=============================================================================
