------------------------ MODULE DefaultBackend_proofs ------------------------
(***************************************************************************)
(* What both backends keep, for any nodes, overrides, capabilities, bounds *)
(* and order of calls: the Linux backend finds the right nodes, holds its  *)
(* descriptors in pairs, loses no frame that arrived whole and hands out   *)
(* none that is stale; the mock's loopback brings the last frame back; and *)
(* both implement RadioBackend.                                            *)
(*                                                                         *)
(* DescriptorsPaired says nothing of a call of open in progress; the       *)
(* invariant DescriptorInv says how far each of its steps has come.        *)
(* WholeFramesKept says nothing of the decoder, which must be in the       *)
(* middle of a frame when it comes to the frame's end: HeardInv says what  *)
(* the decoder will be in, after each part the kernel still has.  What one *)
(* read does to any number of parts is shown by induction on their number, *)
(* and so is what the loops of discovery add to the candidates.            *)
(***************************************************************************)
EXTENDS DefaultBackend, WellFoundedInduction, TLAPS

FdOK(fd) == fd = NoFd \/ fd \in [node : Devices, live : BOOLEAN]

HoldsNone == ~isOpen /\ rx = NoFd /\ tx = NoFd
HoldsRx   == ~isOpen /\ rx # NoFd /\ tx = NoFd
HoldsBoth == ~isOpen /\ rx # NoFd /\ tx # NoFd

DescriptorInv ==
    /\ DOMAIN features \subseteq Devices
    /\ isOpen \in BOOLEAN /\ receiving \in BOOLEAN
    /\ FdOK(rx) /\ FdOK(tx)
    /\ opening \in {"no", "receiver", "transmitter", "open receiver", "set up receiver",
                    "open transmitter", "set up transmitter", "finish"}
    /\ opening \in {"receiver", "transmitter", "open receiver"} => HoldsNone
    /\ opening \in {"set up receiver", "open transmitter"} => HoldsRx
    /\ opening \in {"set up transmitter", "finish"} => HoldsBoth
    /\ DescriptorsPaired

-----------------------------------------------------------------------------
(* Descriptors.                                                            *)

\* How many of two descriptors are held.
One(fd)    == IF fd = NoFd THEN 0 ELSE 1
Two(a, b)  == One(a) + One(b)

LEMMA HeldIsTwo == Held = Two(rx, tx) /\ Held' = Two(rx', tx')
BY DEF Held, Two, One, NoFd

LEMMA CountOfTwo ==
    ASSUME NEW a, NEW b
    PROVE  /\ a = NoFd /\ b = NoFd => Two(a, b) = 0
           /\ a # NoFd /\ b = NoFd => Two(a, b) = 1
           /\ a # NoFd /\ b # NoFd => Two(a, b) = 2
           /\ Two(a, b) \in Nat
<1>1. /\ a = NoFd => One(a) = 0
      /\ a # NoFd => One(a) = 1
      /\ b = NoFd => One(b) = 0
      /\ b # NoFd => One(b) = 1
  BY DEF One
<1>2. One(a) \in {0, 1} /\ One(b) \in {0, 1}
  BY DEF One
<1>3. QED
  BY <1>1, <1>2 DEF Two

LEMMA DescriptorIsFd ==
    ASSUME NEW node \in Devices
    PROVE  FdOK(Descriptor(node)) /\ Descriptor(node) # NoFd
BY LinuxAssumption DEF FdOK, Descriptor, NoFd, None

\* A node that goes away takes no descriptor with it.
LEMMA DeadIsFd ==
    ASSUME NEW fd, FdOK(fd), NEW node
    PROVE  FdOK(Dead(fd, node)) /\ (Dead(fd, node) = NoFd <=> fd = NoFd)
<1>1. CASE fd = NoFd \/ fd.node # node
  BY <1>1 DEF Dead
<1>2. CASE fd # NoFd /\ fd.node = node
  <2>1. fd \in [node : Devices, live : BOOLEAN] /\ Dead(fd, node) = [fd EXCEPT !.live = FALSE]
    BY <1>2 DEF FdOK, Dead
  <2>2. Dead(fd, node) \in [node : Devices, live : BOOLEAN] /\ Dead(fd, node).node = fd.node
    BY <2>1
  <2>3. Dead(fd, node).node # "" /\ NoFd.node = ""
    BY <2>1, <2>2, LinuxAssumption DEF None, NoFd
  <2>4. QED
    BY <1>2, <2>2, <2>3 DEF FdOK
<1>3. QED
  BY <1>1, <1>2

\* The step changes neither the descriptors nor what open has reached.
LEMMA SameDescriptors ==
    ASSUME DescriptorInv,
           UNCHANGED <<features, isOpen, receiving, rx, tx, descriptors, opening>>,
           kernel' # <<>> => kernel # <<>> \/ rx # NoFd
    PROVE  DescriptorInv'
BY DEF DescriptorInv, DescriptorsPaired, HoldsNone, HoldsRx, HoldsBoth, Held, FdOK, NoFd

LEMMA ClosedHoldsNone ==
    ASSUME DescriptorInv, LinuxClosed, features' = features,
           opening' \in {"no", "receiver"}
    PROVE  DescriptorInv'
<1>1. descriptors' = 0
  <2>1. descriptors = Two(rx, tx) /\ descriptors' = descriptors - Two(rx, tx)
    BY HeldIsTwo DEF LinuxClosed, DescriptorInv, DescriptorsPaired
  <2>2. QED
    BY <2>1, CountOfTwo
<1>2. Held' = 0
  <2>1. Two(rx', tx') = 0
    BY CountOfTwo DEF LinuxClosed
  <2>2. QED
    BY <2>1, HeldIsTwo
<1>3. /\ isOpen' = FALSE /\ receiving' = FALSE /\ rx' = NoFd /\ tx' = NoFd /\ kernel' = <<>>
  BY DEF LinuxClosed
<1>4. FdOK(rx)' /\ FdOK(tx)' /\ NoFd' = NoFd
  BY <1>3 DEF FdOK, NoFd
<1>5. QED
  BY <1>1, <1>2, <1>3, <1>4 DEF DescriptorInv, DescriptorsPaired, HoldsNone

-----------------------------------------------------------------------------
(* The operations of the Linux backend.                                    *)

LEMMA OpenStepKeepsInv ==
    ASSUME DescriptorInv, LinuxOpenStep PROVE DescriptorInv'
<1>1. features' = features
  BY DEF LinuxOpenStep, OpenCallFails, device
<1>2. ASSUME NEW what, OpenFails(what) PROVE DescriptorInv'
  BY <1>1, <1>2, ClosedHoldsNone DEF OpenFails
<1>3. ASSUME NEW role, NEW next, DiscoverRole(role, next),
             opening \in {"receiver", "transmitter"}, next \in {"transmitter", "open receiver"}
      PROVE  DescriptorInv'
  <2>1. CASE OpenFails("error")
    BY <1>2, <2>1
  <2>2. CASE OpenGoesOn(next) /\ UNCHANGED <<memory, buffers>>
    BY <1>1, <1>3, <2>2 DEF OpenGoesOn, memory, buffers, DescriptorInv, DescriptorsPaired, HoldsNone,
                            HoldsRx, HoldsBoth, Held, FdOK, NoFd
  <2>3. QED
    BY <1>3, <2>1, <2>2 DEF DiscoverRole
<1>4. CASE opening = "open receiver" /\ OpenReceiver
  <2>1. CASE OpenFails("error")
    BY <1>2, <2>1
  <2>2. CASE ~OpenFails("error")
    <3> DEFINE node == found[1].device
    <3>1. /\ node \in DOMAIN features
          /\ opening' = "set up receiver"
          /\ rx' = Descriptor(node) /\ descriptors' = descriptors + 1 /\ kernel' = <<>>
          /\ UNCHANGED <<isOpen, receiving, tx>>
      BY <1>4, <2>2 DEF OpenReceiver, OpenGoesOn
    <3>2. FdOK(rx') /\ rx' # NoFd
      BY <3>1, DescriptorIsFd DEF DescriptorInv
    <3>3. HoldsNone /\ ~receiving /\ descriptors = 0 /\ FdOK(tx)
      BY <1>4, CountOfTwo, HeldIsTwo DEF DescriptorInv, DescriptorsPaired, HoldsNone
    <3>4. HoldsRx' /\ Held' = 1 /\ descriptors' = 1
      <4>1. Two(rx', tx') = 1
        BY <3>1, <3>2, <3>3, CountOfTwo DEF HoldsNone
      <4>2. descriptors' = 1
        <5>1. descriptors = 0
          BY <3>3
        <5>2. descriptors' = descriptors + 1
          BY <3>1
        <5>3. QED
          BY <5>1, <5>2
      <4>3. HoldsRx'
        <5>1. rx' # NoFd' /\ tx' = NoFd' /\ isOpen' = isOpen
          BY <3>1, <3>2, <3>3 DEF HoldsNone, NoFd
        <5>2. QED
          BY <3>3, <5>1 DEF HoldsNone, HoldsRx
      <4>4. QED
        BY <4>1, <4>2, <4>3, HeldIsTwo
    <3>5. FdOK(rx)' /\ FdOK(tx)'
      BY <3>1, <3>2, <3>3 DEF FdOK, NoFd
    <3>6. QED
      BY <1>1, <3>1, <3>3, <3>4, <3>5 DEF DescriptorInv, DescriptorsPaired, HoldsRx
  <2>3. QED
    BY <2>1, <2>2
<1>5. CASE opening = "open transmitter" /\ OpenTransmitter
  <2>1. CASE OpenFails("error")
    BY <1>2, <2>1
  <2>2. CASE ~OpenFails("error")
    <3> DEFINE node == found[2].device
    <3>1. /\ node \in DOMAIN features
          /\ opening' = "set up transmitter"
          /\ tx' = Descriptor(node) /\ descriptors' = descriptors + 1
          /\ UNCHANGED <<isOpen, receiving, rx, kernel>>
      BY <1>5, <2>2 DEF OpenTransmitter, OpenGoesOn, buffers
    <3>2. FdOK(tx') /\ tx' # NoFd
      BY <3>1, DescriptorIsFd DEF DescriptorInv
    <3>3. HoldsRx /\ ~receiving /\ descriptors = 1 /\ FdOK(rx)
      BY <1>5, CountOfTwo, HeldIsTwo DEF DescriptorInv, DescriptorsPaired, HoldsRx
    <3>4. HoldsBoth' /\ Held' = 2 /\ descriptors' = 2
      <4>1. Two(rx', tx') = 2
        BY <3>1, <3>2, <3>3, CountOfTwo DEF HoldsRx
      <4>2. descriptors' = 2
        <5>1. descriptors = 1
          BY <3>3
        <5>2. descriptors' = descriptors + 1
          BY <3>1
        <5>3. QED
          BY <5>1, <5>2
      <4>3. HoldsBoth'
        BY <3>1, <3>2, <3>3 DEF HoldsRx, HoldsBoth, NoFd
      <4>4. QED
        BY <4>1, <4>2, <4>3, HeldIsTwo
    <3>5. FdOK(rx)' /\ FdOK(tx)'
      BY <3>1, <3>2, <3>3 DEF FdOK, NoFd
    <3>6. QED
      BY <1>1, <3>1, <3>3, <3>4, <3>5 DEF DescriptorInv, DescriptorsPaired, HoldsBoth
  <2>3. QED
    BY <2>1, <2>2
<1>6. ASSUME NEW fd, NEW role, NEW next, SetUp(fd, role, next),
             \/ opening = "set up receiver" /\ next = "open transmitter"
             \/ opening = "set up transmitter" /\ next = "finish"
      PROVE  DescriptorInv'
  <2>1. CASE OpenFails("error")
    BY <1>2, <2>1
  <2>2. CASE OpenGoesOn(next) /\ UNCHANGED <<memory, buffers>>
    BY <1>1, <1>6, <2>2 DEF OpenGoesOn, memory, buffers, DescriptorInv, DescriptorsPaired, HoldsNone,
                            HoldsRx, HoldsBoth, Held, FdOK, NoFd
  <2>3. QED
    BY <1>6, <2>1, <2>2 DEF SetUp
<1>7. CASE opening = "finish" /\ FinishOpen
  <2>1. /\ isOpen' = TRUE /\ opening' = "no"
        /\ UNCHANGED <<receiving, rx, tx, descriptors, kernel>>
    BY <1>7 DEF FinishOpen, buffers
  <2>2. HoldsBoth
    BY <1>7 DEF DescriptorInv
  <2>3. QED
    BY <1>1, <2>1, <2>2 DEF DescriptorInv, DescriptorsPaired, HoldsBoth, Held, FdOK, NoFd
<1>8. QED
  BY <1>2, <1>3, <1>4, <1>5, <1>6, <1>7 DEF LinuxOpenStep, OpenCallFails

LEMMA CallsKeepInv ==
    ASSUME DescriptorInv,
           \/ LinuxStartReceive \/ LinuxStopReceive \/ LinuxReceive \/ LinuxTransmit
    PROVE  DescriptorInv'
<1>1. CASE Refused
  BY <1>1, SameDescriptors DEF Refused, linux, device, memory, buffers
<1>2. CASE LinuxStartReceive /\ ~Refused
  <2>1. /\ Ready /\ kernel' = <<>> /\ receiving' = TRUE
        /\ UNCHANGED <<isOpen, rx, tx, descriptors, features, opening>>
    BY <1>2 DEF LinuxStartReceive, StartReceiving, device
  <2>2. QED
    BY <2>1 DEF Ready, DescriptorInv, DescriptorsPaired, HoldsNone, HoldsRx, HoldsBoth, Held, FdOK, NoFd
<1>3. CASE LinuxStopReceive
  <2>1. /\ receiving' = FALSE
        /\ UNCHANGED <<isOpen, rx, tx, descriptors, kernel, features, opening>>
    BY <1>3 DEF LinuxStopReceive, buffers, device
  <2>2. QED
    BY <2>1 DEF DescriptorInv, DescriptorsPaired, HoldsNone, HoldsRx, HoldsBoth, Held, FdOK, NoFd
<1>4. CASE LinuxReceive /\ ~Refused
  <2>1. UNCHANGED <<isOpen, receiving, rx, tx, descriptors, features, opening>>
    BY <1>4 DEF LinuxReceive, device
  <2>2. kernel' = kernel \/ kernel' = <<>>
    BY <1>4 DEF LinuxReceive, ReceiveDecoded, ReceiveNothing, ReceiveFails, ReceiveRead,
                      ReceiveReadOnly
  <2>3. QED
    BY <2>1, <2>2, SameDescriptors
<1>5. CASE LinuxTransmit /\ ~Refused
  <2>1. Ready /\ UNCHANGED <<isOpen, receiving, rx, tx, descriptors, features, opening>>
    BY <1>5 DEF LinuxTransmit, memory
  <2>2. QED
    BY <2>1, SameDescriptors DEF Ready
<1>6. QED
  BY <1>1, <1>2, <1>3, <1>4, <1>5

LEMMA EnvironmentKeepsInv ==
    ASSUME DescriptorInv, LinuxEnvironment PROVE DescriptorInv'
<1>1. CASE FrameBegins \/ FrameEnds \/ FrameBreaks
  <2>1. UNCHANGED <<features, isOpen, receiving, rx, tx, descriptors, opening>>
    BY <1>1 DEF FrameBegins, FrameEnds, FrameBreaks, Unheard, device
  <2>2. kernel' = kernel \/ rx # NoFd
    BY <1>1 DEF FrameBegins, FrameEnds, FrameBreaks, Buffer, Listening
  <2>3. QED
    BY <2>1, <2>2, SameDescriptors
<1>2. ASSUME NEW node \in Devices, Unplug(node) \/ Plug(node), NodesChange,
             rx' = Dead(rx, node), tx' = Dead(tx, node)
      PROVE  DescriptorInv'
  <2>1. UNCHANGED <<isOpen, receiving, descriptors, kernel, opening>>
    BY <1>2 DEF NodesChange, buffers
  <2>2. DOMAIN features' \subseteq Devices
    <3>1. DOMAIN features \subseteq Devices /\ node \in Devices
      BY <1>2 DEF DescriptorInv
    <3>2. CASE Unplug(node)
      <4>1. DOMAIN features' = DOMAIN features \ {node}
        BY <3>2 DEF Unplug
      <4>2. QED
        BY <3>1, <4>1
    <3>3. CASE Plug(node)
      <4>1. DOMAIN features' = DOMAIN features \union {node}
        BY <3>3 DEF Plug
      <4>2. QED
        BY <3>1, <4>1
    <3>4. QED
      BY <1>2, <3>2, <3>3
  <2>3. /\ FdOK(rx') /\ (rx' = NoFd <=> rx = NoFd)
        /\ FdOK(tx') /\ (tx' = NoFd <=> tx = NoFd)
    BY <1>2, DeadIsFd DEF DescriptorInv
  <2>4. Held' = Held
    BY <2>3 DEF Held, NoFd
  <2>5. /\ FdOK(rx)' /\ FdOK(tx)'
        /\ (HoldsNone' <=> HoldsNone) /\ (HoldsRx' <=> HoldsRx) /\ (HoldsBoth' <=> HoldsBoth)
    BY <2>1, <2>3 DEF FdOK, NoFd, HoldsNone, HoldsRx, HoldsBoth
  <2>6. DescriptorsPaired'
    BY <2>1, <2>3, <2>4 DEF DescriptorInv, DescriptorsPaired, NoFd
  <2>7. QED
    BY <2>1, <2>2, <2>5, <2>6 DEF DescriptorInv
<1>3. QED
  BY <1>1, <1>2 DEF LinuxEnvironment, NodesChange

LEMMA NextKeepsDescriptors == DescriptorInv /\ [Next]_vars => DescriptorInv'
<1> SUFFICES ASSUME DescriptorInv, [Next]_vars PROVE DescriptorInv'
  OBVIOUS
<1>1. CASE UNCHANGED linux
  BY <1>1, SameDescriptors DEF linux, device, memory, buffers
<1>2. CASE LinuxOpenBegin
  BY <1>2, ClosedHoldsNone DEF LinuxOpenBegin, OpenGoesOn, device
<1>3. CASE LinuxClose
  BY <1>3, ClosedHoldsNone DEF LinuxClose, device
<1>4. CASE Initialize
  BY <1>1, <1>2, <1>4 DEF Initialize, Call
<1>5. CASE Open
  BY <1>1, <1>5, OpenStepKeepsInv DEF Open, Call
<1>6. CASE Start \/ SetReceiveOn \/ Resume
  BY <1>1, <1>6, CallsKeepInv DEF Start, SetReceiveOn, Resume, Call
<1>7. CASE Receive
  BY <1>1, <1>7, CallsKeepInv DEF Receive, Call
<1>8. CASE SetReceiveOff \/ Suspend
  BY <1>1, <1>8, CallsKeepInv DEF SetReceiveOff, Suspend, Call
<1>9. CASE Transmit
  BY <1>1, <1>9, CallsKeepInv DEF Transmit, Call
<1>10. CASE GiveUp \/ Unwind
  BY <1>1, <1>3, <1>10 DEF GiveUp, Unwind, Call
<1>11. CASE SetReceiveDown \/ Retry \/ Stop \/ Restart \/ UNCHANGED vars
  BY <1>1, <1>11 DEF SetReceiveDown, Retry, Stop, Restart, vars
<1>12. CASE World
  BY <1>1, <1>12, EnvironmentKeepsInv DEF World
<1>13. QED
  BY <1>4, <1>5, <1>6, <1>7, <1>8, <1>9, <1>10, <1>11, <1>12 DEF Next

LEMMA InitHoldsNone == Init => DescriptorInv
<1> SUFFICES ASSUME Init PROVE DescriptorInv
  OBVIOUS
<1>1. PICK worlds, sets : LinuxInit(worlds, sets)
  <2>1. CASE LinuxInit(Worlds, FeatureSets)
    BY <2>1
  <2>2. CASE LinuxInit({CHOOSE w \in Worlds : TRUE}, {{}})
    BY <2>2
  <2>3. QED
    BY <2>1, <2>2 DEF Init
<1>2. DOMAIN features \subseteq Devices
  BY <1>1 DEF LinuxInit
<1>3. /\ isOpen = FALSE /\ receiving = FALSE /\ rx = NoFd /\ tx = NoFd
      /\ descriptors = 0 /\ kernel = <<>> /\ opening = "no"
  BY <1>1 DEF LinuxInit
<1>4. Held = 0
  BY <1>3, CountOfTwo, HeldIsTwo
<1>5. QED
  BY <1>2, <1>3, <1>4 DEF DescriptorInv, DescriptorsPaired, FdOK

\* Between two calls the backend holds both descriptors or none, both exactly
\* while it is open, and no descriptor is forgotten, whichever step of open failed:
\* a discovery, an ::open, or what is asked of a descriptor once it is held
\* (openReceiver, openTransmitter and the handler of open of LinuxIrBackend).
THEOREM DescriptorsAlwaysPaired == Spec => []DescriptorsPaired
<1>1. DescriptorInv => DescriptorsPaired
  BY DEF DescriptorInv
<1>2. QED
  BY <1>1, InitHoldsNone, NextKeepsDescriptors, PTL DEF Spec

-----------------------------------------------------------------------------
(* The loopback of the mock.                                               *)

LoopbackInv ==
    /\ looped \in Nat /\ newest \in 0 .. looped /\ returned \subseteq 1 .. looped
    /\ slot = Empty \/ slot \in [id : 1 .. looped, ready : Int]
    /\ LastFrameLoopsBack

\* Time changes what is left to wait, and nothing else of the slot.
LEMMA TimeKeepsSlot ==
    ASSUME LoopbackInv, NEW t \in Nat
    PROVE  /\ slot = Empty => SlotAfter(t) = Empty
           /\ slot # Empty => SlotAfter(t) # Empty /\ SlotAfter(t) \in [id : 1 .. looped, ready : Int]
           /\ SlotAfter(t).id = slot.id
<1>1. CASE slot = Empty
  BY <1>1 DEF SlotAfter, Left, Empty
<1>2. CASE slot # Empty
  <2>1. slot \in [id : 1 .. looped, ready : Int]
    BY <1>2 DEF LoopbackInv
  <2>2. Left(slot.ready, t, 0) \in Int
    BY <2>1 DEF Left
  <2>3. /\ SlotAfter(t) = [slot EXCEPT !.ready = Left(slot.ready, t, 0)]
    BY DEF SlotAfter
  <2>4. SlotAfter(t) \in [id : 1 .. looped, ready : Int] /\ SlotAfter(t).id = slot.id
    BY <2>1, <2>2, <2>3
  <2>5. SlotAfter(t).id # 0 /\ Empty.id = 0
    BY <2>1, <2>4 DEF LoopbackInv, Empty
  <2>6. QED
    BY <1>2, <2>4, <2>5
<1>3. QED
  BY <1>1, <1>2

LEMMA WaitingKeepsLoopback ==
    ASSUME LoopbackInv, NEW t \in Nat, slot' = SlotAfter(t), UNCHANGED <<looped, newest, returned>>
    PROVE  LoopbackInv'
<1>1. slot'.id = slot.id /\ (slot' = Empty <=> slot = Empty)
  BY TimeKeepsSlot
<1>2. slot' = Empty \/ slot' \in [id : 1 .. looped, ready : Int]
  BY TimeKeepsSlot
<1>3. QED
  BY <1>1, <1>2 DEF LoopbackInv, LastFrameLoopsBack, Empty

LEMMA SameLoopback ==
    ASSUME LoopbackInv, UNCHANGED <<slot, looped, newest, returned>> PROVE LoopbackInv'
BY DEF LoopbackInv, LastFrameLoopsBack, Empty

LEMMA ClosedLoopback ==
    ASSUME LoopbackInv, slot' = Empty, newest' = 0, UNCHANGED <<looped, returned>> PROVE LoopbackInv'
BY DEF LoopbackInv, LastFrameLoopsBack, Empty

LEMMA MockReceiveKeepsLoopback ==
    ASSUME LoopbackInv, MockReceive PROVE LoopbackInv'
<1>1. CASE MockRefused
  BY <1>1, SameLoopback DEF MockRefused, mock
<1>2. CASE ~MockRefused
  <2>1. UNCHANGED <<looped, newest>>
    BY <1>2 DEF MockReceive
  <2>2. PICK t \in 0 .. TimeSlice + 1 :
            \/ LoopedBack(t) /\ slot' = Empty /\ returned' = returned \union {slot.id}
            \/ slot' = SlotAfter(t) /\ returned' = returned
    BY <1>2 DEF MockReceive
  <2>3. CASE LoopedBack(t) /\ slot' = Empty /\ returned' = returned \union {slot.id}
    <3>1. slot \in [id : 1 .. looped, ready : Int]
      BY <2>3 DEF LoopedBack, LoopbackInv
    <3>2. returned' \subseteq 1 .. looped
      BY <2>3, <3>1 DEF LoopbackInv
    <3>3. newest # 0 => newest \in returned'
      BY <2>3 DEF LoopbackInv, LastFrameLoopsBack
    <3>4. QED
      BY <2>1, <2>3, <3>2, <3>3 DEF LoopbackInv, LastFrameLoopsBack, Empty
  <2>4. CASE slot' = SlotAfter(t) /\ returned' = returned
    BY <2>1, <2>4, WaitingKeepsLoopback DEF TimeSlice
  <2>5. QED
    BY <2>2, <2>3, <2>4
<1>3. QED
  BY <1>1, <1>2

\* A frame sent with the loopback on takes the slot, whatever is in it.
LEMMA MockTransmitKeepsLoopback ==
    ASSUME LoopbackInv, MockTransmit PROVE LoopbackInv'
<1>1. CASE UNCHANGED <<slot, looped, newest, returned>>
  BY <1>1, SameLoopback
<1>2. CASE ~UNCHANGED <<slot, looped, newest, returned>>
  <2>1. /\ looped' = looped + 1 /\ newest' = looped + 1 /\ returned' = returned
        /\ slot' = [id |-> looped + 1, ready |-> ReadyIn]
    BY <1>2 DEF MockTransmit, MockRefused, mock
  <2>2. looped \in Nat /\ returned \subseteq 1 .. looped
    BY DEF LoopbackInv
  <2>3. slot' \in [id : 1 .. looped', ready : Int] /\ slot'.id = newest' /\ slot'.id \notin returned'
    BY <2>1, <2>2 DEF ReadyIn
  <2>4. looped' \in Nat /\ newest' \in 0 .. looped' /\ returned' \subseteq 1 .. looped'
    BY <2>1, <2>2
  <2>5. QED
    BY <2>3, <2>4 DEF LoopbackInv, LastFrameLoopsBack, Empty
<1>3. QED
  BY <1>1, <1>2

LEMMA NextKeepsLoopback == LoopbackInv /\ [Next]_vars => LoopbackInv'
<1> SUFFICES ASSUME LoopbackInv, [Next]_vars PROVE LoopbackInv'
  OBVIOUS
<1>1. CASE UNCHANGED <<slot, looped, newest, returned>>
  BY <1>1, SameLoopback
<1>2. CASE slot' = Empty /\ newest' = 0 /\ UNCHANGED <<looped, returned>>
  BY <1>2, ClosedLoopback
<1>3. UNCHANGED mock => UNCHANGED <<slot, looped, newest, returned>>
  BY DEF mock
<1>4. CASE Initialize \/ GiveUp \/ Unwind
  BY <1>1, <1>2, <1>3, <1>4 DEF Initialize, GiveUp, Unwind, Call, MockClose, MockClosed
<1>5. CASE Open
  BY <1>1, <1>2, <1>3, <1>5 DEF Open, Call, MockOpen, MockClosed
<1>6. CASE Start \/ SetReceiveOn \/ Resume
  BY <1>1, <1>3, <1>6 DEF Start, SetReceiveOn, Resume, Call, MockStartReceive, MockRefused
<1>7. CASE SetReceiveOff \/ Suspend
  BY <1>1, <1>3, <1>7 DEF SetReceiveOff, Suspend, Call, MockStopReceive
<1>8. CASE Receive
  BY <1>1, <1>3, <1>8, MockReceiveKeepsLoopback DEF Receive, Call
<1>9. CASE Transmit
  BY <1>1, <1>3, <1>9, MockTransmitKeepsLoopback DEF Transmit, Call
<1>10. CASE World
  BY <1>1, <1>3, <1>10, WaitingKeepsLoopback DEF World, MockTime
<1>11. CASE SetReceiveDown \/ Retry \/ Stop \/ Restart \/ UNCHANGED vars
  BY <1>1, <1>3, <1>11 DEF SetReceiveDown, Retry, Stop, Restart, vars
<1>12. QED
  BY <1>4, <1>5, <1>6, <1>7, <1>8, <1>9, <1>10, <1>11 DEF Next

\* Until the backend is closed the last frame sent is in the slot of the loopback
\* or received, and only a newer one displaces an older (_pending_loopback of
\* MockRadioBackend), for every airtime, interval and setting.
THEOREM LastFrameAlwaysLoopsBack == Spec => []LastFrameLoopsBack
<1>1. Init => LoopbackInv
  <2>1. Init => slot = Empty /\ looped = 0 /\ newest = 0 /\ returned = {}
    BY DEF Init, MockInit
  <2>2. QED
    BY <2>1 DEF LoopbackInv, LastFrameLoopsBack
<1>2. LoopbackInv => LastFrameLoopsBack
  BY DEF LoopbackInv
<1>3. QED
  BY <1>1, <1>2, NextKeepsLoopback, PTL DEF Spec

-----------------------------------------------------------------------------
(* Induction, in a form without an operator as a parameter.                *)

LEMMA SmallestOf ==
    ASSUME NEW T, T \subseteq Nat, T # {}
    PROVE  \E m \in T : \A n \in T : m <= n
<1>1. \E m \in T : \A n \in T : <<n, m>> \notin OpToRel(<, Nat)
  BY WFMin, NatLessThanWellFounded
<1>2. ASSUME NEW n \in Nat, NEW m \in Nat, ~(<<n, m>> \in OpToRel(<, Nat)) PROVE m <= n
  <2>1. <<n, m>> \in Nat \X Nat
    OBVIOUS
  <2>2. ~(<<n, m>>[1] < <<n, m>>[2])
    BY <1>2, <2>1 DEF OpToRel
  <2>3. QED
    BY <2>2
<1>3. QED
  BY <1>1, <1>2

LEMMA CountingUp ==
    ASSUME NEW S, NEW m \in Nat, 0 \in S, \A n \in 0 .. m - 1 : n \in S => n + 1 \in S
    PROVE  \A n \in 0 .. m : n \in S
<1> DEFINE T == (0 .. m) \ S
<1> SUFFICES ASSUME T # {} PROVE FALSE
  OBVIOUS
<1>1. PICK least \in T : \A n \in T : least <= n
  <2>1. T \subseteq Nat
    OBVIOUS
  <2> HIDE DEF T
  <2>2. QED
    BY <2>1, SmallestOf
<1>2. least - 1 \in 0 .. m - 1 /\ least - 1 \in S
  BY <1>1
<1>3. QED
  BY <1>1, <1>2

-----------------------------------------------------------------------------
(* The decoder, reading one part after the other.                          *)

Parts    == [id : Nat, part : {"head", "tail", "gap"}]
Packets  == [id : Nat, sequence : Nat]
Decoders == [partial : Nat, received : Nat, decoded : Seq(Packets)]

\* A function that reads the first m of some parts.
Reads(r, start, parts, m) ==
    r = [n \in 0 .. m |-> IF n = 0 THEN start ELSE Process(r[n - 1], parts[n])]

LEMMA ReaderExists ==
    ASSUME NEW start, NEW parts, NEW m \in Nat
    PROVE  \E r : Reads(r, start, parts, m)
<1> DEFINE S == {k \in Nat : \E r : Reads(r, start, parts, k)}
<1>1. 0 \in S
  <2>1. Reads([n \in 0 .. 0 |-> start], start, parts, 0)
    BY DEF Reads
  <2>2. QED
    BY <2>1
<1>2. ASSUME NEW k \in 0 .. m - 1, k \in S PROVE k + 1 \in S
  <2>1. PICK r : Reads(r, start, parts, k)
    BY <1>2
  <2> DEFINE s == [n \in 0 .. k + 1 |-> IF n = k + 1 THEN Process(r[k], parts[k + 1]) ELSE r[n]]
  <2>2. \A n \in 0 .. k + 1 : s[n] = IF n = 0 THEN start ELSE Process(s[n - 1], parts[n])
    <3> TAKE n \in 0 .. k + 1
    <3>1. CASE n = k + 1
      BY <3>1
    <3>2. CASE n # k + 1
      <4>1. n \in 0 .. k /\ s[n] = r[n]
        BY <3>2
      <4>2. n # 0 => s[n - 1] = r[n - 1]
        BY <4>1
      <4>3. r[n] = IF n = 0 THEN start ELSE Process(r[n - 1], parts[n])
        BY <2>1, <4>1 DEF Reads
      <4>4. QED
        BY <4>1, <4>2, <4>3
    <3>3. QED
      BY <3>1, <3>2
  <2>3. Reads(s, start, parts, k + 1)
    BY <2>2 DEF Reads
  <2>4. QED
    BY <2>3
<1> HIDE DEF S
<1>3. m \in S
  BY <1>1, <1>2, CountingUp
<1>4. QED
  BY <1>3 DEF S

LEMMA ReadPartsReads ==
    ASSUME NEW start, NEW parts \in Seq(Parts)
    PROVE  LET r == ReadParts(start, parts)
           IN  /\ r[0] = start
               /\ \A n \in 1 .. Len(parts) : r[n] = Process(r[n - 1], parts[n])
<1>1. PICK reader : Reads(reader, start, parts, Len(parts))
  <2>1. Len(parts) \in Nat
    OBVIOUS
  <2>2. QED
    BY <2>1, ReaderExists
<1>2. ReadParts(start, parts) = CHOOSE f : Reads(f, start, parts, Len(parts))
  BY DEF Reads, ReadParts
<1>3. Reads(ReadParts(start, parts), start, parts, Len(parts))
  BY <1>1, <1>2
<1>4. QED
  BY <1>3 DEF Reads

\* One part, by what it is.
Ends(d, p) == p.part = "tail" /\ d.partial = p.id

LEMMA ProcessIs ==
    ASSUME NEW d \in Decoders, NEW p \in Parts
    PROVE  LET e == Process(d, p)
           IN  /\ e \in Decoders
               /\ Ends(d, p) => /\ e.partial = 0 /\ e.received = d.received + 1
                                /\ e.decoded = Append(d.decoded, [id |-> p.id, sequence |-> d.received + 1])
               /\ ~Ends(d, p) => /\ e.received = d.received /\ e.decoded = d.decoded
                                 /\ e.partial = (IF p.part = "head" THEN p.id ELSE 0)
<1> DEFINE e == Process(d, p)
           x == [id |-> p.id, sequence |-> d.received + 1]
<1>1. /\ d.partial \in Nat /\ d.received \in Nat /\ d.decoded \in Seq(Packets) /\ p.id \in Nat
      /\ p.part \in {"head", "tail", "gap"}
  BY DEF Decoders, Parts
<1>2. CASE Ends(d, p)
  <2>1. x \in Packets
    BY <1>1 DEF Packets
  <2>2. e = [partial |-> 0, received |-> d.received + 1, decoded |-> Append(d.decoded, x)]
    BY <1>2 DEF Ends, Process
  <2> HIDE DEF e, x
  <2>3. Append(d.decoded, x) \in Seq(Packets)
    BY <1>1, <2>1
  <2>4. e \in Decoders
    BY <1>1, <2>2, <2>3 DEF Decoders
  <2>5. QED
    BY <1>2, <2>2, <2>4 DEF e, x
<1>3. CASE ~Ends(d, p)
  <2>1. e = [d EXCEPT !.partial = IF p.part = "head" THEN p.id ELSE 0]
    BY <1>1, <1>3 DEF Ends, Process
  <2> HIDE DEF e
  <2>2. e \in Decoders /\ e.received = d.received /\ e.decoded = d.decoded
        /\ e.partial = (IF p.part = "head" THEN p.id ELSE 0)
    BY <1>1, <2>1 DEF Decoders
  <2>3. QED
    BY <1>3, <2>2 DEF e
<1>4. QED
  BY <1>2, <1>3

LEMMA ReadingTypes ==
    ASSUME NEW d \in Decoders, NEW q \in Seq(Parts)
    PROVE  \A n \in 0 .. Len(q) : ReadParts(d, q)[n] \in Decoders
<1> DEFINE r == ReadParts(d, q)
           S == {n \in 0 .. Len(q) : r[n] \in Decoders}
<1>1. 0 \in S
  BY ReadPartsReads
<1>2. ASSUME NEW n \in 0 .. Len(q) - 1, n \in S PROVE n + 1 \in S
  <2>1. Len(q) \in Nat /\ n + 1 \in 1 .. Len(q) /\ q[n + 1] \in Parts
    OBVIOUS
  <2>2. r[n + 1] = Process(r[n], q[n + 1])
    BY <2>1, ReadPartsReads
  <2>3. r[n] \in Decoders
    BY <1>2
  <2> HIDE DEF r
  <2>4. Process(r[n], q[n + 1]) \in Decoders
    BY <2>1, <2>3, ProcessIs
  <2>5. QED
    BY <2>1, <2>2, <2>4
<1> HIDE DEF S
<1>3. \A n \in 0 .. Len(q) : n \in S
  BY <1>1, <1>2, CountingUp
<1>4. QED
  BY <1>3 DEF S

\* What of a decoder stays as it is while it reads.
Prefix(s, t)  == Len(s) <= Len(t) /\ \A k \in DOMAIN s : t[k] = s[k]
Before(d)     == d.received - Len(d.decoded)
Numbered(d)   == \A k \in DOMAIN d.decoded : d.decoded[k].sequence = Before(d) + k
Fresh(d, since) == (d.partial # 0 => d.partial > since) /\ \A k \in DOMAIN d.decoded : d.decoded[k].id > since

\* Of parts, that a head is of a frame after old, and a tail is of some frame.
NewHeads(q, since) == \A k \in DOMAIN q : q[k].part = "head" => q[k].id > since
RealTails(q)     == \A k \in DOMAIN q : q[k].part = "tail" => q[k].id # 0

LEMMA DecodedGrows ==
    ASSUME NEW d \in Decoders, NEW p \in Parts
    PROVE  /\ Prefix(d.decoded, Process(d, p).decoded)
           /\ Before(Process(d, p)) = Before(d)
           /\ Numbered(d) => Numbered(Process(d, p))
<1> DEFINE e == Process(d, p)
           s == d.decoded
           x == [id |-> p.id, sequence |-> d.received + 1]
<1>1. s \in Seq(Packets) /\ d.received \in Nat /\ d.partial \in Nat /\ p.id \in Nat
  BY DEF Decoders, Parts
<1>2. CASE ~Ends(d, p)
  <2>1. /\ e.decoded = s /\ e.received = d.received
        /\ e.partial = (IF p.part = "head" THEN p.id ELSE 0)
    BY <1>2, ProcessIs
  <2> HIDE DEF e
  <2>2. QED
    BY <2>1, <1>1 DEF Prefix, Before, Numbered, e
<1>3. CASE Ends(d, p)
  <2>1. e.decoded = Append(s, x) /\ e.received = d.received + 1 /\ e.partial = 0
    BY <1>3, ProcessIs
  <2>2. x.id = p.id /\ x.sequence = d.received + 1 /\ x \in Packets
    BY <1>1 DEF Packets
  <2> HIDE DEF e, s, x
  <2>3. /\ Len(Append(s, x)) = Len(s) + 1 /\ DOMAIN Append(s, x) = 1 .. Len(s) + 1
        /\ \A k \in 1 .. Len(s) : Append(s, x)[k] = s[k]
        /\ Append(s, x)[Len(s) + 1] = x
        /\ DOMAIN s = 1 .. Len(s) /\ Len(s) \in Nat
    BY <1>1, <2>2
  <2>4. Prefix(s, e.decoded) /\ Before(e) = d.received - Len(s)
    BY <1>1, <2>1, <2>3 DEF Prefix, Before
  <2>5. Numbered(d) => Numbered(e)
    <3> SUFFICES ASSUME Numbered(d), NEW k \in DOMAIN e.decoded
                 PROVE  e.decoded[k].sequence = Before(e) + k
      BY DEF Numbered
    <3>1. CASE k = Len(s) + 1
      BY <1>1, <2>1, <2>2, <2>3, <2>4, <3>1
    <3>2. CASE k # Len(s) + 1
      BY <1>1, <2>1, <2>3, <2>4, <3>2 DEF Numbered, Before, s
    <3>3. QED
      BY <3>1, <3>2
  <2>6. QED
    BY <2>4, <2>5 DEF e, s, Before
<1>4. QED
  BY <1>2, <1>3

\* A part of a newer frame makes nothing older; a tail without its head makes nothing.
LEMMA DecodedIsFresh ==
    ASSUME NEW d \in Decoders, NEW p \in Parts, NEW since \in Nat, Fresh(d, since),
           p.part = "head" => p.id > since, p.part = "tail" => p.id # 0
    PROVE  Fresh(Process(d, p), since)
<1> DEFINE e == Process(d, p)
           s == d.decoded
           x == [id |-> p.id, sequence |-> d.received + 1]
<1>1. s \in Seq(Packets) /\ d.partial \in Nat /\ p.id \in Nat
  BY DEF Decoders, Parts
<1>2. CASE Ends(d, p)
  <2>1. e.decoded = Append(s, x) /\ e.partial = 0
    BY <1>2, ProcessIs
  <2>2. x.id > since
    BY <1>2 DEF Ends, Fresh
  <2> HIDE DEF e, s, x
  <2>3. /\ DOMAIN Append(s, x) = 1 .. Len(s) + 1 /\ Len(s) \in Nat
        /\ \A k \in 1 .. Len(s) : Append(s, x)[k] = s[k]
        /\ Append(s, x)[Len(s) + 1] = x
        /\ DOMAIN s = 1 .. Len(s)
    BY <1>1
  <2>4. Fresh(e, since)
    BY <2>1, <2>2, <2>3 DEF Fresh, s
  <2>5. QED
    BY <2>4 DEF e
<1>3. CASE ~Ends(d, p)
  <2>1. e.decoded = s /\ e.partial = (IF p.part = "head" THEN p.id ELSE 0)
    BY <1>3, ProcessIs
  <2> HIDE DEF e
  <2>2. Fresh(e, since)
    BY <2>1 DEF Fresh
  <2>3. QED
    BY <2>2 DEF e
<1>4. QED
  BY <1>2, <1>3

LEMMA ReadingStep ==
    ASSUME NEW d \in Decoders, NEW q \in Seq(Parts), NEW n \in 0 .. Len(q) - 1
    PROVE  LET r == ReadParts(d, q)
           IN  /\ n + 1 \in 1 .. Len(q) /\ n + 1 \in DOMAIN q /\ q[n + 1] \in Parts
               /\ r[n] \in Decoders /\ r[n + 1] \in Decoders
               /\ r[n + 1] = Process(r[n], q[n + 1])
<1> DEFINE r == ReadParts(d, q)
<1>1. Len(q) \in Nat /\ n \in 0 .. Len(q) /\ n + 1 \in 1 .. Len(q) /\ n + 1 \in 0 .. Len(q)
      /\ n + 1 - 1 = n
  OBVIOUS
<1>2. n + 1 \in DOMAIN q /\ q[n + 1] \in Parts
  OBVIOUS
<1>3. r[n] \in Decoders /\ r[n + 1] \in Decoders
  BY <1>1, ReadingTypes
<1>4. r[n + 1] = Process(r[n], q[n + 1])
  BY <1>1, ReadPartsReads
<1>5. QED
  BY <1>1, <1>2, <1>3, <1>4

\* What is decoded is numbered on and on, and stays decoded.
LEMMA ReadingNumbers ==
    ASSUME NEW d \in Decoders, NEW q \in Seq(Parts), Numbered(d)
    PROVE  \A n \in 0 .. Len(q) : /\ Before(ReadParts(d, q)[n]) = Before(d)
                                  /\ Numbered(ReadParts(d, q)[n])
<1> DEFINE r == ReadParts(d, q)
           S == {n \in 0 .. Len(q) : Before(r[n]) = Before(d) /\ Numbered(r[n])}
<1>1. 0 \in S
  <2>1. r[0] = d /\ Len(q) \in Nat
    BY ReadPartsReads
  <2>2. QED
    BY <2>1
<1>2. ASSUME NEW n \in 0 .. Len(q) - 1, n \in S PROVE n + 1 \in S
  <2>1. /\ r[n] \in Decoders /\ q[n + 1] \in Parts /\ r[n + 1] = Process(r[n], q[n + 1])
        /\ n + 1 \in 0 .. Len(q)
    BY ReadingStep
  <2>2. Before(r[n]) = Before(d) /\ Numbered(r[n])
    BY <1>2
  <2> HIDE DEF r
  <2>3. Before(r[n + 1]) = Before(d) /\ Numbered(r[n + 1])
    BY <2>1, <2>2, DecodedGrows
  <2>4. QED
    BY <2>1, <2>3
<1> HIDE DEF S
<1>3. \A n \in 0 .. Len(q) : n \in S
  BY <1>1, <1>2, CountingUp
<1>4. QED
  BY <1>3 DEF S

LEMMA ReadingKeeps ==
    ASSUME NEW d \in Decoders, NEW q \in Seq(Parts), NEW m \in 0 .. Len(q)
    PROVE  \A n \in m .. Len(q) : Prefix(ReadParts(d, q)[m].decoded, ReadParts(d, q)[n].decoded)
<1> DEFINE r == ReadParts(d, q)
           S == {n \in 0 .. Len(q) : n >= m => Prefix(r[m].decoded, r[n].decoded)}
<1>0. r[m] \in Decoders
  BY ReadingTypes
<1>1. 0 \in S
  <2>1. Prefix(r[m].decoded, r[m].decoded)
    BY <1>0 DEF Prefix, Decoders
  <2>2. QED
    BY <2>1
<1>2. ASSUME NEW n \in 0 .. Len(q) - 1, n \in S PROVE n + 1 \in S
  <2>1. /\ r[n] \in Decoders /\ q[n + 1] \in Parts /\ r[n + 1] = Process(r[n], q[n + 1])
        /\ n + 1 \in 0 .. Len(q) /\ r[n + 1] \in Decoders
    BY ReadingStep
  <2>2. n >= m => Prefix(r[m].decoded, r[n].decoded)
    BY <1>2
  <2> HIDE DEF r
  <2>3. Prefix(r[n].decoded, r[n + 1].decoded)
    BY <2>1, DecodedGrows
  <2>4. ASSUME NEW s \in Seq(Packets), NEW t \in Seq(Packets), NEW u \in Seq(Packets),
               Prefix(s, t), Prefix(t, u)
        PROVE  Prefix(s, u)
    BY <2>4 DEF Prefix
  <2>5. r[m].decoded \in Seq(Packets) /\ r[n].decoded \in Seq(Packets) /\ r[n + 1].decoded \in Seq(Packets)
    BY <1>0, <2>1 DEF Decoders
  <2>6. n >= m => Prefix(r[m].decoded, r[n + 1].decoded)
    BY <2>2, <2>3, <2>4, <2>5
  <2>7. n + 1 = m => Prefix(r[m].decoded, r[n + 1].decoded)
    BY <2>5 DEF Prefix
  <2>8. QED
    BY <2>1, <2>6, <2>7
<1> HIDE DEF S
<1>3. \A n \in 0 .. Len(q) : n \in S
  BY <1>1, <1>2, CountingUp
<1>4. QED
  BY <1>3 DEF S

\* A decoder that holds nothing older reads nothing older: a tail without its
\* head makes no packet.
LEMMA ReadingIsFresh ==
    ASSUME NEW d \in Decoders, NEW q \in Seq(Parts), NEW since \in Nat,
           Fresh(d, since), NewHeads(q, since), RealTails(q)
    PROVE  \A n \in 0 .. Len(q) : Fresh(ReadParts(d, q)[n], since)
<1> DEFINE r == ReadParts(d, q)
           S == {n \in 0 .. Len(q) : Fresh(r[n], since)}
<1>1. 0 \in S
  <2>1. r[0] = d /\ Len(q) \in Nat
    BY ReadPartsReads
  <2>2. QED
    BY <2>1
<1>2. ASSUME NEW n \in 0 .. Len(q) - 1, n \in S PROVE n + 1 \in S
  <2>1. /\ r[n] \in Decoders /\ q[n + 1] \in Parts /\ r[n + 1] = Process(r[n], q[n + 1])
        /\ n + 1 \in 0 .. Len(q) /\ n + 1 \in DOMAIN q
    BY ReadingStep
  <2>2. /\ q[n + 1].part = "head" => q[n + 1].id > since
        /\ q[n + 1].part = "tail" => q[n + 1].id # 0
    BY <2>1 DEF NewHeads, RealTails
  <2>3. Fresh(r[n], since)
    BY <1>2
  <2> HIDE DEF r
  <2>4. Fresh(Process(r[n], q[n + 1]), since)
    BY <2>1, <2>2, <2>3, DecodedIsFresh
  <2>5. Fresh(r[n + 1], since)
    BY <2>1, <2>4
  <2>6. QED
    BY <2>1, <2>5
<1> HIDE DEF S
<1>3. \A n \in 0 .. Len(q) : n \in S
  BY <1>1, <1>2, CountingUp
<1>4. QED
  BY <1>3 DEF S

\* Parts that arrive later change nothing of what is read before them.
LEMMA ReadingLonger ==
    ASSUME NEW d \in Decoders, NEW q \in Seq(Parts), NEW p \in Seq(Parts), Prefix(q, p)
    PROVE  \A n \in 0 .. Len(q) : ReadParts(d, p)[n] = ReadParts(d, q)[n]
<1> DEFINE r == ReadParts(d, q)
           s == ReadParts(d, p)
           S == {n \in 0 .. Len(q) : s[n] = r[n]}
<1>0. Len(q) \in Nat /\ Len(p) \in Nat /\ Len(q) <= Len(p)
  BY DEF Prefix
<1>1. 0 \in S
  <2>1. r[0] = d /\ s[0] = d
    BY ReadPartsReads
  <2>2. QED
    BY <1>0, <2>1
<1>2. ASSUME NEW n \in 0 .. Len(q) - 1, n \in S PROVE n + 1 \in S
  <2>1. r[n + 1] = Process(r[n], q[n + 1]) /\ n + 1 \in 0 .. Len(q) /\ n + 1 \in DOMAIN q
    BY ReadingStep
  <2>2. n \in 0 .. Len(p) - 1
    BY <1>0
  <2>3. s[n + 1] = Process(s[n], p[n + 1])
    BY <2>2, ReadingStep
  <2>4. p[n + 1] = q[n + 1]
    BY <2>1 DEF Prefix
  <2>5. s[n] = r[n]
    BY <1>2
  <2>6. QED
    BY <2>1, <2>3, <2>4, <2>5
<1> HIDE DEF S
<1>3. \A n \in 0 .. Len(q) : n \in S
  BY <1>0, <1>1, <1>2, CountingUp
<1>4. QED
  BY <1>3 DEF S

LEMMA PartialAfter ==
    ASSUME NEW d \in Decoders, NEW p \in Parts
    PROVE  Process(d, p).partial = IF p.part = "head" THEN p.id ELSE 0
<1>1. CASE Ends(d, p)
  BY <1>1, ProcessIs DEF Ends
<1>2. CASE ~Ends(d, p)
  BY <1>2, ProcessIs
<1>3. QED
  BY <1>1, <1>2

\* Where the decoder is in a frame does not depend on what it has decoded.
LEMMA PartialAlone ==
    ASSUME NEW d \in Decoders, NEW e \in Decoders, NEW q \in Seq(Parts), d.partial = e.partial
    PROVE  \A n \in 0 .. Len(q) : ReadParts(e, q)[n].partial = ReadParts(d, q)[n].partial
<1> DEFINE r == ReadParts(d, q)
           s == ReadParts(e, q)
           S == {n \in 0 .. Len(q) : s[n].partial = r[n].partial}
<1>0. Len(q) \in Nat
  OBVIOUS
<1>1. 0 \in S
  <2>1. r[0] = d /\ s[0] = e
    BY ReadPartsReads
  <2>2. QED
    BY <1>0, <2>1
<1>2. ASSUME NEW n \in 0 .. Len(q) - 1, n \in S PROVE n + 1 \in S
  <2>1. /\ n + 1 \in 0 .. Len(q) /\ q[n + 1] \in Parts
        /\ r[n] \in Decoders /\ r[n + 1] = Process(r[n], q[n + 1])
        /\ s[n] \in Decoders /\ s[n + 1] = Process(s[n], q[n + 1])
    BY ReadingStep
  <2>2. Process(s[n], q[n + 1]).partial = Process(r[n], q[n + 1]).partial
    BY <2>1, PartialAfter
  <2>4. QED
    BY <2>1, <2>2
<1> HIDE DEF S
<1>3. \A n \in 0 .. Len(q) : n \in S
  BY <1>0, <1>1, <1>2, CountingUp
<1>4. QED
  BY <1>3 DEF S

-----------------------------------------------------------------------------
(* What the Linux backend has heard.                                       *)

\* A frame is safe: handed out, decoded, or about to be, since the decoder will be
\* in the middle of it when it comes to its tail.
SafeIn(id, gone, d, q) ==
    \/ id \in gone
    \/ \E k \in DOMAIN d.decoded : d.decoded[k].id = id
    \/ \E k \in DOMAIN q : q[k] = Part(id, "tail") /\ ReadParts(d, q)[k - 1].partial = id

HeardTypes ==
    /\ frames \in Nat /\ old \in 0 .. frames /\ onAir \in 0 .. frames
    /\ DecoderNow \in Decoders /\ kernel \in Seq(Parts) /\ RealTails(kernel)

FreshInv == Fresh(DecoderNow, old) /\ (receiving => NewHeads(kernel, old))

KeptInv ==
    /\ ~receiving => owed = {}
    /\ receiving /\ Listening /\ onAir > old =>
           ReadParts(DecoderNow, kernel)[Len(kernel)].partial = onAir
    /\ \A id \in owed : SafeIn(id, handed, DecoderNow, kernel)

HeardInv == HeardTypes /\ FreshInv /\ KeptInv /\ Numbered(DecoderNow)

LEMMA PartsOfKernel ==
    ASSUME NEW q \in Seq(Parts), NEW p \in Parts, NEW d \in Decoders
    PROVE  /\ Append(q, p) \in Seq(Parts) /\ Len(Append(q, p)) = Len(q) + 1
           /\ Append(q, p)[Len(q) + 1] = p /\ Len(q) + 1 \in DOMAIN Append(q, p)
           /\ \A k \in DOMAIN Append(q, p) : k \in DOMAIN q \/ k = Len(q) + 1
           /\ \A k \in DOMAIN q : Append(q, p)[k] = q[k]
           /\ Prefix(q, Append(q, p))
           /\ ReadParts(d, Append(q, p))[Len(q)] = ReadParts(d, q)[Len(q)]
           /\ ReadParts(d, Append(q, p))[Len(q) + 1] = Process(ReadParts(d, q)[Len(q)], p)
<1> DEFINE s == Append(q, p)
<1>1. /\ s \in Seq(Parts) /\ Len(s) = Len(q) + 1 /\ Len(q) \in Nat
      /\ DOMAIN s = 1 .. Len(q) + 1 /\ DOMAIN q = 1 .. Len(q)
      /\ s[Len(q) + 1] = p /\ \A k \in 1 .. Len(q) : s[k] = q[k]
  OBVIOUS
<1> HIDE DEF s
<1>2. Prefix(q, s)
  BY <1>1 DEF Prefix
<1>3. ReadParts(d, s)[Len(q)] = ReadParts(d, q)[Len(q)]
  <2>1. Len(q) \in 0 .. Len(q)
    BY <1>1
  <2>2. QED
    BY <1>1, <1>2, <2>1, ReadingLonger
<1>4. ReadParts(d, s)[Len(q) + 1] = Process(ReadParts(d, s)[Len(q)], s[Len(q) + 1])
  <2>1. Len(q) \in 0 .. Len(s) - 1
    BY <1>1
  <2>2. QED
    BY <1>1, <2>1, ReadingStep
<1>5. QED
  BY <1>1, <1>2, <1>3, <1>4 DEF s

LEMMA SafeLonger ==
    ASSUME NEW d \in Decoders, NEW q \in Seq(Parts), NEW p \in Seq(Parts), Prefix(q, p),
           NEW id, NEW gone, SafeIn(id, gone, d, q)
    PROVE  SafeIn(id, gone, d, p)
<1>1. ASSUME NEW k \in DOMAIN q, q[k] = Part(id, "tail"), ReadParts(d, q)[k - 1].partial = id
      PROVE  k \in DOMAIN p /\ p[k] = Part(id, "tail") /\ ReadParts(d, p)[k - 1].partial = id
  <2>1. k \in DOMAIN p /\ p[k] = q[k] /\ k - 1 \in 0 .. Len(q)
    BY DEF Prefix
  <2>2. ReadParts(d, p)[k - 1] = ReadParts(d, q)[k - 1]
    BY <2>1, ReadingLonger
  <2>3. QED
    BY <1>1, <2>1, <2>2
<1>2. QED
  BY <1>1 DEF SafeIn

\* Whatever is safe is decoded when everything is read.
LEMMA SafeRead ==
    ASSUME NEW d \in Decoders, NEW q \in Seq(Parts), NEW id, NEW gone, SafeIn(id, gone, d, q)
    PROVE  \/ id \in gone
           \/ \E k \in DOMAIN ReadParts(d, q)[Len(q)].decoded :
                  ReadParts(d, q)[Len(q)].decoded[k].id = id
<1> DEFINE r == ReadParts(d, q)
           e == r[Len(q)]
<1>0. Len(q) \in Nat /\ DOMAIN q = 1 .. Len(q)
  OBVIOUS
<1>1. ASSUME NEW m \in 0 .. Len(q), NEW k \in DOMAIN r[m].decoded, r[m].decoded[k].id = id
      PROVE  k \in DOMAIN e.decoded /\ e.decoded[k].id = id
  <2>1. Prefix(r[m].decoded, e.decoded)
    <3>1. Len(q) \in m .. Len(q)
      BY <1>0
    <3>2. QED
      BY <3>1, ReadingKeeps
  <2>2. r[m] \in Decoders /\ e \in Decoders
    <3>1. Len(q) \in 0 .. Len(q)
      BY <1>0
    <3>2. QED
      BY <3>1, ReadingTypes
  <2> HIDE DEF r, e
  <2>3. r[m].decoded \in Seq(Packets) /\ e.decoded \in Seq(Packets)
    BY <2>2 DEF Decoders
  <2>4. QED
    BY <1>1, <2>1, <2>3 DEF Prefix
<1>2. CASE \E k \in DOMAIN d.decoded : d.decoded[k].id = id
  <2>1. r[0] = d /\ 0 \in 0 .. Len(q)
    BY <1>0, ReadPartsReads
  <2> HIDE DEF r, e
  <2>2. QED
    BY <1>1, <1>2, <2>1 DEF e, r
<1>3. ASSUME NEW k \in DOMAIN q, q[k] = Part(id, "tail"), r[k - 1].partial = id
      PROVE  \E j \in DOMAIN e.decoded : e.decoded[j].id = id
  <2> DEFINE s == r[k - 1].decoded
             x == [id |-> q[k].id, sequence |-> r[k - 1].received + 1]
  <2>1. k - 1 \in 0 .. Len(q) - 1 /\ k - 1 + 1 = k /\ k \in 0 .. Len(q)
    BY <1>0
  <2>2. r[k - 1] \in Decoders /\ q[k] \in Parts /\ r[k] = Process(r[k - 1], q[k])
    BY <2>1, ReadingStep
  <2>3. Ends(r[k - 1], q[k]) /\ q[k].id = id
    BY <1>3 DEF Ends, Part
  <2> HIDE DEF r
  <2>4. r[k].decoded = Append(s, x) /\ x.id = id
    BY <2>2, <2>3, ProcessIs
  <2>5. s \in Seq(Packets)
    BY <2>2 DEF Decoders
  <2> HIDE DEF s, x
  <2>6. Len(s) + 1 \in DOMAIN Append(s, x) /\ Append(s, x)[Len(s) + 1] = x
    BY <2>5
  <2>7. Len(s) + 1 \in DOMAIN r[k].decoded /\ r[k].decoded[Len(s) + 1].id = id
    BY <2>4, <2>6
  <2>8. QED
    BY <1>1, <2>1, <2>7
<1>4. QED
  BY <1>2, <1>3 DEF SafeIn

\* Whatever does not read: the decoder stays, and the kernel has what it had, or more.
LEMMA UnreadKeepsHeard ==
    ASSUME HeardInv, UNCHANGED <<partial, received, decoded, old, handed, receiving>>,
           kernel' \in Seq(Parts), Prefix(kernel, kernel'), RealTails(kernel'),
           receiving => NewHeads(kernel', old),
           frames' \in Nat, frames' >= frames, onAir' \in 0 .. frames',
           receiving /\ Listening' /\ onAir' > old =>
               ReadParts(DecoderNow, kernel')[Len(kernel')].partial = onAir',
           \A id \in owed' : id \in owed \/ SafeIn(id, handed, DecoderNow, kernel'),
           ~receiving => owed' = {}
    PROVE  HeardInv'
<1>1. DecoderNow' = DecoderNow
  BY DEF DecoderNow
<1>2. HeardTypes'
  BY <1>1 DEF HeardInv, HeardTypes
<1>3. FreshInv' /\ Numbered(DecoderNow)'
  BY <1>1 DEF HeardInv, FreshInv
<1>4. ASSUME NEW id \in owed' PROVE SafeIn(id, handed', DecoderNow', kernel')
  <2>1. CASE id \in owed
    <3>1. SafeIn(id, handed, DecoderNow, kernel) /\ DecoderNow \in Decoders /\ kernel \in Seq(Parts)
      BY <2>1 DEF HeardInv, KeptInv, HeardTypes
    <3>2. SafeIn(id, handed, DecoderNow, kernel')
      BY <3>1, SafeLonger
    <3>3. QED
      BY <1>1, <3>2
  <2>2. CASE SafeIn(id, handed, DecoderNow, kernel')
    BY <1>1, <2>2
  <2>3. QED
    BY <1>4, <2>1, <2>2
<1>5. KeptInv'
  BY <1>1, <1>4 DEF KeptInv
<1>6. QED
  BY <1>2, <1>3, <1>5 DEF HeardInv

LEMMA EmptyIsParts ==
    /\ <<>> \in Seq(Parts) /\ RealTails(<<>>) /\ \A since : NewHeads(<<>>, since)
    /\ <<>> \in Seq(Packets) /\ Len(<<>>) = 0
BY DEF RealTails, NewHeads

\* The session of a receiver ends, or there is none.
LEMMA RestKeepsHeard ==
    ASSUME HeardInv, partial' = 0, decoded' = <<>>, owed' = {}, receiving' = FALSE,
           kernel' = <<>> \/ kernel' = kernel, UNCHANGED <<received, old, onAir, frames>>
    PROVE  HeardInv'
<1>1. DecoderNow' = [partial |-> 0, received |-> received, decoded |-> <<>>]
  BY DEF DecoderNow
<1>2. received \in Nat
  BY DEF HeardInv, HeardTypes, DecoderNow, Decoders
<1>3. DecoderNow' \in Decoders
  BY <1>1, <1>2, EmptyIsParts DEF Decoders
<1>4. kernel' \in Seq(Parts) /\ RealTails(kernel')
  BY EmptyIsParts DEF HeardInv, HeardTypes
<1>5. HeardTypes'
  BY <1>3, <1>4 DEF HeardInv, HeardTypes
<1>6. Fresh(DecoderNow', old') /\ Numbered(DecoderNow')
  BY <1>1 DEF Fresh, Numbered
<1>7. KeptInv'
  BY DEF KeptInv
<1>8. QED
  BY <1>5, <1>6, <1>7 DEF HeardInv, FreshInv

LEMMA DrainKeepsHeard ==
    ASSUME HeardInv, StartReceiving, UNCHANGED <<received, onAir, frames>>
    PROVE  HeardInv'
<1>1. /\ partial' = 0 /\ decoded' = <<>> /\ owed' = {} /\ kernel' = <<>> /\ old' = frames
      /\ DecoderNow' = [partial |-> 0, received |-> received, decoded |-> <<>>]
  BY DEF StartReceiving, Forget, DecoderNow
<1>2. received \in Nat /\ frames \in Nat /\ onAir \in 0 .. frames
  BY DEF HeardInv, HeardTypes, DecoderNow, Decoders
<1>3. DecoderNow' \in Decoders
  BY <1>1, <1>2, EmptyIsParts DEF Decoders
<1>4. HeardTypes'
  BY <1>1, <1>2, <1>3, EmptyIsParts DEF HeardTypes
<1>5. Fresh(DecoderNow', old') /\ Numbered(DecoderNow') /\ NewHeads(kernel', old')
  BY <1>1, EmptyIsParts DEF Fresh, Numbered
<1>6. KeptInv'
  BY <1>1, <1>2 DEF KeptInv
<1>7. QED
  BY <1>4, <1>5, <1>6 DEF HeardInv, FreshInv

\* What is read is decoded; what is handed out is the oldest of it.
LEMMA ReadKeepsHeard ==
    ASSUME HeardInv, receiving, UNCHANGED <<old, owed, onAir, frames, receiving, rx>>, kernel' = <<>>,
           LET e == ReadParts(DecoderNow, kernel)[Len(kernel)]
           IN  /\ partial' = e.partial /\ received' = e.received
               /\ \/ decoded' = e.decoded /\ handed' = handed
                  \/ /\ e.decoded # <<>> /\ decoded' = Tail(e.decoded)
                     /\ handed' = handed \union {Head(e.decoded).id}
    PROVE  HeardInv' /\ \A id \in handed' \ handed : id > old
<1> DEFINE d == DecoderNow
           e == ReadParts(d, kernel)[Len(kernel)]
           s == e.decoded
<1>1. d \in Decoders /\ kernel \in Seq(Parts) /\ RealTails(kernel) /\ NewHeads(kernel, old)
      /\ Fresh(d, old) /\ Numbered(d) /\ Len(kernel) \in Nat /\ old \in Nat
  BY DEF HeardInv, HeardTypes, FreshInv
<1>2. Len(kernel) \in 0 .. Len(kernel)
  BY <1>1
<1>3. e \in Decoders
  BY <1>1, <1>2, ReadingTypes
<1>4. Fresh(e, old)
  BY <1>1, <1>2, ReadingIsFresh
<1>5. Numbered(e)
  BY <1>1, <1>2, ReadingNumbers
<1>6. ASSUME NEW id \in owed PROVE id \in handed \/ \E k \in DOMAIN s : s[k].id = id
  <2>1. SafeIn(id, handed, d, kernel)
    BY DEF HeardInv, KeptInv
  <2>2. QED
    BY <1>1, <2>1, SafeRead
<1>7. receiving /\ Listening /\ onAir > old => e.partial = onAir
  BY DEF HeardInv, KeptInv
<1>8. /\ partial' = e.partial /\ received' = e.received
      /\ \/ decoded' = s /\ handed' = handed
         \/ s # <<>> /\ decoded' = Tail(s) /\ handed' = handed \union {Head(s).id}
  OBVIOUS
<1>9. s \in Seq(Packets) /\ e.partial \in Nat /\ e.received \in Nat
  BY <1>3 DEF Decoders
<1> HIDE DEF e
<1>10. DecoderNow' = [partial |-> e.partial, received |-> e.received, decoded |-> decoded']
  BY <1>8 DEF DecoderNow
<1>11. /\ decoded' \in Seq(Packets)
       /\ \A k \in DOMAIN decoded' : decoded'[k].id > old
       /\ \A id \in handed' \ handed : id > old
       /\ \A id \in owed : id \in handed' \/ \E k \in DOMAIN decoded' : decoded'[k].id = id
       /\ \A k \in DOMAIN decoded' : decoded'[k].sequence = e.received - Len(decoded') + k
  <2>0. /\ \A k \in DOMAIN s : s[k].id > old
        /\ \A k \in DOMAIN s : s[k].sequence = e.received - Len(s) + k
    BY <1>4, <1>5 DEF Fresh, Numbered, Before
  <2> HIDE DEF s
  <2>1. CASE decoded' = s /\ handed' = handed
    BY <1>6, <1>9, <2>0, <2>1
  <2>2. CASE s # <<>> /\ decoded' = Tail(s) /\ handed' = handed \union {Head(s).id}
    <3> DEFINE t == Tail(s)
    <3>1. /\ t \in Seq(Packets) /\ Len(t) = Len(s) - 1 /\ Len(s) \in Nat \ {0}
          /\ DOMAIN t = 1 .. Len(s) - 1 /\ DOMAIN s = 1 .. Len(s)
          /\ \A k \in 1 .. Len(s) - 1 : t[k] = s[k + 1]
          /\ Head(s) = s[1]
      BY <1>9, <2>2
    <3> HIDE DEF t
    <3>2. decoded' = t /\ handed' = handed \union {s[1].id} /\ 1 \in DOMAIN s
      BY <2>2, <3>1 DEF t
    <3>3. \A k \in DOMAIN t : k + 1 \in DOMAIN s
      BY <3>1
    <3>4. ASSUME NEW k \in DOMAIN t PROVE t[k].id > old /\ t[k].sequence = e.received - Len(t) + k
      <4>1. t[k] = s[k + 1] /\ k + 1 \in DOMAIN s /\ k \in Int
        BY <3>1
      <4>2. s[k + 1].id > old /\ s[k + 1].sequence = e.received - Len(s) + (k + 1)
        BY <2>0, <4>1
      <4>3. e.received - Len(s) + (k + 1) = e.received - Len(t) + k
        BY <1>9, <3>1, <4>1
      <4>4. QED
        BY <4>1, <4>2, <4>3
    <3>5. ASSUME NEW id \in owed PROVE id \in handed' \/ \E k \in DOMAIN t : t[k].id = id
      <4>1. CASE id \in handed
        BY <3>2, <4>1
      <4>2. ASSUME NEW k \in DOMAIN s, s[k].id = id
            PROVE  id \in handed' \/ \E j \in DOMAIN t : t[j].id = id
        <5>1. CASE k = 1
          BY <3>2, <4>2, <5>1
        <5>2. CASE k # 1
          <6>1. k - 1 \in DOMAIN t /\ t[k - 1] = s[k]
            BY <3>1, <5>2
          <6>2. QED
            BY <4>2, <6>1
        <5>3. QED
          BY <5>1, <5>2
      <4>3. QED
        BY <1>6, <4>1, <4>2
    <3>6. \A id \in handed' \ handed : id > old
      BY <2>0, <3>2
    <3>7. QED
      BY <3>1, <3>2, <3>4, <3>5, <3>6
  <2>3. QED
    BY <1>8, <2>1, <2>2
<1> HIDE DEF s
<1>12. DecoderNow' \in Decoders
  BY <1>9, <1>10, <1>11 DEF Decoders
<1>13. HeardTypes'
  BY <1>12, EmptyIsParts DEF HeardInv, HeardTypes
<1>14. Fresh(DecoderNow', old') /\ Numbered(DecoderNow') /\ NewHeads(kernel', old')
  <2>1. e.partial # 0 => e.partial > old
    BY <1>4 DEF Fresh
  <2>2. QED
    BY <1>10, <1>11, <2>1, EmptyIsParts DEF Fresh, Numbered, Before
<1>15. ReadParts(DecoderNow', kernel')[Len(kernel')] = DecoderNow'
  BY <1>12, EmptyIsParts, ReadPartsReads
<1>16. Listening' = Listening
  BY DEF Listening, NoFd
<1>17. ASSUME NEW id \in owed' PROVE SafeIn(id, handed', DecoderNow', kernel')
  BY <1>10, <1>11 DEF SafeIn
<1>18. KeptInv'
  BY <1>7, <1>10, <1>15, <1>16, <1>17 DEF KeptInv
<1>19. QED
  BY <1>11, <1>13, <1>14, <1>18 DEF HeardInv, FreshInv

LEMMA PartArrives ==
    ASSUME HeardInv, NEW p \in Parts, p.part = "tail" => p.id # 0, p.part = "head" => p.id > old
    PROVE  LET q == Append(kernel, p)
           IN  /\ q \in Seq(Parts) /\ Prefix(kernel, q) /\ RealTails(q)
               /\ receiving => NewHeads(q, old)
               /\ Len(q) \in DOMAIN q /\ q[Len(q)] = p
               /\ ReadParts(DecoderNow, q)[Len(q)] =
                      Process(ReadParts(DecoderNow, kernel)[Len(kernel)], p)
               /\ ReadParts(DecoderNow, q)[Len(q) - 1] = ReadParts(DecoderNow, kernel)[Len(kernel)]
<1> DEFINE q == Append(kernel, p)
<1>1. DecoderNow \in Decoders /\ kernel \in Seq(Parts) /\ RealTails(kernel)
      /\ (receiving => NewHeads(kernel, old)) /\ Len(kernel) \in Nat
  BY DEF HeardInv, HeardTypes, FreshInv
<1>2. /\ q \in Seq(Parts) /\ Len(q) = Len(kernel) + 1 /\ Prefix(kernel, q)
      /\ \A k \in DOMAIN q : k \in DOMAIN kernel \/ k = Len(kernel) + 1
      /\ \A k \in DOMAIN kernel : q[k] = kernel[k]
      /\ q[Len(kernel) + 1] = p /\ Len(kernel) + 1 \in DOMAIN q
      /\ ReadParts(DecoderNow, q)[Len(kernel) + 1] =
             Process(ReadParts(DecoderNow, kernel)[Len(kernel)], p)
      /\ ReadParts(DecoderNow, q)[Len(kernel)] = ReadParts(DecoderNow, kernel)[Len(kernel)]
  BY <1>1, PartsOfKernel
<1> HIDE DEF q
<1>3. RealTails(q) /\ (receiving => NewHeads(q, old))
  BY <1>1, <1>2 DEF RealTails, NewHeads
<1>4. Len(q) - 1 = Len(kernel)
  BY <1>1, <1>2
<1>5. QED
  BY <1>2, <1>3, <1>4 DEF q

LEMMA HeardNow ==
    ASSUME HeardInv
    PROVE  /\ frames \in Nat /\ old \in 0 .. frames /\ onAir \in 0 .. frames
           /\ kernel \in Seq(Parts) /\ Prefix(kernel, kernel) /\ RealTails(kernel)
           /\ receiving => NewHeads(kernel, old)
           /\ ~receiving => owed = {}
           /\ receiving /\ Listening /\ onAir > old =>
                  ReadParts(DecoderNow, kernel)[Len(kernel)].partial = onAir
           /\ ReadParts(DecoderNow, kernel)[Len(kernel)] \in Decoders
<1>1. kernel \in Seq(Parts) /\ DecoderNow \in Decoders /\ Len(kernel) \in 0 .. Len(kernel)
  BY DEF HeardInv, HeardTypes
<1>2. ReadParts(DecoderNow, kernel)[Len(kernel)] \in Decoders
  BY <1>1, ReadingTypes
<1>3. Prefix(kernel, kernel)
  BY <1>1 DEF Prefix
<1>4. QED
  BY <1>2, <1>3 DEF HeardInv, HeardTypes, FreshInv, KeptInv

LEMMA StillHeard ==
    ASSUME HeardInv,
           UNCHANGED <<partial, received, decoded, old, handed, receiving, kernel, onAir, frames>>,
           owed' \subseteq owed, receiving => Listening' = Listening \/ ~Listening'
    PROVE  HeardInv'
BY HeardNow, UnreadKeepsHeard

LEMMA AirKeepsHeard ==
    ASSUME HeardInv, FrameBegins \/ FrameEnds \/ FrameBreaks PROVE HeardInv'
<1>1. UNCHANGED <<partial, received, decoded, old, handed, receiving, rx>> /\ Listening' = Listening
  BY DEF FrameBegins, FrameEnds, FrameBreaks, Unheard, Listening, NoFd
<1> DEFINE e == ReadParts(DecoderNow, kernel)[Len(kernel)]
<1>2. CASE FrameBegins
  <2> DEFINE p == Part(frames + 1, "head")
  <2>1. frames' = frames + 1 /\ onAir' = frames + 1 /\ owed' = owed /\ Buffer(p)
    BY <1>2 DEF FrameBegins
  <2>2. p \in Parts /\ p.part = "head" /\ p.id = frames + 1 /\ p.id > old
    BY HeardNow DEF Part, Parts
  <2> HIDE DEF p
  <2>3. CASE Listening
    <3>1. kernel' = Append(kernel, p)
      BY <2>1, <2>3 DEF Buffer
    <3>2. ReadParts(DecoderNow, kernel')[Len(kernel')] = Process(e, p)
      BY <2>2, <3>1, PartArrives
    <3>3. Process(e, p).partial = frames + 1
      BY <2>2, HeardNow, ProcessIs DEF Ends
    <3>4. kernel' \in Seq(Parts) /\ Prefix(kernel, kernel') /\ RealTails(kernel')
          /\ (receiving => NewHeads(kernel', old))
      BY <2>2, <3>1, PartArrives
    <3>5. QED
      BY <1>1, <2>1, <3>2, <3>3, <3>4, HeardNow, UnreadKeepsHeard
  <2>4. CASE ~Listening
    <3>1. kernel' = kernel
      BY <2>1, <2>4 DEF Buffer
    <3>2. QED
      BY <1>1, <2>1, <2>4, <3>1, HeardNow, UnreadKeepsHeard
  <2>5. QED
    BY <2>3, <2>4
<1>3. CASE FrameEnds
  <2> DEFINE p == Part(onAir, "tail")
  <2>1. onAir # 0 /\ onAir' = 0 /\ frames' = frames
    BY <1>3 DEF FrameEnds
  <2>2. ~(onAir' > old)
    BY <2>1, HeardNow
  <2>3. p \in Parts /\ p.part = "tail" /\ p.id = onAir
    BY HeardNow DEF Part, Parts
  <2>4. CASE kernel' = kernel /\ owed' = owed
    BY <1>1, <2>1, <2>2, <2>4, HeardNow, UnreadKeepsHeard
  <2>5. CASE ~(kernel' = kernel /\ owed' = owed)
    <3>1. Buffer(p) /\ owed' = IF receiving /\ Listening /\ onAir > old THEN owed \union {onAir} ELSE owed
      BY <1>3, <2>5 DEF FrameEnds
    <3>2. Listening
      BY <2>5, <3>1 DEF Buffer
    <3>3. kernel' = Append(kernel, p)
      BY <3>1, <3>2 DEF Buffer
    <3>4. kernel' \in Seq(Parts) /\ Prefix(kernel, kernel') /\ RealTails(kernel')
          /\ (receiving => NewHeads(kernel', old))
          /\ Len(kernel') \in DOMAIN kernel' /\ kernel'[Len(kernel')] = p
          /\ ReadParts(DecoderNow, kernel')[Len(kernel') - 1] = e
      BY <2>1, <2>3, <3>3, PartArrives
    <3>5. ASSUME NEW id \in owed' PROVE id \in owed \/ SafeIn(id, handed, DecoderNow, kernel')
      <4>1. CASE id \in owed
        BY <4>1
      <4>2. CASE id \notin owed
        <5>1. id = onAir /\ receiving /\ onAir > old
          BY <3>1, <3>5, <4>2
        <5>2. e.partial = onAir
          BY <3>2, <5>1, HeardNow
        <5>3. QED
          BY <3>4, <5>1, <5>2 DEF SafeIn
      <4>3. QED
        BY <4>1, <4>2
    <3>6. ~receiving => owed' = {}
      BY <3>1, HeardNow
    <3>7. QED
      BY <1>1, <2>1, <2>2, <3>4, <3>5, <3>6, HeardNow, UnreadKeepsHeard
  <2>6. QED
    BY <2>4, <2>5
<1>4. CASE FrameBreaks
  <2> DEFINE p == Part(0, "gap")
  <2>1. onAir' = 0 /\ frames' = frames /\ owed' = owed
        /\ (kernel' = kernel \/ kernel' = Append(kernel, p))
    BY <1>4 DEF FrameBreaks, Buffer
  <2>2. ~(onAir' > old)
    BY <2>1, HeardNow
  <2>3. p \in Parts /\ p.part = "gap"
    BY DEF Part, Parts
  <2> HIDE DEF p
  <2>4. kernel' \in Seq(Parts) /\ Prefix(kernel, kernel') /\ RealTails(kernel')
        /\ (receiving => NewHeads(kernel', old))
    BY <2>1, <2>3, PartArrives, HeardNow
  <2>5. QED
    BY <1>1, <2>1, <2>2, <2>4, HeardNow, UnreadKeepsHeard
<1>5. QED
  BY <1>2, <1>3, <1>4

LEMMA EchoKeepsHeard ==
    ASSUME HeardInv, Echo,
           UNCHANGED <<partial, received, decoded, old, handed, receiving, rx, owed>>
    PROVE  HeardInv'
<1> DEFINE h == Part(frames + 1, "head")
           t == Part(frames + 1, "tail")
           e == ReadParts(DecoderNow, kernel)[Len(kernel)]
<1>1. Listening' = Listening
  BY DEF Listening, NoFd
<1>2. /\ h \in Parts /\ h.part = "head" /\ h.id = frames + 1 /\ h.id > old
      /\ t \in Parts /\ t.part = "tail" /\ t.id # 0
  BY HeardNow DEF Part, Parts
<1>3. frames' = frames + 1
  BY DEF Echo
<1>4. CASE kernel' = kernel \o <<h, t>> /\ onAir' = 0
  <2> HIDE DEF h, t
  <2>1. /\ kernel' \in Seq(Parts) /\ Len(kernel) \in Nat /\ Len(kernel') = Len(kernel) + 2
        /\ DOMAIN kernel = 1 .. Len(kernel) /\ DOMAIN kernel' = 1 .. Len(kernel) + 2
        /\ \A k \in 1 .. Len(kernel) : kernel'[k] = kernel[k]
        /\ kernel'[Len(kernel) + 1] = h /\ kernel'[Len(kernel) + 2] = t
    <3>1. kernel \in Seq(Parts)
      BY HeardNow
    <3>2. QED
      BY <1>2, <1>4, <3>1
  <2>2. \A k \in DOMAIN kernel' : k \in DOMAIN kernel \/ kernel'[k] = h \/ kernel'[k] = t
    BY <2>1
  <2>3. Prefix(kernel, kernel')
    BY <2>1 DEF Prefix
  <2>4. RealTails(kernel') /\ (receiving => NewHeads(kernel', old))
    BY <1>2, <2>1, <2>2, HeardNow DEF RealTails, NewHeads
  <2>5. QED
    BY <1>1, <1>3, <1>4, <2>1, <2>3, <2>4, HeardNow, UnreadKeepsHeard
<1>5. CASE kernel' = Append(kernel, h) /\ onAir' = frames + 1
  <2> HIDE DEF h
  <2>1. ReadParts(DecoderNow, kernel')[Len(kernel')] = Process(e, h)
    BY <1>2, <1>5, PartArrives
  <2>2. Process(e, h).partial = frames + 1
    BY <1>2, HeardNow, ProcessIs DEF Ends
  <2>3. kernel' \in Seq(Parts) /\ Prefix(kernel, kernel') /\ RealTails(kernel')
        /\ (receiving => NewHeads(kernel', old))
    BY <1>2, <1>5, PartArrives
  <2>4. QED
    BY <1>1, <1>3, <1>5, <2>1, <2>2, <2>3, HeardNow, UnreadKeepsHeard
<1>6. CASE kernel' = kernel /\ onAir' = 0
  BY <1>1, <1>3, <1>6, HeardNow, UnreadKeepsHeard
<1>7. QED
  BY <1>4, <1>5, <1>6 DEF Echo

LEMMA ClosedKeepsHeard ==
    ASSUME HeardInv, LinuxClosed, UNCHANGED air PROVE HeardInv'
BY RestKeepsHeard DEF LinuxClosed, Forget, air

LEMMA OpeningKeepsHeard ==
    ASSUME HeardInv, DescriptorInv, LinuxOpenStep PROVE HeardInv'
<1>1. UNCHANGED air
  BY DEF LinuxOpenStep
<1>2. ASSUME NEW what, OpenFails(what) PROVE HeardInv'
  BY <1>1, <1>2, ClosedKeepsHeard DEF OpenFails
<1>3. CASE UNCHANGED <<memory, buffers>>
  <2>1. Listening' = Listening
    BY <1>3 DEF memory, Listening, NoFd
  <2>2. QED
    BY <1>1, <1>3, <2>1, StillHeard DEF memory, buffers, air
<1>4. CASE opening = "open receiver" /\ OpenReceiver /\ ~OpenFails("error")
  <2>1. ~receiving /\ owed = {}
    BY <1>4, HeardNow DEF DescriptorInv, HoldsNone, DescriptorsPaired
  <2>2. /\ kernel' = <<>>
        /\ UNCHANGED <<receiving, partial, decoded, received, old, owed, handed>>
    BY <1>4 DEF OpenReceiver
  <2>3. DecoderNow' = DecoderNow
    BY <2>2 DEF DecoderNow
  <2>4. HeardTypes'
    BY <1>1, <2>2, <2>3, EmptyIsParts DEF HeardInv, HeardTypes, air
  <2>5. FreshInv' /\ Numbered(DecoderNow)' /\ KeptInv'
    BY <2>1, <2>2, <2>3 DEF HeardInv, FreshInv, KeptInv
  <2>6. QED
    BY <2>4, <2>5 DEF HeardInv
<1>5. CASE /\ opening = "open transmitter" /\ OpenTransmitter /\ ~OpenFails("error")
  <2>1. UNCHANGED <<receiving, rx, partial, decoded, old, owed, handed, buffers>>
    BY <1>5 DEF OpenTransmitter
  <2>2. Listening' = Listening
    BY <2>1 DEF Listening, NoFd
  <2>3. QED
    BY <1>1, <2>1, <2>2, StillHeard DEF buffers, air
<1>6. CASE opening = "finish" /\ FinishOpen
  <2>1. UNCHANGED <<receiving, rx, partial, decoded, old, owed, handed, buffers>>
    BY <1>6 DEF FinishOpen
  <2>2. Listening' = Listening
    BY <2>1 DEF Listening, NoFd
  <2>3. QED
    BY <1>1, <2>1, <2>2, StillHeard DEF buffers, air
<1>7. ASSUME NEW role, NEW next, DiscoverRole(role, next) PROVE HeardInv'
  BY <1>2, <1>3, <1>7 DEF DiscoverRole
<1>8. ASSUME NEW fd, NEW role, NEW next, SetUp(fd, role, next) PROVE HeardInv'
  BY <1>2, <1>3, <1>8 DEF SetUp
<1>9. QED
  BY <1>2, <1>4, <1>5, <1>6, <1>7, <1>8 DEF LinuxOpenStep, OpenCallFails

\* A receiver that is unplugged owes nothing more.
LEMMA NodesKeepHeard ==
    ASSUME HeardInv, DescriptorInv, NodesChange PROVE HeardInv'
<1>1. UNCHANGED <<air, partial, decoded, old, handed, receiving, buffers>>
  BY DEF NodesChange
<1>2. PICK node \in Devices : rx' = Dead(rx, node)
  BY DEF NodesChange
<1>3. CASE rx' = rx /\ owed' = owed
  <2>1. Listening' = Listening
    BY <1>3 DEF Listening, NoFd
  <2>2. QED
    BY <1>1, <1>3, <2>1, StillHeard DEF buffers, air
<1>4. CASE rx' # rx /\ owed' = {}
  <2>1. rx' = [rx EXCEPT !.live = FALSE] /\ rx # NoFd
    BY <1>2, <1>4 DEF Dead
  <2>2. owed' \subseteq owed
    BY <1>4
  <2>3. ~Listening'
    <3>1. rx \in [node : Devices, live : BOOLEAN]
      BY <2>1 DEF DescriptorInv, FdOK
    <3>2. rx'.live = FALSE
      BY <2>1, <3>1
    <3>3. QED
      BY <3>2 DEF Listening
  <2>4. QED
    BY <1>1, <2>2, <2>3, StillHeard DEF buffers, air
<1>5. QED
  BY <1>3, <1>4 DEF NodesChange

LEMMA TailOf ==
    ASSUME NEW s \in Seq(Packets), s # <<>>
    PROVE  LET t == Tail(s)
           IN  /\ t \in Seq(Packets) /\ Len(t) = Len(s) - 1 /\ Len(s) \in Nat \ {0}
               /\ DOMAIN t = 1 .. Len(s) - 1 /\ DOMAIN s = 1 .. Len(s)
               /\ \A k \in DOMAIN t : k + 1 \in DOMAIN s /\ t[k] = s[k + 1]
               /\ \A k \in DOMAIN s : k = 1 \/ (k - 1 \in DOMAIN t /\ t[k - 1] = s[k])
               /\ Head(s) = s[1] /\ 1 \in DOMAIN s
OBVIOUS

\* The oldest of the decoded packets is handed out.
LEMMA PopKeepsHeard ==
    ASSUME HeardInv, receiving, decoded # <<>>, Pop(decoded),
           UNCHANGED <<old, owed, onAir, frames, receiving, rx, partial, received, kernel>>
    PROVE  HeardInv' /\ \A id \in handed' \ handed : id > old
<1> DEFINE s == decoded
           t == Tail(s)
           d == DecoderNow
<1>1. decoded' = t /\ handed' = handed \union {Head(s).id}
  BY DEF Pop
<1>2. d \in Decoders /\ kernel \in Seq(Parts) /\ Fresh(d, old) /\ Numbered(d)
  BY DEF HeardInv, HeardTypes, FreshInv
<1>3. s \in Seq(Packets) /\ partial \in Nat /\ received \in Nat
  BY <1>2 DEF DecoderNow, Decoders
<1>4. /\ \A k \in DOMAIN s : s[k].id > old
      /\ \A k \in DOMAIN s : s[k].sequence = received - Len(s) + k
      /\ partial # 0 => partial > old
  BY <1>2 DEF Fresh, Numbered, Before, DecoderNow
<1>5. /\ t \in Seq(Packets) /\ Len(t) = Len(s) - 1 /\ Len(s) \in Nat \ {0}
      /\ \A k \in DOMAIN t : k \in Int /\ k + 1 \in DOMAIN s /\ t[k] = s[k + 1]
      /\ \A k \in DOMAIN s : k = 1 \/ (k - 1 \in DOMAIN t /\ t[k - 1] = s[k])
      /\ Head(s) = s[1] /\ 1 \in DOMAIN s
  BY <1>3, TailOf
<1> HIDE DEF t
<1>6. DecoderNow' = [partial |-> partial, received |-> received, decoded |-> t]
  BY <1>1 DEF DecoderNow
<1>7. ASSUME NEW k \in DOMAIN t PROVE t[k].id > old /\ t[k].sequence = received - Len(t) + k
  <2>1. s[k + 1].id > old /\ s[k + 1].sequence = received - Len(s) + (k + 1)
    BY <1>4, <1>5
  <2>2. received - Len(s) + (k + 1) = received - Len(t) + k
    BY <1>3, <1>5
  <2>3. QED
    BY <1>5, <2>1, <2>2
<1>8. \A id \in handed' \ handed : id > old
  BY <1>1, <1>4, <1>5
<1>9. Fresh(DecoderNow', old') /\ Numbered(DecoderNow')
  BY <1>4, <1>6, <1>7 DEF Fresh, Numbered, Before
<1>10. HeardTypes'
  BY <1>3, <1>5, <1>6 DEF HeardInv, HeardTypes, Decoders
<1>11. Listening' = Listening
  BY DEF Listening, NoFd
<1>12. \A n \in 0 .. Len(kernel) : ReadParts(DecoderNow', kernel)[n].partial = ReadParts(d, kernel)[n].partial
  <2>1. DecoderNow' \in Decoders /\ d.partial = DecoderNow'.partial
    BY <1>6, <1>10 DEF HeardTypes, DecoderNow
  <2>2. QED
    BY <1>2, <2>1, PartialAlone
<1>13. ASSUME NEW id \in owed PROVE SafeIn(id, handed', DecoderNow', kernel)
  <2>1. SafeIn(id, handed, d, kernel)
    BY DEF HeardInv, KeptInv
  <2>2. CASE id \in handed
    BY <1>1, <2>2 DEF SafeIn
  <2>3. ASSUME NEW k \in DOMAIN s, s[k].id = id PROVE SafeIn(id, handed', DecoderNow', kernel)
    <3>1. CASE k = 1
      BY <1>1, <1>5, <2>3, <3>1 DEF SafeIn
    <3>2. CASE k # 1
      <4>1. k - 1 \in DOMAIN t /\ t[k - 1].id = id
        BY <1>5, <2>3, <3>2
      <4>2. QED
        BY <1>6, <4>1 DEF SafeIn
    <3>3. QED
      BY <3>1, <3>2
  <2>4. ASSUME NEW k \in DOMAIN kernel, kernel[k] = Part(id, "tail"),
               ReadParts(d, kernel)[k - 1].partial = id
        PROVE  SafeIn(id, handed', DecoderNow', kernel)
    <3>1. k - 1 \in 0 .. Len(kernel)
      BY <1>2
    <3>2. ReadParts(DecoderNow', kernel)[k - 1].partial = id
      BY <1>12, <2>4, <3>1
    <3>3. QED
      BY <2>4, <3>2 DEF SafeIn
  <2>5. d.decoded = s
    BY DEF DecoderNow
  <2>6. QED
    BY <2>1, <2>2, <2>3, <2>4, <2>5 DEF SafeIn
<1>14. KeptInv'
  <2>1. Len(kernel) \in 0 .. Len(kernel)
    BY <1>2
  <2>2. ReadParts(DecoderNow', kernel)[Len(kernel)].partial = ReadParts(d, kernel)[Len(kernel)].partial
    BY <1>12, <2>1
  <2>3. QED
    BY <1>11, <1>13, <2>2 DEF HeardInv, KeptInv
<1>15. QED
  BY <1>8, <1>9, <1>10, <1>14 DEF HeardInv, FreshInv

LEMMA CallsKeepHeard ==
    ASSUME HeardInv,
           \/ LinuxStartReceive \/ LinuxStopReceive \/ LinuxReceive \/ LinuxTransmit
    PROVE  HeardInv' /\ \A id \in handed' \ handed : id > old
<1>1. CASE UNCHANGED linux
  <2>1. Listening' = Listening
    BY <1>1 DEF linux, memory, Listening, NoFd
  <2>2. HeardInv'
    BY <1>1, <2>1, StillHeard DEF linux, memory, buffers, air
  <2>3. QED
    BY <1>1, <2>2 DEF linux, memory
<1>2. CASE LinuxStartReceive /\ StartReceiving /\ UNCHANGED <<received, air>>
  <2>1. HeardInv'
    BY <1>2, DrainKeepsHeard DEF air
  <2>2. handed' = {}
    BY <1>2 DEF StartReceiving, Forget
  <2>3. QED
    BY <2>1, <2>2
<1>3. CASE LinuxStopReceive
  <2>1. HeardInv'
    BY <1>3, RestKeepsHeard DEF LinuxStopReceive, Forget, buffers, air
  <2>2. handed' = {}
    BY <1>3 DEF LinuxStopReceive, Forget
  <2>3. QED
    BY <2>1, <2>2
<1>4. CASE LinuxReceive /\ ~Refused
  <2>0. UNCHANGED <<receiving, rx, old, owed, onAir, frames>>
    BY <1>4 DEF LinuxReceive, air
  <2>1. CASE UNCHANGED <<partial, received, kernel, decoded, handed>>
    <3>1. Listening' = Listening
      BY <2>0 DEF Listening, NoFd
    <3>2. HeardInv'
      BY <2>0, <2>1, <3>1, StillHeard
    <3>3. QED
      BY <2>1, <3>2
  <2>2. CASE receiving /\ ReceiveDecoded
    BY <2>0, <2>2, PopKeepsHeard DEF ReceiveDecoded
  <2>3. CASE receiving /\ ReceiveRead
    <3>1. CASE ReadAll.decoded = <<>>
      BY <2>0, <2>3, <3>1, ReadKeepsHeard DEF ReceiveRead, ReadAll, Pop
    <3>2. CASE ReadAll.decoded # <<>>
      BY <2>0, <2>3, <3>2, ReadKeepsHeard DEF ReceiveRead, ReadAll, Pop
    <3>3. QED
      BY <3>1, <3>2
  <2>4. CASE receiving /\ ReceiveReadOnly
    BY <2>0, <2>4, ReadKeepsHeard DEF ReceiveReadOnly, ReadAll
  <2>5. QED
    BY <1>4, <2>1, <2>2, <2>3, <2>4 DEF LinuxReceive, ReceiveNothing, ReceiveFails
<1>5. CASE LinuxTransmit /\ ~Refused
  <2>1. UNCHANGED <<memory, received>> /\ (Echo \/ UNCHANGED <<kernel, air>>)
    BY <1>5 DEF LinuxTransmit
  <2>2. CASE Echo
    BY <2>1, <2>2, EchoKeepsHeard DEF memory
  <2>3. CASE UNCHANGED <<kernel, air>>
    <3>1. Listening' = Listening
      BY <2>1 DEF memory, Listening, NoFd
    <3>2. QED
      BY <2>1, <2>3, <3>1, StillHeard DEF memory, air
  <2>4. handed' = handed
    BY <2>1 DEF memory
  <2>5. QED
    BY <2>1, <2>2, <2>3, <2>4
<1>6. QED
  BY <1>1, <1>2, <1>3, <1>4, <1>5 DEF LinuxStartReceive, LinuxReceive, LinuxTransmit, Refused
OnlyNewHanded == \A id \in handed' \ handed : id > old

LEMMA NextKeepsHeard == DescriptorInv /\ HeardInv /\ [Next]_vars => HeardInv' /\ OnlyNewHanded
<1> SUFFICES ASSUME DescriptorInv, HeardInv, [Next]_vars PROVE HeardInv' /\ OnlyNewHanded
  OBVIOUS
<1>1. CASE UNCHANGED linux
  <2>1. Listening' = Listening
    BY <1>1 DEF linux, memory, Listening, NoFd
  <2>2. HeardInv'
    BY <1>1, <2>1, StillHeard DEF linux, memory, buffers, air
  <2>3. QED
    BY <1>1, <2>2 DEF linux, memory, OnlyNewHanded
<1>2. CASE LinuxOpenBegin \/ LinuxClose
  <2>1. LinuxClosed /\ UNCHANGED air
    BY <1>2 DEF LinuxOpenBegin, LinuxClose
  <2>2. handed' = {}
    BY <2>1 DEF LinuxClosed, Forget
  <2>3. QED
    BY <2>1, <2>2, ClosedKeepsHeard DEF OnlyNewHanded
<1>3. CASE LinuxOpenStep
  <2>1. handed' = handed \/ handed' = {}
    BY <1>3 DEF LinuxOpenStep, OpenCallFails, OpenFails, LinuxClosed, Forget, DiscoverRole, OpenReceiver,
                OpenTransmitter, SetUp, FinishOpen, memory
  <2>2. QED
    BY <1>3, <2>1, OpeningKeepsHeard DEF OnlyNewHanded
<1>4. CASE LinuxStartReceive \/ LinuxStopReceive \/ LinuxReceive \/ LinuxTransmit
  BY <1>4, CallsKeepHeard DEF OnlyNewHanded
<1>5. CASE LinuxEnvironment
  <2>1. handed' = handed
    BY <1>5 DEF LinuxEnvironment, FrameBegins, FrameEnds, FrameBreaks, NodesChange, Unheard
  <2>2. HeardInv'
    BY <1>5, AirKeepsHeard, NodesKeepHeard DEF LinuxEnvironment
  <2>3. QED
    BY <2>1, <2>2 DEF OnlyNewHanded
<1>6. CASE Initialize
  BY <1>1, <1>2, <1>6 DEF Initialize, Call
<1>7. CASE Open
  BY <1>1, <1>3, <1>7 DEF Open, Call
<1>8. CASE Start \/ SetReceiveOn \/ Resume
  BY <1>1, <1>4, <1>8 DEF Start, SetReceiveOn, Resume, Call
<1>9. CASE Receive
  BY <1>1, <1>4, <1>9 DEF Receive, Call
<1>10. CASE SetReceiveOff \/ Suspend
  BY <1>1, <1>4, <1>10 DEF SetReceiveOff, Suspend, Call
<1>11. CASE Transmit
  BY <1>1, <1>4, <1>11 DEF Transmit, Call
<1>12. CASE GiveUp \/ Unwind
  BY <1>1, <1>2, <1>12 DEF GiveUp, Unwind, Call
<1>13. CASE World
  BY <1>1, <1>5, <1>13 DEF World
<1>14. CASE SetReceiveDown \/ Retry \/ Stop \/ Restart \/ UNCHANGED vars
  BY <1>1, <1>14 DEF SetReceiveDown, Retry, Stop, Restart, vars
<1>15. QED
  BY <1>6, <1>7, <1>8, <1>9, <1>10, <1>11, <1>12, <1>13, <1>14 DEF Next

LEMMA NothingHeardYet == Init => HeardInv
<1> SUFFICES ASSUME Init PROVE HeardInv
  OBVIOUS
<1>1. PICK worlds, sets : LinuxInit(worlds, sets)
  <2>1. CASE LinuxInit(Worlds, FeatureSets)
    BY <2>1
  <2>2. CASE LinuxInit({CHOOSE w \in Worlds : TRUE}, {{}})
    BY <2>2
  <2>3. QED
    BY <2>1, <2>2 DEF Init
<1>2. /\ receiving = FALSE /\ partial = 0 /\ decoded = <<>> /\ received = 0 /\ kernel = <<>>
      /\ onAir = 0 /\ frames = 0 /\ old = 0 /\ owed = {}
  BY <1>1 DEF LinuxInit
<1>3. DecoderNow = [partial |-> 0, received |-> 0, decoded |-> <<>>]
  BY <1>2 DEF DecoderNow
<1>4. DecoderNow \in Decoders
  BY <1>3, EmptyIsParts DEF Decoders
<1>5. Fresh(DecoderNow, old) /\ Numbered(DecoderNow)
  BY <1>3 DEF Fresh, Numbered
<1>6. QED
  BY <1>2, <1>4, <1>5, EmptyIsParts DEF HeardInv, HeardTypes, FreshInv, KeptInv

LEMMA HeardInvariant == Spec => [](DescriptorInv /\ HeardInv)
BY InitHoldsNone, NothingHeardYet, NextKeepsDescriptors, NextKeepsHeard, PTL DEF Spec

\* While the receiver lives no frame that arrived whole since receiving was started
\* is lost, wherever a read cuts it and however many one read returns
\* (readAvailableEvents, processMode2Event and popDecodedPacket), for any size of
\* the kernel's buffer and any number of frames.
THEOREM WholeFramesAlwaysKept == Spec => []WholeFramesKept
<1>1. HeardInv => WholeFramesKept
  BY DEF HeardInv, KeptInv, SafeIn, WholeFramesKept, DecoderNow
<1>2. QED
  BY <1>1, HeardInvariant, PTL

\* Nothing begun before receiving was last started is handed to the worker, not the
\* echo of the program's own frame and not what the kernel still held
\* (drainReceiver and the resets of startReceive and stopReceive).
THEOREM OnlyFreshFramesDelivered == Spec => OnlyFreshDelivered
<1>1. DescriptorInv /\ HeardInv /\ [Next]_vars => [\A id \in handed' \ handed : id > old]_<<handed>>
  BY NextKeepsHeard DEF OnlyNewHanded
<1>2. Spec => [][Next]_vars
  BY DEF Spec
<1>3. QED
  BY <1>1, <1>2, HeardInvariant, PTL DEF OnlyFreshDelivered

-----------------------------------------------------------------------------
(* Both backends implement RadioBackend.                                   *)

ModeNow == IF kind = "linux"
           THEN IF ~isOpen THEN "closed" ELSE IF receiving THEN "receiving" ELSE "idle"
           ELSE IF ~mockOpen THEN "closed" ELSE IF mockReceiving THEN "receiving" ELSE "idle"

\* The backend of the build hears.
Hears == IF kind = "linux" THEN receiving ELSE mockReceiving

\* The worker sends only while it does not receive.
CalledInv ==
    /\ kind \in {"linux", "mock"} /\ requested \in BOOLEAN
    /\ pc \in {"start", "resume", "transmit"} => requested
    /\ pc \in {"open", "transmit"} \/ (pc = "up" /\ ~requested) => ~Hears

\* The number of the packet that was delivered last, or would have been.
Top        == IF kind = "linux" THEN Before(DecoderNow) ELSE sequence
UpTo(s, n) == s # <<>> => s[Len(s)] <= n

DeliveredInv ==
    /\ delivered \in Seq(Int) /\ sequence \in Nat /\ UpTo(delivered, Top)
    /\ \E S : sent \in Seq(S)

\* What a call may be to the worker.
Silent    == UNCHANGED <<delivered, sent>>
Shifts    == \/ ModeNow' \in {ModeNow, "closed"}
             \/ ModeNow = "closed" /\ ModeNow' = "idle"
             \/ ModeNow = "idle" /\ ModeNow' = "receiving"
             \/ ModeNow = "receiving" /\ ModeNow' = "idle"
Delivers  == /\ ModeNow = "receiving" /\ ModeNow' = ModeNow /\ sent' = sent
             /\ \E x \in Int : /\ delivered' = Append(delivered, x)
                               /\ delivered # <<>> => x > delivered[Len(delivered)]
Transmits == /\ ModeNow = "idle" /\ ModeNow' = ModeNow /\ delivered' = delivered
             /\ \E x : sent' = Append(sent, x)
Promised  == (Silent /\ Shifts) \/ Delivers \/ Transmits

LEMMA OneMore ==
    ASSUME NEW S, NEW s \in Seq(S), NEW x
    PROVE  LET t == Append(s, x)
           IN  /\ t # <<>> /\ Len(t) = Len(s) + 1 /\ t[Len(t)] = x /\ SubSeq(t, 1, Len(t) - 1) = s
               /\ t \in Seq(S \union {x})
<1> DEFINE T == S \union {x}
           t == Append(s, x)
<1>1. s \in Seq(T) /\ x \in T
  OBVIOUS
<1> HIDE DEF T
<1>2. t \in Seq(T) /\ Len(t) = Len(s) + 1 /\ Len(s) \in Nat
  BY <1>1
<1>3. t[Len(s) + 1] = x
  BY <1>1
<1>4. t # <<>>
  <2>1. Len(t) # 0
    BY <1>2
  <2> HIDE DEF t
  <2>2. QED
    BY <2>1
<1>5. SubSeq(t, 1, Len(s)) = s
  BY <1>1
<1>6. Len(t) - 1 = Len(s)
  BY <1>2
<1>7. QED
  BY <1>2, <1>3, <1>4, <1>5, <1>6 DEF T

LEMMA PromiseIsKept ==
    ASSUME DeliveredInv, Promised PROVE [Contract!Next]_(Contract!vars)
<1>1. CASE Silent /\ Shifts
  BY <1>1 DEF Silent, Shifts, ModeNow, Contract!Next, Contract!vars, Contract!Open, Contract!Close,
              Contract!StartReceive, Contract!StopReceive
<1>2. CASE Delivers
  <2>1. PICK x \in Int : /\ delivered' = Append(delivered, x)
                         /\ delivered # <<>> => x > delivered[Len(delivered)]
    BY <1>2 DEF Delivers
  <2>2. /\ delivered' # <<>> /\ SubSeq(delivered', 1, Len(delivered') - 1) = delivered
        /\ delivered'[Len(delivered')] = x
    BY <2>1, OneMore DEF DeliveredInv
  <2>3. Contract!Deliver
    BY <1>2, <2>1, <2>2 DEF Delivers, ModeNow, Contract!Deliver, Contract!Extends, Contract!Newest
  <2>4. QED
    BY <2>3 DEF Contract!Next
<1>3. CASE Transmits
  <2>1. PICK x : sent' = Append(sent, x)
    BY <1>3 DEF Transmits
  <2>2. sent' # <<>> /\ SubSeq(sent', 1, Len(sent') - 1) = sent
    BY <2>1, OneMore DEF DeliveredInv
  <2>3. Contract!Transmit
    BY <1>3, <2>2 DEF Transmits, ModeNow, Contract!Transmit, Contract!Extends
  <2>4. QED
    BY <2>3 DEF Contract!Next
<1>4. QED
  BY <1>1, <1>2, <1>3 DEF Promised

LEMMA TopGrows ==
    ASSUME DeliveredInv, Silent, sequence' \in Nat, Top \in Int, Top' \in Int, Top' >= Top
    PROVE  DeliveredInv'
<1>1. delivered' = delivered /\ sent' = sent
  BY DEF Silent
<1>2. UpTo(delivered', Top')
  <2>1. CASE delivered = <<>>
    BY <1>1, <2>1 DEF UpTo
  <2>2. CASE delivered # <<>>
    <3>1. delivered[Len(delivered)] <= Top /\ delivered[Len(delivered)] \in Int
      <4>1. delivered \in Seq(Int) /\ UpTo(delivered, Top)
        BY DEF DeliveredInv
      <4>2. Len(delivered) \in DOMAIN delivered
        BY <2>2, <4>1
      <4>3. QED
        BY <2>2, <4>1, <4>2 DEF UpTo
    <3>2. QED
      BY <1>1, <3>1 DEF UpTo
  <2>3. QED
    BY <2>1, <2>2
<1>3. QED
  BY <1>1, <1>2 DEF DeliveredInv

\* A packet with the next number is handed out.
LEMMA NextIsDelivered ==
    ASSUME DeliveredInv, Top \in Int, Top' = Top + 1, sequence' \in Nat,
           delivered' = Append(delivered, Top'), sent' = sent,
           ModeNow = "receiving", ModeNow' = ModeNow
    PROVE  Delivers /\ DeliveredInv'
<1>1. delivered \in Seq(Int) /\ UpTo(delivered, Top)
  BY DEF DeliveredInv
<1>2. Top' \in Int
  OBVIOUS
<1>3. delivered # <<>> => Top' > delivered[Len(delivered)]
  <2>1. delivered # <<>> => delivered[Len(delivered)] \in Int
    BY <1>1
  <2>2. QED
    BY <1>1, <2>1 DEF UpTo
<1>4. Delivers
  BY <1>2, <1>3 DEF Delivers
<1> DEFINE t == Append(delivered, Top')
<1>5. t \in Seq(Int)
  BY <1>1, <1>2
<1>6. t[Len(t)] = Top'
  BY <1>1, OneMore
<1>7. delivered' = t
  OBVIOUS
<1> HIDE DEF t
<1>8. UpTo(delivered', Top')
  <2>1. delivered'[Len(delivered')] <= Top'
    BY <1>2, <1>6, <1>7
  <2>2. QED
    BY <2>1 DEF UpTo
<1>9. QED
  BY <1>4, <1>5, <1>7, <1>8 DEF DeliveredInv

LinuxHere == kind = "linux" /\ kind' = "linux" /\ HeardInv /\ HeardInv' /\ UNCHANGED mock

LEMMA LinuxTop ==
    ASSUME LinuxHere
    PROVE  /\ Top = received - Len(decoded) /\ Top' = received' - Len(decoded')
           /\ received \in Nat /\ received' \in Nat
           /\ decoded \in Seq(Packets) /\ decoded' \in Seq(Packets)
           /\ Len(decoded) \in Nat /\ Len(decoded') \in Nat
           /\ sequence' = sequence
<1>1. Top = Before(DecoderNow) /\ Top' = Before(DecoderNow')
  BY DEF Top, LinuxHere
<1>2. DecoderNow \in Decoders /\ DecoderNow' \in Decoders
  BY DEF LinuxHere, HeardInv, HeardTypes
<1>3. received \in Nat /\ received' \in Nat /\ decoded \in Seq(Packets) /\ decoded' \in Seq(Packets)
  BY <1>2 DEF Decoders, DecoderNow
<1>4. QED
  BY <1>1, <1>3 DEF Before, DecoderNow, LinuxHere, mock

LEMMA LinuxSilent ==
    ASSUME LinuxHere, DeliveredInv, Silent, Shifts,
           \/ decoded' = <<>> /\ received' = received
           \/ decoded' = decoded /\ received' = received
           \/ received' - Len(decoded') = received - Len(decoded)
    PROVE  Promised /\ DeliveredInv'
<1>1. Top \in Int /\ Top' \in Int /\ Top' >= Top
  BY LinuxTop
<1>2. DeliveredInv'
  BY <1>1, LinuxTop, TopGrows DEF DeliveredInv
<1>3. QED
  BY <1>2 DEF Promised

LEMMA LinuxDelivers ==
    ASSUME LinuxHere, DeliveredInv, NEW packets \in Seq(Packets), packets # <<>>,
           received' - Len(packets) = Top,
           \A k \in DOMAIN packets : packets[k].sequence = Top + k,
           Pop(packets), sent' = sent, ModeNow = "receiving", ModeNow' = ModeNow
    PROVE  Promised /\ DeliveredInv'
<1>1. decoded' = Tail(packets) /\ delivered' = Append(delivered, Head(packets).sequence)
  BY DEF Pop
<1>2. /\ Len(Tail(packets)) = Len(packets) - 1 /\ Len(packets) \in Nat
      /\ Head(packets) = packets[1] /\ 1 \in DOMAIN packets
  BY TailOf
<1>3. Top \in Int /\ Top' = Top + 1 /\ sequence' \in Nat
  <2>1. Top \in Int /\ received' \in Nat /\ Top' = received' - Len(decoded') /\ sequence' = sequence
    BY LinuxTop
  <2>2. Len(decoded') = Len(packets) - 1
    BY <1>1, <1>2
  <2>3. QED
    BY <1>2, <2>1, <2>2 DEF DeliveredInv
<1>4. Head(packets).sequence = Top'
  BY <1>2, <1>3
<1>5. QED
  BY <1>1, <1>3, <1>4, NextIsDelivered DEF Promised

LEMMA LinuxMode ==
    ASSUME LinuxHere
    PROVE  /\ ModeNow  = IF ~isOpen THEN "closed" ELSE IF receiving THEN "receiving" ELSE "idle"
           /\ ModeNow' = IF ~isOpen' THEN "closed" ELSE IF receiving' THEN "receiving" ELSE "idle"
           /\ Hears = receiving /\ Hears' = receiving'
BY DEF LinuxHere, ModeNow, Hears

LEMMA LinuxCloses ==
    ASSUME LinuxHere, DeliveredInv, LinuxClosed, Silent
    PROVE  Promised /\ DeliveredInv' /\ ~Hears'
<1>1. Shifts /\ ~Hears'
  BY LinuxMode DEF LinuxClosed, Shifts
<1>2. decoded' = <<>> /\ received' = received
  BY DEF LinuxClosed, Forget
<1>3. QED
  BY <1>1, <1>2, LinuxSilent

LEMMA LinuxRefuses ==
    ASSUME LinuxHere, DeliveredInv, UNCHANGED linux, Silent
    PROVE  Promised /\ DeliveredInv' /\ Hears' = Hears
<1>1. UNCHANGED <<isOpen, receiving, decoded, received>>
  BY DEF linux, memory, buffers
<1>2. Shifts /\ Hears' = Hears
  BY <1>1, LinuxMode DEF Shifts
<1>3. QED
  BY <1>1, <1>2, LinuxSilent

LEMMA LinuxOpens ==
    ASSUME LinuxHere, DeliveredInv, DescriptorInv, LinuxOpenStep
    PROVE  Promised /\ DeliveredInv' /\ (Hears' => Hears)
<1>1. Silent
  BY DEF LinuxOpenStep, Silent
<1>2. ASSUME NEW what, OpenFails(what) PROVE Promised /\ DeliveredInv' /\ (Hears' => Hears)
  BY <1>1, <1>2, LinuxCloses DEF OpenFails
<1>3. CASE UNCHANGED <<isOpen, receiving, decoded, received>>
  <2>1. Shifts /\ Hears' = Hears
    BY <1>3, LinuxMode DEF Shifts
  <2>2. QED
    BY <1>1, <1>3, <2>1, LinuxSilent
<1>4. CASE opening = "finish" /\ FinishOpen
  <2>1. ~isOpen /\ ~receiving /\ isOpen' /\ UNCHANGED <<receiving, decoded, received>>
    BY <1>4 DEF FinishOpen, buffers, DescriptorInv, HoldsBoth, DescriptorsPaired
  <2>2. Shifts /\ Hears' = Hears
    BY <2>1, LinuxMode DEF Shifts
  <2>3. QED
    BY <1>1, <2>1, <2>2, LinuxSilent
<1>5. ASSUME NEW role, NEW next, DiscoverRole(role, next)
      PROVE  Promised /\ DeliveredInv' /\ (Hears' => Hears)
  BY <1>2, <1>3, <1>5 DEF DiscoverRole, memory, buffers
<1>6. CASE OpenReceiver
  BY <1>2, <1>3, <1>6 DEF OpenReceiver
<1>7. CASE OpenTransmitter
  BY <1>2, <1>3, <1>7 DEF OpenTransmitter, buffers
<1>8. ASSUME NEW fd, NEW role, NEW next, SetUp(fd, role, next)
      PROVE  Promised /\ DeliveredInv' /\ (Hears' => Hears)
  BY <1>2, <1>3, <1>8 DEF SetUp, memory, buffers
<1>9. QED
  BY <1>2, <1>4, <1>5, <1>6, <1>7, <1>8 DEF LinuxOpenStep, OpenCallFails

LEMMA LinuxStarts ==
    ASSUME LinuxHere, DeliveredInv, DescriptorInv, LinuxStartReceive
    PROVE  Promised /\ DeliveredInv'
<1>1. CASE Refused
  BY <1>1, LinuxRefuses DEF Refused, Silent
<1>2. CASE ~Refused
  <2>1. /\ Ready /\ receiving' = TRUE /\ isOpen' = isOpen /\ decoded' = <<>> /\ received' = received
        /\ Silent
    BY <1>2 DEF LinuxStartReceive, StartReceiving, Forget, Silent
  <2>2. Shifts
    BY <2>1, LinuxMode DEF Shifts, Ready
  <2>3. QED
    BY <2>1, <2>2, LinuxSilent
<1>3. QED
  BY <1>1, <1>2

LEMMA LinuxStops ==
    ASSUME LinuxHere, DeliveredInv, LinuxStopReceive
    PROVE  Promised /\ DeliveredInv' /\ ~Hears'
<1>1. receiving' = FALSE /\ isOpen' = isOpen /\ decoded' = <<>> /\ received' = received /\ Silent
  BY DEF LinuxStopReceive, Forget, buffers, Silent
<1>2. Shifts /\ ~Hears'
  BY <1>1, LinuxMode DEF Shifts
<1>3. QED
  BY <1>1, <1>2, LinuxSilent

LEMMA LinuxReceives ==
    ASSUME LinuxHere, DeliveredInv, LinuxReceive
    PROVE  Promised /\ DeliveredInv' /\ Hears' = Hears
<1>1. CASE Refused
  BY <1>1, LinuxRefuses DEF Refused, Silent
<1>2. CASE ~Refused
  <2>1. Ready /\ UNCHANGED <<isOpen, receiving, sent>>
    BY <1>2 DEF LinuxReceive
  <2>2. /\ ModeNow' = ModeNow /\ Shifts /\ Hears' = Hears
        /\ receiving => ModeNow = "receiving"
    BY <2>1, LinuxMode DEF Shifts, Ready
  <2>3. CASE UNCHANGED <<decoded, received, delivered>>
    BY <2>1, <2>2, <2>3, LinuxSilent DEF Silent
  <2>4. DecoderNow \in Decoders /\ kernel \in Seq(Parts) /\ Numbered(DecoderNow)
    BY DEF LinuxHere, HeardInv, HeardTypes
  <2> DEFINE e == ReadAll
  <2>5. e \in Decoders /\ Before(e) = Before(DecoderNow) /\ Numbered(e)
    <3>1. Len(kernel) \in 0 .. Len(kernel)
      BY <2>4
    <3>2. QED
      BY <2>4, <3>1, ReadingTypes, ReadingNumbers DEF ReadAll
  <2>6. Top = Before(DecoderNow) /\ Top = received - Len(decoded)
    BY LinuxTop DEF Top, LinuxHere
  <2> HIDE DEF e
  <2>7. CASE receiving /\ ReceiveDecoded
    <3>1. \A k \in DOMAIN decoded : decoded[k].sequence = Top + k
      BY <2>4, <2>6 DEF Numbered, DecoderNow
    <3>2. decoded # <<>> /\ Pop(decoded) /\ received' = received
      BY <2>7 DEF ReceiveDecoded
    <3>3. QED
      BY <2>1, <2>2, <2>6, <2>7, <3>1, <3>2, LinuxTop, LinuxDelivers
  <2>8. CASE receiving /\ ReceiveRead
    <3>1. Pop(e.decoded) /\ received' = e.received
      BY <2>8 DEF ReceiveRead, e
    <3>2. e.decoded \in Seq(Packets) /\ received' - Len(e.decoded) = Top
      BY <2>5, <2>6, <3>1 DEF Decoders, Before
    <3>3. CASE e.decoded = <<>>
      <4>1. decoded' = <<>> /\ delivered' = delivered
        BY <3>1, <3>3 DEF Pop
      <4>2. received' - Len(decoded') = received - Len(decoded)
        BY <2>6, <3>2, <3>3, <4>1
      <4>3. QED
        BY <2>1, <2>2, <4>1, <4>2, LinuxSilent DEF Silent
    <3>4. CASE e.decoded # <<>>
      <4>1. \A k \in DOMAIN e.decoded : e.decoded[k].sequence = Top + k
        BY <2>5, <2>6 DEF Numbered
      <4>2. QED
        BY <2>1, <2>2, <2>8, <3>1, <3>2, <3>4, <4>1, LinuxDelivers
    <3>5. QED
      BY <3>3, <3>4
  <2>9. CASE ReceiveReadOnly
    <3>1. decoded' = e.decoded /\ received' = e.received /\ delivered' = delivered
      BY <2>9 DEF ReceiveReadOnly, e
    <3>2. received' - Len(decoded') = received - Len(decoded)
      BY <2>5, <2>6, <3>1 DEF Before
    <3>3. QED
      BY <2>1, <2>2, <3>1, <3>2, LinuxSilent DEF Silent
  <2>10. QED
    BY <1>2, <2>3, <2>7, <2>8, <2>9 DEF LinuxReceive, ReceiveNothing, ReceiveFails
<1>3. QED
  BY <1>1, <1>2

LEMMA LinuxSends ==
    ASSUME LinuxHere, DeliveredInv, LinuxTransmit, ~Hears
    PROVE  Promised /\ DeliveredInv' /\ Hears' = Hears
<1>1. CASE Refused
  BY <1>1, LinuxRefuses DEF Refused, Silent
<1>2. CASE ~Refused
  <2>1. Ready /\ UNCHANGED <<isOpen, receiving, decoded, received, delivered>>
    BY <1>2 DEF LinuxTransmit, memory
  <2>2. ModeNow = "idle" /\ ModeNow' = ModeNow /\ Shifts /\ Hears' = Hears
    BY <2>1, LinuxMode DEF Shifts, Ready
  <2>3. CASE sent' = sent
    BY <2>1, <2>2, <2>3, LinuxSilent DEF Silent
  <2>4. CASE sent' = Append(sent, nextNumber')
    <3>1. Transmits
      BY <2>1, <2>2, <2>4 DEF Transmits
    <3>2. PICK S : sent \in Seq(S)
      BY DEF DeliveredInv
    <3>3. sent' \in Seq(S \union {nextNumber'})
      BY <2>4, <3>2, OneMore
    <3>4. Top' = Top /\ sequence' = sequence
      BY <2>1, LinuxTop
    <3>5. QED
      BY <2>1, <2>2, <3>1, <3>3, <3>4 DEF DeliveredInv, Promised
  <2>5. QED
    BY <1>2, <2>3, <2>4 DEF LinuxTransmit
<1>3. QED
  BY <1>1, <1>2

LEMMA LinuxSurrounds ==
    ASSUME LinuxHere, DeliveredInv, LinuxEnvironment
    PROVE  Promised /\ DeliveredInv' /\ Hears' = Hears
<1>1. Silent /\ UNCHANGED <<isOpen, receiving, decoded, received>>
  BY DEF LinuxEnvironment, FrameBegins, FrameEnds, FrameBreaks, NodesChange, Unheard, buffers, Silent
<1>2. Shifts /\ Hears' = Hears
  BY <1>1, LinuxMode DEF Shifts
<1>3. QED
  BY <1>1, <1>2, LinuxSilent
MockHere == kind = "mock" /\ kind' = "mock"

LEMMA MockMode ==
    ASSUME MockHere
    PROVE  /\ ModeNow  = IF ~mockOpen THEN "closed" ELSE IF mockReceiving THEN "receiving" ELSE "idle"
           /\ ModeNow' = IF ~mockOpen' THEN "closed" ELSE IF mockReceiving' THEN "receiving" ELSE "idle"
           /\ Hears = mockReceiving /\ Hears' = mockReceiving'
           /\ Top = sequence /\ Top' = sequence'
BY DEF MockHere, ModeNow, Hears, Top

LEMMA MockSilent ==
    ASSUME MockHere, DeliveredInv, Silent, Shifts, sequence' = sequence
    PROVE  Promised /\ DeliveredInv'
<1>1. sequence \in Nat /\ sequence' \in Nat
  BY DEF DeliveredInv
<1>2. Top \in Int /\ Top' \in Int /\ Top' >= Top
  BY <1>1, MockMode
<1>3. DeliveredInv'
  BY <1>1, <1>2, TopGrows
<1>4. QED
  BY <1>3 DEF Promised

LEMMA MockCloses ==
    ASSUME MockHere, DeliveredInv, MockClosed, Silent, sequence' = sequence
    PROVE  Promised /\ DeliveredInv' /\ ~Hears'
<1>1. Shifts /\ ~Hears'
  BY MockMode DEF MockClosed, Shifts
<1>2. QED
  BY <1>1, MockSilent

LEMMA MockRefuses ==
    ASSUME MockHere, DeliveredInv, UNCHANGED mock, Silent
    PROVE  Promised /\ DeliveredInv' /\ Hears' = Hears
<1>1. UNCHANGED <<mockOpen, mockReceiving, sequence>>
  BY DEF mock
<1>2. Shifts /\ Hears' = Hears
  BY <1>1, MockMode DEF Shifts
<1>3. QED
  BY <1>1, <1>2, MockSilent

LEMMA MockOpens ==
    ASSUME MockHere, DeliveredInv, MockOpen
    PROVE  Promised /\ DeliveredInv' /\ ~Hears'
<1>1. Silent /\ sequence' = sequence
  BY DEF MockOpen, Silent
<1>2. CASE MockClosed
  BY <1>1, <1>2, MockCloses
<1>3. CASE mockOpen' = TRUE /\ mockReceiving' = FALSE
  <2>1. ModeNow' = "idle" /\ ~Hears'
    BY <1>3, MockMode
  <2>2. Shifts
    BY <2>1, MockMode DEF Shifts
  <2>3. QED
    BY <1>1, <2>1, <2>2, MockSilent
<1>4. QED
  BY <1>2, <1>3 DEF MockOpen

LEMMA MockStarts ==
    ASSUME MockHere, DeliveredInv, MockStartReceive
    PROVE  Promised /\ DeliveredInv'
<1>1. CASE MockRefused
  BY <1>1, MockRefuses DEF MockRefused, Silent
<1>2. CASE ~MockRefused
  <2>1. mockOpen /\ mockOpen' = mockOpen /\ mockReceiving' = TRUE /\ sequence' = sequence /\ Silent
    BY <1>2 DEF MockStartReceive, Silent
  <2>2. Shifts
    BY <2>1, MockMode DEF Shifts
  <2>3. QED
    BY <2>1, <2>2, MockSilent
<1>3. QED
  BY <1>1, <1>2

LEMMA MockStops ==
    ASSUME MockHere, DeliveredInv, MockStopReceive
    PROVE  Promised /\ DeliveredInv' /\ ~Hears'
<1>1. mockReceiving' = FALSE /\ mockOpen' = mockOpen /\ sequence' = sequence /\ Silent
  BY DEF MockStopReceive, Silent
<1>2. Shifts /\ ~Hears'
  BY <1>1, MockMode DEF Shifts
<1>3. QED
  BY <1>1, <1>2, MockSilent

LEMMA MockReceives ==
    ASSUME MockHere, DeliveredInv, MockReceive
    PROVE  Promised /\ DeliveredInv'
<1>1. CASE MockRefused
  BY <1>1, MockRefuses DEF MockRefused, Silent
<1>2. CASE ~MockRefused
  <2>1. mockOpen /\ UNCHANGED <<mockOpen, mockReceiving, sent>>
    BY <1>2 DEF MockReceive
  <2>2. /\ ModeNow' = ModeNow /\ Shifts
        /\ mockReceiving => ModeNow = "receiving"
    BY <2>1, MockMode DEF Shifts
  <2>3. CASE sequence' = sequence /\ delivered' = delivered
    BY <2>1, <2>2, <2>3, MockSilent DEF Silent
  <2>4. CASE mockReceiving /\ Fill
    <3>1. sequence \in Nat /\ sequence' = sequence + 1 /\ delivered' = Append(delivered, sequence + 1)
      BY <2>4 DEF Fill, DeliveredInv
    <3>2. /\ Top \in Int /\ Top' = Top + 1 /\ sequence' \in Nat
          /\ delivered' = Append(delivered, Top')
      BY <3>1, MockMode
    <3>3. QED
      BY <2>1, <2>2, <2>4, <3>2, NextIsDelivered DEF Promised
  <2>5. QED
    BY <1>2, <2>3, <2>4 DEF MockReceive
<1>3. QED
  BY <1>1, <1>2

LEMMA MockSends ==
    ASSUME MockHere, DeliveredInv, MockTransmit, ~Hears
    PROVE  Promised /\ DeliveredInv' /\ Hears' = Hears
<1>1. CASE UNCHANGED mock /\ Silent
  BY <1>1, MockRefuses
<1>2. CASE ~(UNCHANGED mock /\ Silent)
  <2>1. mockOpen /\ UNCHANGED <<mockOpen, mockReceiving, sequence, delivered>>
    BY <1>2 DEF MockTransmit, MockRefused, Silent
  <2>2. ModeNow = "idle" /\ ModeNow' = ModeNow /\ Shifts /\ Hears' = Hears
    BY <2>1, MockMode DEF Shifts
  <2>3. CASE sent' = sent
    BY <2>1, <2>2, <2>3, MockSilent DEF Silent
  <2>4. CASE sent' = Append(sent, protocol')
    <3>1. Transmits
      BY <2>1, <2>2, <2>4 DEF Transmits
    <3>2. PICK S : sent \in Seq(S)
      BY DEF DeliveredInv
    <3>3. sent' \in Seq(S \union {protocol'})
      BY <2>4, <3>2, OneMore
    <3>4. Top' = Top
      BY <2>1, MockMode
    <3>5. QED
      BY <2>1, <2>2, <3>1, <3>3, <3>4 DEF DeliveredInv, Promised
  <2>5. QED
    BY <1>2, <2>3, <2>4 DEF MockTransmit, MockRefused, Silent
<1>3. QED
  BY <1>1, <1>2

LEMMA MockWaits ==
    ASSUME MockHere, DeliveredInv, MockTime
    PROVE  Promised /\ DeliveredInv' /\ Hears' = Hears
<1>1. Silent /\ UNCHANGED <<mockOpen, mockReceiving, sequence>>
  BY DEF MockTime, Silent
<1>2. Shifts /\ Hears' = Hears
  BY <1>1, MockMode DEF Shifts
<1>3. QED
  BY <1>1, <1>2, MockSilent

\* Nothing of the backend of the build changes.
LEMMA NothingCalled ==
    ASSUME DeliveredInv, CalledInv, UNCHANGED <<linux, mock, delivered, sent, kind>>
    PROVE  Promised /\ DeliveredInv' /\ Hears' = Hears
<1>1. /\ UNCHANGED <<isOpen, receiving, mockOpen, mockReceiving, sequence, delivered, sent, kind>>
      /\ DecoderNow' = DecoderNow
  BY DEF linux, memory, buffers, mock, DecoderNow
<1>2. ModeNow' = ModeNow /\ Hears' = Hears /\ Top' = Top
  BY <1>1 DEF ModeNow, Hears, Top
<1>3. Silent /\ Shifts
  BY <1>1, <1>2 DEF Silent, Shifts
<1>4. DeliveredInv'
  BY <1>1, <1>2 DEF DeliveredInv
<1>5. QED
  BY <1>2, <1>3, <1>4 DEF Promised

-----------------------------------------------------------------------------
(* The calls of the worker, one step at a time.                            *)

LEMMA CallsArePromised ==
    ASSUME DescriptorInv, HeardInv, HeardInv', CalledInv, DeliveredInv
    PROVE  /\ Call(LinuxOpenBegin, MockClose) => Promised /\ DeliveredInv' /\ ~Hears'
           /\ Call(LinuxClose, MockClose) => Promised /\ DeliveredInv' /\ ~Hears'
           /\ Call(LinuxOpenStep, MockOpen) => Promised /\ DeliveredInv' /\ (Hears' => Hears)
           /\ Call(LinuxStartReceive, MockStartReceive) => Promised /\ DeliveredInv'
           /\ Call(LinuxStopReceive, MockStopReceive) => Promised /\ DeliveredInv' /\ ~Hears'
           /\ Call(LinuxReceive, MockReceive) => Promised /\ DeliveredInv'
           /\ ~Hears /\ Call(LinuxTransmit, MockTransmit) =>
                  Promised /\ DeliveredInv' /\ Hears' = Hears
<1>1. LinuxHere /\ (LinuxOpenBegin \/ LinuxClose) => Promised /\ DeliveredInv' /\ ~Hears'
  BY LinuxCloses DEF LinuxOpenBegin, LinuxClose, Silent
<1>2. MockHere /\ MockClose => Promised /\ DeliveredInv' /\ ~Hears'
  BY MockCloses DEF MockClose, Silent
<1>3. Call(LinuxOpenBegin, MockClose) \/ Call(LinuxClose, MockClose) =>
          Promised /\ DeliveredInv' /\ ~Hears'
  BY <1>1, <1>2 DEF Call, LinuxHere, MockHere
<1>4. Call(LinuxOpenStep, MockOpen) => Promised /\ DeliveredInv' /\ (Hears' => Hears)
  BY LinuxOpens, MockOpens DEF Call, LinuxHere, MockHere
<1>5. Call(LinuxStartReceive, MockStartReceive) => Promised /\ DeliveredInv'
  BY LinuxStarts, MockStarts DEF Call, LinuxHere, MockHere
<1>6. Call(LinuxStopReceive, MockStopReceive) => Promised /\ DeliveredInv' /\ ~Hears'
  BY LinuxStops, MockStops DEF Call, LinuxHere, MockHere
<1>7. Call(LinuxReceive, MockReceive) => Promised /\ DeliveredInv'
  BY LinuxReceives, MockReceives DEF Call, LinuxHere, MockHere
<1>8. ~Hears /\ Call(LinuxTransmit, MockTransmit) => Promised /\ DeliveredInv' /\ Hears' = Hears
  BY LinuxSends, MockSends DEF Call, LinuxHere, MockHere
<1>9. QED
  BY <1>3, <1>4, <1>5, <1>6, <1>7, <1>8

Demanded == Promised /\ DeliveredInv' /\ CalledInv'

LEMMA NextIsDemanded ==
    ASSUME DescriptorInv, HeardInv, HeardInv', CalledInv, DeliveredInv, [Next]_vars
    PROVE  Demanded
<1>1. kind' = kind /\ kind' \in {"linux", "mock"} /\ requested' \in BOOLEAN
  BY DEF CalledInv, Next, Initialize, Open, Start, Receive, SetReceiveOn, SetReceiveOff,
         SetReceiveDown, Suspend, Transmit, Resume, GiveUp, Retry, Stop, Unwind, Restart, World, Call, worker, vars
<1>2. CASE Initialize \/ GiveUp \/ Unwind
  BY <1>1, <1>2, CallsArePromised DEF Initialize, GiveUp, Unwind, CalledInv, Demanded
<1>3. CASE Open
  BY <1>1, <1>3, CallsArePromised DEF Open, Then, CalledInv, Demanded
<1>4. CASE Start \/ SetReceiveOn \/ Resume
  BY <1>1, <1>4, CallsArePromised DEF Start, SetReceiveOn, Resume, Then, CalledInv, Demanded
<1>5. CASE Receive
  BY <1>1, <1>5, CallsArePromised DEF Receive, Then, CalledInv, Demanded
<1>6. CASE SetReceiveOff \/ Suspend
  BY <1>1, <1>6, CallsArePromised DEF SetReceiveOff, Suspend, CalledInv, Demanded
<1>7. CASE Transmit
  <2>1. ~Hears
    BY <1>7 DEF Transmit, CalledInv
  <2>2. QED
    BY <1>1, <1>7, <2>1, CallsArePromised DEF Transmit, Then, CalledInv, Demanded
<1>8. CASE SetReceiveDown \/ Retry \/ Stop \/ Restart \/ UNCHANGED vars
  <2>1. UNCHANGED <<linux, mock, delivered, sent, kind>>
    BY <1>8 DEF SetReceiveDown, Retry, Stop, Restart, vars
  <2>2. Promised /\ DeliveredInv' /\ Hears' = Hears
    BY <2>1, NothingCalled
  <2>3. CalledInv'
    BY <1>1, <1>8, <2>2 DEF SetReceiveDown, Retry, Stop, Restart, vars, worker, CalledInv
  <2>4. QED
    BY <2>2, <2>3 DEF Demanded
<1>9. CASE World
  <2>1. Promised /\ DeliveredInv' /\ Hears' = Hears
    BY <1>9, LinuxSurrounds, MockWaits DEF World, LinuxHere, MockHere
  <2>2. QED
    BY <1>1, <1>9, <2>1 DEF World, worker, CalledInv, Demanded
<1>10. QED
  BY <1>2, <1>3, <1>4, <1>5, <1>6, <1>7, <1>8, <1>9 DEF Next

LEMMA NothingDeliveredYet == Init => CalledInv /\ DeliveredInv /\ Contract!Init
<1> SUFFICES ASSUME Init PROVE CalledInv /\ DeliveredInv /\ Contract!Init
  OBVIOUS
<1>1. /\ ~isOpen /\ ~receiving /\ ~mockOpen /\ ~mockReceiving /\ sequence = 0
      /\ kind \in {"linux", "mock"}
  BY DEF Init, LinuxInit, MockInit
<1>2. delivered = <<>> /\ sent = <<>> /\ pc = "initialize" /\ requested \in BOOLEAN
  BY DEF Init
<1>3. CalledInv
  BY <1>1, <1>2 DEF CalledInv, Hears
<1>4. DeliveredInv
  <2>1. <<>> \in Seq(Int)
    OBVIOUS
  <2>2. QED
    BY <1>1, <1>2, <2>1 DEF DeliveredInv, UpTo
<1>5. Contract!Init
  BY <1>1, <1>2 DEF Contract!Init
<1>6. QED
  BY <1>3, <1>4, <1>5

\* Both backends keep what RadioBackend promises the worker, across every close,
\* reopening and failure: packets come out only while receiving and numbered in
\* increasing order, frames go out only while open and not receiving (LinuxIrBackend
\* and MockRadioBackend under the calls of RadioWorker::initializeBackend,
\* receiveOnce and handleSend).
THEOREM BothBackendsKeepTheContract == Spec => ImplementsRadioBackend
<1>1. HeardInv /\ HeardInv' /\ DescriptorInv /\ CalledInv /\ DeliveredInv /\ [Next]_vars =>
          CalledInv' /\ DeliveredInv' /\ [Contract!Next]_(Contract!vars)
  BY NextIsDemanded, PromiseIsKept DEF Demanded
<1>2. QED
  BY <1>1, NothingDeliveredYet, HeardInvariant, PTL DEF Spec, ImplementsRadioBackend, Contract!Spec

-----------------------------------------------------------------------------
(* The folds of the discovery, one element after the other.                *)

LEMMA MaxIs == ASSUME NEW m \in Nat, NEW s \in SUBSET (1 .. m), m \in s PROVE Max(s) = m
<1>1. \E x \in s : \A y \in s : x >= y
  <2>1. \A y \in s : m >= y
    OBVIOUS
  <2>2. QED
    BY <2>1
<1>2. Max(s) \in s /\ \A y \in s : Max(s) >= y
  BY <1>1 DEF Max
<1> DEFINE x == Max(s)
<1> HIDE DEF x
<1>3. x \in 1 .. m /\ x >= m
  BY <1>2 DEF x
<1>4. x = m
  BY <1>3
<1>5. QED
  BY <1>4 DEF x

\* The fold of ProbeEach, over the sets of the first m devices of q.
EachFold(g, sys, start, rcOf, q, m) ==
    g = [s \in SUBSET (1 .. m) |->
            IF s = {} THEN start ELSE ProbeCandidate(sys, g[s \ {Max(s)}], rcOf[q[Max(s)]], q[Max(s)])]

LEMMA EachExists ==
    ASSUME NEW sys, NEW start, NEW rcOf, NEW q, NEW m \in Nat
    PROVE  \E g : EachFold(g, sys, start, rcOf, q, m)
<1> DEFINE S == {k \in Nat : \E g : EachFold(g, sys, start, rcOf, q, k)}
<1>1. 0 \in S
  <2>1. EachFold([s \in SUBSET (1 .. 0) |-> start], sys, start, rcOf, q, 0)
    <3>1. SUBSET (1 .. 0) = {{}}
      OBVIOUS
    <3>2. QED
      BY <3>1 DEF EachFold
  <2>2. QED
    BY <2>1
<1>2. ASSUME NEW k \in 0 .. m - 1, k \in S PROVE k + 1 \in S
  <2>1. PICK g : EachFold(g, sys, start, rcOf, q, k)
    BY <1>2
  <2> DEFINE h == [s \in SUBSET (1 .. k + 1) |->
                      IF k + 1 \in s THEN ProbeCandidate(sys, g[s \ {k + 1}], rcOf[q[k + 1]], q[k + 1])
                      ELSE g[s]]
  <2>2. \A s \in SUBSET (1 .. k + 1) :
            h[s] = IF s = {} THEN start ELSE ProbeCandidate(sys, h[s \ {Max(s)}], rcOf[q[Max(s)]], q[Max(s)])
    <3> TAKE s \in SUBSET (1 .. k + 1)
    <3>1. CASE k + 1 \in s
      <4>1. Max(s) = k + 1
        BY <3>1, MaxIs
      <4>2. s \ {k + 1} \in SUBSET (1 .. k + 1) /\ k + 1 \notin s \ {k + 1}
        OBVIOUS
      <4>3. h[s \ {k + 1}] = g[s \ {k + 1}]
        BY <4>2
      <4>4. h[s] = ProbeCandidate(sys, g[s \ {k + 1}], rcOf[q[k + 1]], q[k + 1]) /\ s # {}
        BY <3>1
      <4> HIDE DEF h
      <4>5. QED
        BY <4>1, <4>3, <4>4
    <3>2. CASE k + 1 \notin s
      <4>1. s \in SUBSET (1 .. k) /\ s \ {Max(s)} \in SUBSET (1 .. k + 1) /\ k + 1 \notin s \ {Max(s)}
        <5>1. \A y \in s : y \in 1 .. k
          BY <3>2
        <5>2. QED
          BY <3>2, <5>1
      <4>2. h[s] = g[s] /\ h[s \ {Max(s)}] = g[s \ {Max(s)}]
        BY <3>2, <4>1
      <4>3. g[s] = IF s = {} THEN start ELSE ProbeCandidate(sys, g[s \ {Max(s)}], rcOf[q[Max(s)]], q[Max(s)])
        BY <2>1, <4>1 DEF EachFold
      <4> HIDE DEF h
      <4>4. QED
        BY <4>2, <4>3
    <3>3. QED
      BY <3>1, <3>2
  <2>3. EachFold(h, sys, start, rcOf, q, k + 1)
    <3>1. h = [s \in SUBSET (1 .. k + 1) |-> h[s]]
      OBVIOUS
    <3> HIDE DEF h
    <3>2. QED
      BY <2>2, <3>1 DEF EachFold
  <2>4. QED
    BY <2>3
<1> HIDE DEF S
<1>3. m \in S
  BY <1>1, <1>2, CountingUp
<1>4. QED
  BY <1>3 DEF S

\* The candidates after each of the devices.
EachGrows(r, sys, start, rcOf, q) ==
    r[0] = start /\ \A k \in 1 .. Len(q) : r[k] = ProbeCandidate(sys, r[k - 1], rcOf[q[k]], q[k])

LEMMA ProbeEachGrows ==
    ASSUME NEW sys, NEW start, NEW rcOf, NEW q, NEW A, q \in Seq(A)
    PROVE  \E r : EachGrows(r, sys, start, rcOf, q) /\ ProbeEach(sys, start, rcOf, q) = r[Len(q)]
<1> DEFINE n == Len(q)
           g == CHOOSE f : EachFold(f, sys, start, rcOf, q, n)
           r == [k \in 0 .. n |-> g[1 .. k]]
<1>1. n \in Nat /\ DOMAIN q = 1 .. n
  OBVIOUS
<1>2. ProbeEach(sys, start, rcOf, q) = (CHOOSE f : EachFold(f, sys, start, rcOf, q, n))[DOMAIN q]
  <2>1. ProbeEach(sys, start, rcOf, q) =
            (CHOOSE f : f = [s \in SUBSET DOMAIN q |->
                        IF s = {} THEN start
                        ELSE ProbeCandidate(sys, f[s \ {Max(s)}], rcOf[q[Max(s)]], q[Max(s)])])[DOMAIN q]
    BY Zenon DEF ProbeEach, FoldLeft, MapThenFoldSet
  <2> HIDE DEF n
  <2>2. QED
    BY <1>1, <2>1 DEF EachFold
<1> HIDE DEF n
<1>3. EachFold(g, sys, start, rcOf, q, n)
  <2>1. \E f : EachFold(f, sys, start, rcOf, q, n)
    BY <1>1, EachExists
  <2>2. QED
    BY <2>1
<1>4. ProbeEach(sys, start, rcOf, q) = g[1 .. n]
  BY <1>1, <1>2
<1> HIDE DEF g
<1>5. r[0] = start
  <2>1. 1 .. 0 = {} /\ {} \in SUBSET (1 .. n)
    OBVIOUS
  <2>2. g[{}] = start
    BY <1>3, <2>1 DEF EachFold
  <2>3. QED
    BY <1>1, <2>1, <2>2
<1>6. \A k \in 1 .. n : r[k] = ProbeCandidate(sys, r[k - 1], rcOf[q[k]], q[k])
  <2> TAKE k \in 1 .. n
  <2>1. 1 .. k \in SUBSET (1 .. n) /\ 1 .. k # {} /\ k \in 0 .. n /\ k - 1 \in 0 .. n
    <3>1. k \in 1 .. k /\ \A y \in 1 .. k : y \in 1 .. n
      BY <1>1
    <3>2. 1 .. k \in SUBSET (1 .. n) /\ 1 .. k # {}
      BY <3>1
    <3>3. QED
      BY <1>1, <3>2
  <2>2. Max(1 .. k) = k /\ (1 .. k) \ {k} = 1 .. k - 1
    BY MaxIs
  <2>3. g[1 .. k] = ProbeCandidate(sys, g[1 .. k - 1], rcOf[q[k]], q[k])
    BY <1>3, <2>1, <2>2 DEF EachFold
  <2>4. QED
    BY <1>1, <2>1, <2>3
<1>7. r[n] = ProbeEach(sys, start, rcOf, q)
  BY <1>1, <1>4
<1> HIDE DEF r
<1>8. QED
  BY <1>5, <1>6, <1>7 DEF EachGrows, n

\* The fold of ProbeMapped, over the sets of the first m paths of q.
MappedFold(g, sys, q, m) ==
    g = [s \in SUBSET (1 .. m) |-> IF s = {} THEN <<>> ELSE ProbeRc(sys, g[s \ {Max(s)}], q[Max(s)])]

LEMMA MappedExists ==
    ASSUME NEW sys, NEW q, NEW m \in Nat
    PROVE  \E g : MappedFold(g, sys, q, m)
<1> DEFINE S == {k \in Nat : \E g : MappedFold(g, sys, q, k)}
<1>1. 0 \in S
  <2>1. MappedFold([s \in SUBSET (1 .. 0) |-> <<>>], sys, q, 0)
    <3>1. SUBSET (1 .. 0) = {{}}
      OBVIOUS
    <3>2. QED
      BY <3>1 DEF MappedFold
  <2>2. QED
    BY <2>1
<1>2. ASSUME NEW k \in 0 .. m - 1, k \in S PROVE k + 1 \in S
  <2>1. PICK g : MappedFold(g, sys, q, k)
    BY <1>2
  <2> DEFINE h == [s \in SUBSET (1 .. k + 1) |-> IF k + 1 \in s THEN ProbeRc(sys, g[s \ {k + 1}], q[k + 1])
                                                ELSE g[s]]
  <2>2. \A s \in SUBSET (1 .. k + 1) :
            h[s] = IF s = {} THEN <<>> ELSE ProbeRc(sys, h[s \ {Max(s)}], q[Max(s)])
    <3> TAKE s \in SUBSET (1 .. k + 1)
    <3>1. CASE k + 1 \in s
      <4>1. Max(s) = k + 1
        BY <3>1, MaxIs
      <4>2. s \ {k + 1} \in SUBSET (1 .. k + 1) /\ k + 1 \notin s \ {k + 1}
        OBVIOUS
      <4>3. h[s \ {k + 1}] = g[s \ {k + 1}]
        BY <4>2
      <4>4. h[s] = ProbeRc(sys, g[s \ {k + 1}], q[k + 1]) /\ s # {}
        BY <3>1
      <4> HIDE DEF h
      <4>5. QED
        BY <4>1, <4>3, <4>4
    <3>2. CASE k + 1 \notin s
      <4>1. s \in SUBSET (1 .. k) /\ s \ {Max(s)} \in SUBSET (1 .. k + 1) /\ k + 1 \notin s \ {Max(s)}
        <5>1. \A y \in s : y \in 1 .. k
          BY <3>2
        <5>2. QED
          BY <3>2, <5>1
      <4>2. h[s] = g[s] /\ h[s \ {Max(s)}] = g[s \ {Max(s)}]
        BY <3>2, <4>1
      <4>3. g[s] = IF s = {} THEN <<>> ELSE ProbeRc(sys, g[s \ {Max(s)}], q[Max(s)])
        BY <2>1, <4>1 DEF MappedFold
      <4> HIDE DEF h
      <4>4. QED
        BY <4>2, <4>3
    <3>3. QED
      BY <3>1, <3>2
  <2>3. MappedFold(h, sys, q, k + 1)
    <3>1. h = [s \in SUBSET (1 .. k + 1) |-> h[s]]
      OBVIOUS
    <3> HIDE DEF h
    <3>2. QED
      BY <2>2, <3>1 DEF MappedFold
  <2>4. QED
    BY <2>3
<1> HIDE DEF S
<1>3. m \in S
  BY <1>1, <1>2, CountingUp
<1>4. QED
  BY <1>3 DEF S

\* The candidates after each of the paths.
MappedGrows(r, sys, q) ==
    r[0] = <<>> /\ \A k \in 1 .. Len(q) : r[k] = ProbeRc(sys, r[k - 1], q[k])

LEMMA ProbeMappedGrows ==
    ASSUME NEW sys, NEW q, NEW A, q \in Seq(A)
    PROVE  \E r : MappedGrows(r, sys, q) /\ ProbeMapped(sys, q) = r[Len(q)]
<1> DEFINE n == Len(q)
           g == CHOOSE f : MappedFold(f, sys, q, n)
           r == [k \in 0 .. n |-> g[1 .. k]]
<1>1. n \in Nat /\ DOMAIN q = 1 .. n
  OBVIOUS
<1>2. ProbeMapped(sys, q) = (CHOOSE f : MappedFold(f, sys, q, n))[DOMAIN q]
  <2>1. ProbeMapped(sys, q) =
            (CHOOSE f : f = [s \in SUBSET DOMAIN q |->
                                IF s = {} THEN <<>> ELSE ProbeRc(sys, f[s \ {Max(s)}], q[Max(s)])])[DOMAIN q]
    BY Zenon DEF ProbeMapped, FoldLeft, MapThenFoldSet
  <2> HIDE DEF n
  <2>2. QED
    BY <1>1, <2>1 DEF MappedFold
<1> HIDE DEF n
<1>3. MappedFold(g, sys, q, n)
  <2>1. \E f : MappedFold(f, sys, q, n)
    BY <1>1, MappedExists
  <2>2. QED
    BY <2>1
<1>4. ProbeMapped(sys, q) = g[1 .. n]
  BY <1>1, <1>2
<1> HIDE DEF g
<1>5. r[0] = <<>>
  <2>1. 1 .. 0 = {} /\ {} \in SUBSET (1 .. n)
    OBVIOUS
  <2>2. g[{}] = <<>>
    BY <1>3, <2>1 DEF MappedFold
  <2>3. QED
    BY <1>1, <2>1, <2>2
<1>6. \A k \in 1 .. n : r[k] = ProbeRc(sys, r[k - 1], q[k])
  <2> TAKE k \in 1 .. n
  <2>1. 1 .. k \in SUBSET (1 .. n) /\ 1 .. k # {} /\ k \in 0 .. n /\ k - 1 \in 0 .. n
    <3>1. k \in 1 .. k /\ \A y \in 1 .. k : y \in 1 .. n
      BY <1>1
    <3>2. 1 .. k \in SUBSET (1 .. n) /\ 1 .. k # {}
      BY <3>1
    <3>3. QED
      BY <1>1, <3>2
  <2>2. Max(1 .. k) = k /\ (1 .. k) \ {k} = 1 .. k - 1
    BY MaxIs
  <2>3. g[1 .. k] = ProbeRc(sys, g[1 .. k - 1], q[k])
    BY <1>3, <2>1, <2>2 DEF MappedFold
  <2>4. QED
    BY <1>1, <2>1, <2>3
<1>7. r[n] = ProbeMapped(sys, q)
  BY <1>1, <1>4
<1> HIDE DEF r
<1>8. QED
  BY <1>5, <1>6, <1>7 DEF MappedGrows, n

-----------------------------------------------------------------------------
(* What probing adds to the candidates.                                    *)

\* The candidates r are those of c and then some of X, and have the devices D.
Grown(c, r, X, D) ==
    /\ Len(c) <= Len(r) /\ \A k \in 1 .. Len(c) : r[k] = c[k]
    /\ \A k \in 1 .. Len(r) : k > Len(c) => r[k] \in X
    /\ \A d \in D : Seen(r, d)

\* The devices of q that answer, and the candidates made of them.
Answering(sys, q)    == {d \in ToSet(q) : Answers(sys, d)}
MadeOf(sys, rcOf, q) == {Candidate(rcOf[d], d, Features(sys, d)) : d \in Answering(sys, q)}

LEMMA GrownMore ==
    ASSUME NEW A, NEW c \in Seq(A), NEW r \in Seq(A), NEW t \in Seq(A), NEW X, NEW D, NEW E,
           Grown(c, r, X, D), Grown(r, t, X, E)
    PROVE  Grown(c, t, X, D \union E)
<1>1. Len(c) \in Nat /\ Len(r) \in Nat /\ Len(t) \in Nat /\ DOMAIN r = 1 .. Len(r) /\ DOMAIN t = 1 .. Len(t)
  OBVIOUS
<1>2. Len(c) <= Len(t) /\ \A k \in 1 .. Len(c) : t[k] = c[k]
  BY <1>1 DEF Grown
<1>3. ASSUME NEW k \in 1 .. Len(t), k > Len(c) PROVE t[k] \in X
  <2>1. CASE k > Len(r)
    BY <2>1 DEF Grown
  <2>2. CASE k \in 1 .. Len(r)
    BY <1>3, <2>2 DEF Grown
  <2>3. QED
    BY <1>1, <2>1, <2>2
<1>4. ASSUME NEW d \in D PROVE Seen(t, d)
  <2>1. PICK k \in 1 .. Len(r) : r[k].device = d
    BY <1>1 DEF Grown, Seen
  <2>2. k \in 1 .. Len(t) /\ t[k] = r[k]
    BY <1>1 DEF Grown
  <2>3. QED
    BY <1>1, <2>1, <2>2 DEF Seen
<1>5. QED
  BY <1>2, <1>3, <1>4 DEF Grown

LEMMA GrownNone == ASSUME NEW A, NEW c \in Seq(A), NEW X PROVE Grown(c, c, X, {})
<1>1. Len(c) \in Nat
  OBVIOUS
<1>2. QED
  BY <1>1 DEF Grown

LEMMA ProbeOne ==
    ASSUME NEW A, NEW c \in Seq(A), NEW sys, NEW rc, NEW d,
           Answers(sys, d) => Candidate(rc, d, Features(sys, d)) \in A,
           NEW X, Answers(sys, d) => Candidate(rc, d, Features(sys, d)) \in X
    PROVE  LET r == ProbeCandidate(sys, c, rc, d)
           IN  r \in Seq(A) /\ Grown(c, r, X, {e \in {d} : Answers(sys, e)})
<1> DEFINE x == Candidate(rc, d, Features(sys, d))
           r == ProbeCandidate(sys, c, rc, d)
<1>1. x.device = d
  BY DEF Candidate
<1> HIDE DEF x
<1>2. Len(c) \in Nat /\ DOMAIN c = 1 .. Len(c)
  OBVIOUS
<1>3. CASE Answers(sys, d) /\ ~Seen(c, d)
  <2>1. r = Append(c, x) /\ x \in A /\ x \in X
    BY <1>3 DEF ProbeCandidate, x
  <2> HIDE DEF r
  <2>2. /\ r \in Seq(A) /\ Len(r) = Len(c) + 1 /\ r[Len(c) + 1] = x /\ \A k \in 1 .. Len(c) : r[k] = c[k]
        /\ DOMAIN r = 1 .. Len(c) + 1
    BY <2>1
  <2>3. Seen(r, d)
    BY <1>1, <1>2, <2>2 DEF Seen
  <2>4. Grown(c, r, X, {e \in {d} : Answers(sys, e)})
    BY <1>2, <2>1, <2>2, <2>3 DEF Grown
  <2>5. QED
    BY <2>2, <2>4 DEF r
<1>4. CASE ~(Answers(sys, d) /\ ~Seen(c, d))
  <2>1. r = c
    BY <1>4 DEF ProbeCandidate
  <2> HIDE DEF r
  <2>2. Grown(c, r, X, {e \in {d} : Answers(sys, e)})
    BY <1>2, <1>4, <2>1 DEF Grown
  <2>3. QED
    BY <2>1, <2>2 DEF r
<1>5. QED
  BY <1>3, <1>4

LEMMA EachGrown ==
    ASSUME NEW A, NEW start \in Seq(A), NEW sys, NEW rcOf, NEW N, NEW q \in Seq(N),
           MadeOf(sys, rcOf, q) \subseteq A
    PROVE  LET r == ProbeEach(sys, start, rcOf, q)
           IN  r \in Seq(A) /\ Grown(start, r, MadeOf(sys, rcOf, q), Answering(sys, q))
<1> DEFINE n == Len(q)
           X == MadeOf(sys, rcOf, q)
           D(k) == {d \in {q[i] : i \in 1 .. k} : Answers(sys, d)}
<1>1. n \in Nat /\ DOMAIN q = 1 .. n
  OBVIOUS
<1>2. PICK r : EachGrows(r, sys, start, rcOf, q) /\ ProbeEach(sys, start, rcOf, q) = r[n]
  BY ProbeEachGrows
<1> DEFINE S == {k \in 0 .. n : r[k] \in Seq(A) /\ Grown(start, r[k], X, D(k))}
<1> HIDE DEF n
<1>3. 0 \in S
  <2>1. r[0] = start
    BY <1>2 DEF EachGrows
  <2>2. D(0) = {}
    OBVIOUS
  <2>3. Grown(start, start, X, {})
    BY GrownNone
  <2>4. 0 \in 0 .. n
    BY <1>1
  <2> HIDE DEF X, D
  <2>5. QED
    BY <2>1, <2>2, <2>3, <2>4
<1>4. ASSUME NEW k \in 0 .. n - 1, k \in S PROVE k + 1 \in S
  <2> DEFINE j == k + 1
             d == q[j]
             c == r[k]
             E == {e \in {d} : Answers(sys, e)}
  <2>1. j \in 1 .. n /\ j \in 0 .. n /\ j - 1 = k /\ k \in Nat
    BY <1>1
  <2>2. c \in Seq(A) /\ Grown(start, c, X, D(k))
    BY <1>4
  <2> HIDE DEF j
  <2>3. r[j] = ProbeCandidate(sys, r[j - 1], rcOf[d], d)
    BY <1>2, <2>1 DEF EachGrows, n
  <2>4. r[j] = ProbeCandidate(sys, c, rcOf[d], d)
    BY <2>1, <2>3
  <2>5. Answers(sys, d) => Candidate(rcOf[d], d, Features(sys, d)) \in X
    <3>1. d \in ToSet(q)
      BY <1>1, <2>1 DEF ToSet
    <3>2. QED
      BY <3>1 DEF MadeOf, Answering
  <2> HIDE DEF d, c, X
  <2>6. r[j] \in Seq(A) /\ Grown(c, r[j], X, E)
    <3>1. Answers(sys, d) => Candidate(rcOf[d], d, Features(sys, d)) \in A
      BY <2>5 DEF X
    <3>2. QED
      BY <2>2, <2>4, <2>5, <3>1, ProbeOne
  <2>7. D(j) = D(k) \union E
    <3>1. \A i : i \in 1 .. j <=> i \in 1 .. k \/ i = j
      BY <2>1
    <3>2. {q[i] : i \in 1 .. j} = {q[i] : i \in 1 .. k} \union {d}
      BY <3>1 DEF d
    <3>3. QED
      BY <3>2
  <2>8. Grown(start, r[j], X, D(k) \union E)
    <3> HIDE DEF D, E
    <3>1. QED
      BY <2>2, <2>6, GrownMore
  <2>9. QED
    BY <2>1, <2>6, <2>7, <2>8 DEF j
<1>5. n \in S
  <2> HIDE DEF S
  <2>1. \A k \in 0 .. n : k \in S
    BY <1>1, <1>3, <1>4, CountingUp
  <2>2. QED
    BY <1>1, <2>1
<1>6. D(n) = Answering(sys, q)
  <2>1. {q[i] : i \in 1 .. n} = ToSet(q)
    BY <1>1 DEF ToSet
  <2>2. QED
    BY <2>1 DEF Answering
<1>7. QED
  BY <1>2, <1>5, <1>6

-----------------------------------------------------------------------------
(* The lists of the system, and what is chosen from them.                  *)

\* What the program lists are names.
SysOK(sys) ==
    /\ sys.rcs \in Seq(STRING) /\ sys.dev \in Seq(STRING)
    /\ \A rc \in DOMAIN sys.nodes : sys.nodes[rc] \in Seq(STRING)

Listed(sys, rc) == Answering(sys, ListLircDevices(sys, rc))

\* The candidates of the paths of q, and those of /dev.
Of(sys, rc)      == {Candidate(rc, d, Features(sys, d)) : d \in Listed(sys, rc)}
OfPaths(sys, q)  == UNION {Of(sys, rc) : rc \in ToSet(q)}
InPaths(sys, q)  == UNION {Listed(sys, rc) : rc \in ToSet(q)}
RcOfDev(sys)     == [d \in ToSet(sys.dev) |-> CandidateMetadata(sys, d, sys.rcs)]
OfDev(sys)       == MadeOf(sys, RcOfDev(sys), sys.dev)

LEMMA ListType == ASSUME NEW sys, SysOK(sys), NEW rc PROVE ListLircDevices(sys, rc) \in Seq(STRING)
<1>1. <<>> \in Seq(STRING)
  OBVIOUS
<1>2. QED
  BY <1>1 DEF SysOK, ListLircDevices

\* std::find_if: the first that answers the test, or none.
LEMMA FirstIn ==
    ASSUME NEW n \in Nat, NEW I, I \subseteq 1 .. n
    PROVE  LET first == IF I # {} THEN Min(I) ELSE 0
           IN  \/ first = 0 /\ I = {}
               \/ first \in I /\ \A k \in I : first <= k
<1>1. CASE I = {}
  BY <1>1
<1>2. CASE I # {}
  <2>1. \E m \in I : \A k \in I : m <= k
    <3>1. I \subseteq Nat
      OBVIOUS
    <3>2. QED
      BY <1>2, <3>1, SmallestOf
  <2>2. Min(I) \in I /\ \A k \in I : Min(I) <= k
    BY <2>1 DEF Min
  <2>3. QED
    BY <1>2, <2>2
<1>3. QED
  BY <1>1, <1>2

LEMMA MetadataIs ==
    ASSUME NEW sys, NEW d, NEW N, NEW rcs \in Seq(N)
    PROVE  LET rc == CandidateMetadata(sys, d, rcs)
           IN  rc = None \/ (rc \in ToSet(rcs) /\ d \in ToSet(ListLircDevices(sys, rc)))
<1> DEFINE n     == Len(rcs)
           I     == {k \in 1 .. n : d \in ToSet(ListLircDevices(sys, rcs[k]))}
           first == IF I # {} THEN Min(I) ELSE 0
           rc    == CandidateMetadata(sys, d, rcs)
<1>1. n \in Nat /\ DOMAIN rcs = 1 .. n
  OBVIOUS
<1>2. rc = IF first = 0 THEN None ELSE rcs[first]
  BY Zenon DEF CandidateMetadata, SelectInSeq
<1> HIDE DEF n, rc
<1>3. I \subseteq 1 .. n
  OBVIOUS
<1> HIDE DEF I
<1>4. first = 0 \/ first \in I
  BY <1>1, <1>3, FirstIn
<1> HIDE DEF first
<1>5. CASE first = 0
  BY <1>2, <1>5 DEF rc
<1>6. CASE first \in I
  <2>1. first \in 1 .. n /\ d \in ToSet(ListLircDevices(sys, rcs[first]))
    BY <1>6 DEF I
  <2>2. first # 0 /\ rcs[first] \in ToSet(rcs)
    BY <1>1, <2>1 DEF ToSet
  <2>3. rc = rcs[first]
    BY <1>2, <2>2
  <2>4. QED
    BY <2>1, <2>2, <2>3 DEF rc
<1>7. QED
  BY <1>4, <1>5, <1>6

\* The first candidate that has the capability.
LEMMA SelectedIs ==
    ASSUME NEW A, NEW c \in Seq(A), NEW role
    PROVE  LET s == SelectLircDevice(c, role)
           IN  \/ s = 0 /\ \A k \in 1 .. Len(c) : ~SupportsRole(c[k].features, role)
               \/ /\ s \in 1 .. Len(c) /\ SupportsRole(c[s].features, role)
                  /\ \A k \in 1 .. Len(c) : SupportsRole(c[k].features, role) => s <= k
<1> DEFINE n     == Len(c)
           I     == {k \in 1 .. n : SupportsRole(c[k].features, role)}
           first == IF I # {} THEN Min(I) ELSE 0
<1>1. n \in Nat
  OBVIOUS
<1>2. SelectLircDevice(c, role) = first
  BY Zenon DEF SelectLircDevice, SelectInSeq
<1> HIDE DEF n
<1>3. \A k : k \in I <=> k \in 1 .. n /\ SupportsRole(c[k].features, role)
  OBVIOUS
<1> HIDE DEF I
<1>4. (first = 0 /\ I = {}) \/ (first \in I /\ \A k \in I : first <= k)
  BY <1>1, <1>3, FirstIn
<1> HIDE DEF first
<1>5. QED
  BY <1>2, <1>3, <1>4 DEF n

LEMMA RcGrown ==
    ASSUME NEW sys, SysOK(sys), NEW rc, NEW A, NEW c \in Seq(A), Of(sys, rc) \subseteq A
    PROVE  LET r == ProbeRc(sys, c, rc) IN r \in Seq(A) /\ Grown(c, r, Of(sys, rc), Listed(sys, rc))
<1> DEFINE q    == ListLircDevices(sys, rc)
           rcOf == [d \in ToSet(q) |-> rc]
<1>1. q \in Seq(STRING)
  BY ListType
<1>2. ProbeRc(sys, c, rc) = ProbeEach(sys, c, rcOf, q)
  BY DEF ProbeRc
<1>3. MadeOf(sys, rcOf, q) = Of(sys, rc)
  <2>1. \A d \in Answering(sys, q) : rcOf[d] = rc
    BY DEF Answering
  <2>2. QED
    BY <2>1 DEF MadeOf, Of, Listed
<1>4. Answering(sys, q) = Listed(sys, rc)
  BY DEF Listed
<1> HIDE DEF q, rcOf
<1>5. QED
  BY <1>1, <1>2, <1>3, <1>4, EachGrown

LEMMA GrownWider ==
    ASSUME NEW c, NEW r, NEW X, NEW Y, X \subseteq Y, NEW D, Grown(c, r, X, D)
    PROVE  Grown(c, r, Y, D)
BY DEF Grown

LEMMA MappedGrown ==
    ASSUME NEW sys, SysOK(sys), NEW N, NEW q \in Seq(N)
    PROVE  LET r == ProbeMapped(sys, q)
           IN  r \in Seq(OfPaths(sys, q)) /\ Grown(<<>>, r, OfPaths(sys, q), InPaths(sys, q))
<1> DEFINE n == Len(q)
           A == OfPaths(sys, q)
           D(k) == UNION {Listed(sys, q[i]) : i \in 1 .. k}
<1>1. n \in Nat /\ DOMAIN q = 1 .. n /\ <<>> \in Seq(A)
  OBVIOUS
<1>2. PICK r : MappedGrows(r, sys, q) /\ ProbeMapped(sys, q) = r[n]
  BY ProbeMappedGrows
<1> DEFINE S == {k \in 0 .. n : r[k] \in Seq(A) /\ Grown(<<>>, r[k], A, D(k))}
<1> HIDE DEF n
<1>3. 0 \in S
  <2>1. r[0] = <<>>
    BY <1>2 DEF MappedGrows
  <2>2. D(0) = {}
    OBVIOUS
  <2>3. 0 \in 0 .. n
    BY <1>1
  <2> HIDE DEF A, D
  <2>4. Grown(<<>>, <<>>, A, {})
    BY <1>1, GrownNone
  <2>5. QED
    BY <1>1, <2>1, <2>2, <2>3, <2>4
<1>4. ASSUME NEW k \in 0 .. n - 1, k \in S PROVE k + 1 \in S
  <2> DEFINE j  == k + 1
             rc == q[j]
             c  == r[k]
             E  == Listed(sys, rc)
  <2>1. j \in 1 .. n /\ j \in 0 .. n /\ j - 1 = k /\ k \in Nat
    BY <1>1
  <2>2. c \in Seq(A) /\ Grown(<<>>, c, A, D(k))
    BY <1>4
  <2> HIDE DEF j
  <2>3. r[j] = ProbeRc(sys, r[j - 1], rc)
    BY <1>2, <2>1 DEF MappedGrows, n
  <2>4. r[j] = ProbeRc(sys, c, rc)
    BY <2>1, <2>3
  <2>5. Of(sys, rc) \subseteq A
    <3>1. rc \in ToSet(q)
      BY <1>1, <2>1 DEF ToSet
    <3>2. QED
      BY <3>1 DEF OfPaths
  <2>6. D(j) = D(k) \union E
    <3>1. \A i : i \in 1 .. j <=> i \in 1 .. k \/ i = j
      BY <2>1
    <3>2. {Listed(sys, q[i]) : i \in 1 .. j} = {Listed(sys, q[i]) : i \in 1 .. k} \union {E}
      BY <3>1
    <3>3. QED
      BY <3>2
  <2> HIDE DEF rc, c, A, D
  <2>7. r[j] \in Seq(A) /\ Grown(c, r[j], Of(sys, rc), E)
    BY <2>2, <2>4, <2>5, RcGrown
  <2> HIDE DEF E
  <2>8. Grown(c, r[j], A, E)
    BY <2>5, <2>7, GrownWider
  <2>9. Grown(<<>>, r[j], A, D(k) \union E)
    BY <1>1, <2>2, <2>7, <2>8, GrownMore
  <2>10. QED
    BY <2>1, <2>6, <2>7, <2>9 DEF j
<1>5. n \in S
  <2> HIDE DEF S
  <2>1. \A k \in 0 .. n : k \in S
    BY <1>1, <1>3, <1>4, CountingUp
  <2>2. QED
    BY <1>1, <2>1
<1>6. D(n) = InPaths(sys, q)
  <2>1. {Listed(sys, q[i]) : i \in 1 .. n} = {Listed(sys, rc) : rc \in ToSet(q)}
    BY <1>1 DEF ToSet
  <2>2. QED
    BY <2>1 DEF InPaths
<1>7. QED
  BY <1>2, <1>5, <1>6

-----------------------------------------------------------------------------
(* All candidates.  The first of them come from the paths searched.        *)

\* Where /dev is searched too.
OfDevIf(sys, unmapped) == IF unmapped THEN OfDev(sys) ELSE {}
InDevIf(sys, unmapped) == IF unmapped THEN Answering(sys, sys.dev) ELSE {}

\* The first candidates r are of Y and have all devices D; the others are of Z, and
\* the devices E are among them all.
Probed(r, Y, D, Z, E) ==
    /\ r \in Seq(Y \union Z) /\ \A d \in E : Seen(r, d)
    /\ \E m \in 0 .. Len(r) :
          /\ \A k \in 1 .. Len(r) : IF k <= m THEN r[k] \in Y ELSE r[k] \in Z
          /\ \A d \in D : \E k \in 1 .. m : r[k].device = d

LEMMA ProbedIs ==
    ASSUME NEW sys, SysOK(sys), NEW N, NEW search \in Seq(N), NEW unmapped \in BOOLEAN
    PROVE  Probed(ProbeCandidates(sys, search, unmapped), OfPaths(sys, search), InPaths(sys, search),
                  OfDevIf(sys, unmapped), InDevIf(sys, unmapped))
<1> DEFINE Y == OfPaths(sys, search)
           Z == OfDevIf(sys, unmapped)
           E == InDevIf(sys, unmapped)
           A == Y \union Z
           c == ProbeMapped(sys, search)
           r == ProbeCandidates(sys, search, unmapped)
<1>1. c \in Seq(Y) /\ Grown(<<>>, c, Y, InPaths(sys, search))
  BY MappedGrown
<1>2. c \in Seq(A) /\ Len(c) \in Nat /\ DOMAIN c = 1 .. Len(c)
  <2> HIDE DEF c, Y, Z
  <2>1. QED
    BY <1>1
<1>3. r \in Seq(A) /\ Grown(c, r, Z, E)
  <2>1. CASE ~unmapped
    <3>1. r = c /\ Z = {} /\ E = {}
      BY <2>1 DEF ProbeCandidates, OfDevIf, InDevIf
    <3> HIDE DEF r, c, Z, E, A
    <3>2. Grown(c, c, Z, {})
      BY <1>2, GrownNone
    <3>3. QED
      BY <1>2, <3>1, <3>2
  <2>2. CASE unmapped
    <3>1. r = ProbeEach(sys, c, RcOfDev(sys), sys.dev)
      BY <2>2 DEF ProbeCandidates, ProbeUnmapped, RcOfDev
    <3>2. Z = MadeOf(sys, RcOfDev(sys), sys.dev) /\ E = Answering(sys, sys.dev) /\ Z \subseteq A
      BY <2>2 DEF OfDev, OfDevIf, InDevIf
    <3> HIDE DEF r, c, Z, E, A
    <3>3. sys.dev \in Seq(STRING)
      BY DEF SysOK
    <3>4. QED
      BY <1>2, <3>1, <3>2, <3>3, EachGrown
  <2>3. QED
    BY <2>1, <2>2
<1> HIDE DEF r, c, Y, Z, E, A
<1>4. Len(r) \in Nat /\ Len(c) \in 0 .. Len(r)
  BY <1>2, <1>3 DEF Grown
<1>5. ASSUME NEW k \in 1 .. Len(r) PROVE IF k <= Len(c) THEN r[k] \in Y ELSE r[k] \in Z
  <2>1. CASE k <= Len(c)
    <3>1. k \in 1 .. Len(c)
      BY <1>2, <2>1
    <3>2. r[k] = c[k]
      BY <1>3, <3>1 DEF Grown
    <3>3. c[k] \in Y
      BY <1>1, <3>1
    <3>4. QED
      BY <2>1, <3>2, <3>3
  <2>2. CASE ~(k <= Len(c))
    <3>1. k > Len(c)
      BY <1>2, <2>2
    <3>2. QED
      BY <1>3, <2>2, <3>1 DEF Grown
  <2>3. QED
    BY <2>1, <2>2
<1>6. ASSUME NEW d \in InPaths(sys, search) PROVE \E k \in 1 .. Len(c) : r[k].device = d
  <2>1. PICK k \in 1 .. Len(c) : c[k].device = d
    BY <1>1, <1>2 DEF Grown, Seen
  <2>2. r[k] = c[k]
    BY <1>3 DEF Grown
  <2>3. QED
    BY <2>1, <2>2
<1>7. \A d \in E : Seen(r, d)
  BY <1>3 DEF Grown
<1>8. \E m \in 0 .. Len(r) :
         /\ \A k \in 1 .. Len(r) : IF k <= m THEN r[k] \in Y ELSE r[k] \in Z
         /\ \A d \in InPaths(sys, search) : \E k \in 1 .. m : r[k].device = d
  <2> DEFINE m == Len(c)
  <2>1. m \in 0 .. Len(r)
    BY <1>4
  <2>2. \A k \in 1 .. Len(r) : IF k <= m THEN r[k] \in Y ELSE r[k] \in Z
    BY <1>5
  <2>3. \A d \in InPaths(sys, search) : \E k \in 1 .. m : r[k].device = d
    BY <1>6
  <2> HIDE DEF m
  <2>4. QED
    BY <2>1, <2>2, <2>3
<1>9. QED
  BY <1>3, <1>7, <1>8 DEF r, Y, Z, E, A, Probed

\* What a candidate is.
LEMMA CandidateIs ==
    ASSUME NEW rc, NEW d, NEW f
    PROVE  LET x == Candidate(rc, d, f)
           IN  ~Failed(x) /\ x.rc = rc /\ x.device = d /\ x.features = f
BY DEF Candidate, Failed

LEMMA ErrorIs == ASSUME NEW why PROVE Failed(Error(why)) /\ Error(why).error = why
BY DEF Error, Failed

LEMMA OfPathsIs ==
    ASSUME NEW sys, NEW q, NEW x \in OfPaths(sys, q)
    PROVE  /\ ~Failed(x) /\ x.rc \in ToSet(q) /\ x.device \in ToSet(ListLircDevices(sys, x.rc))
           /\ Answers(sys, x.device) /\ x.features = Features(sys, x.device)
<1>1. PICK rc \in ToSet(q) : x \in Of(sys, rc)
  BY DEF OfPaths
<1>2. PICK d \in Listed(sys, rc) : x = Candidate(rc, d, Features(sys, d))
  BY <1>1 DEF Of
<1>3. ~Failed(x) /\ x.rc = rc /\ x.device = d /\ x.features = Features(sys, d)
  BY <1>2, CandidateIs
<1>4. d \in ToSet(ListLircDevices(sys, rc)) /\ Answers(sys, d)
  BY DEF Listed, Answering
<1>5. QED
  BY <1>1, <1>3, <1>4

LEMMA OfDevIs ==
    ASSUME NEW sys, SysOK(sys), NEW x \in OfDev(sys)
    PROVE  /\ ~Failed(x) /\ x.device \in ToSet(sys.dev)
           /\ x.rc # None => x.device \in ToSet(ListLircDevices(sys, x.rc))
           /\ Answers(sys, x.device) /\ x.features = Features(sys, x.device)
<1>1. PICK d \in Answering(sys, sys.dev) : x = Candidate(RcOfDev(sys)[d], d, Features(sys, d))
  BY DEF OfDev, MadeOf
<1>2. ~Failed(x) /\ x.rc = RcOfDev(sys)[d] /\ x.device = d /\ x.features = Features(sys, d)
  BY <1>1, CandidateIs
<1>3. d \in ToSet(sys.dev) /\ Answers(sys, d)
  BY DEF Answering
<1>4. RcOfDev(sys)[d] = CandidateMetadata(sys, d, sys.rcs)
  BY <1>3 DEF RcOfDev
<1>5. sys.rcs \in Seq(STRING)
  BY DEF SysOK
<1>6. x.rc = None \/ x.device \in ToSet(ListLircDevices(sys, x.rc))
  BY <1>2, <1>4, <1>5, MetadataIs
<1>7. QED
  BY <1>2, <1>3, <1>6

-----------------------------------------------------------------------------
(* What discovery promises.                                                *)

\* An override names the device.
LEMMA NamedIsRight ==
    ASSUME NEW sys, SysOK(sys), NEW env, NEW role, env.device # None
    PROVE  DiscoveryCorrect(sys, env, role)
<1> DEFINE d      == env.device
           search == IF env.rc = None THEN sys.rcs ELSE <<env.rc>>
           x      == Discover(sys, env, role)
           able   == Able(sys, env, role)
<1>1. Reach(sys, env) = {e \in DOMAIN sys.features : e = d}
  BY DEF Reach
<1>2. able = {e \in Reach(sys, env) : SupportsRole(Features(sys, e), role)}
  BY DEF Able
<1>3. Answers(sys, d) <=> d \in DOMAIN sys.features
  BY DEF Answers
<1>4. CASE ~Answers(sys, d)
  <2>1. x = Error("device does not answer")
    BY <1>4 DEF Discover
  <2>2. Failed(x) /\ x.error = "device does not answer"
    BY <2>1, ErrorIs
  <2>3. Reach(sys, env) = {} /\ able = {}
    BY <1>1, <1>2, <1>3, <1>4
  <2> HIDE DEF x, able
  <2>4. QED
    BY <2>2, <2>3 DEF DiscoveryCorrect, x, able
<1>5. CASE Answers(sys, d) /\ ~SupportsRole(Features(sys, d), role)
  <2>1. x = Error("device is not able")
    BY <1>5 DEF Discover
  <2>2. Failed(x) /\ x.error = "device is not able"
    BY <2>1, ErrorIs
  <2>3. d \in Reach(sys, env) /\ able = {}
    BY <1>1, <1>2, <1>3, <1>5
  <2> HIDE DEF x, able
  <2>4. QED
    BY <2>2, <2>3 DEF DiscoveryCorrect, x, able
<1>6. CASE Answers(sys, d) /\ SupportsRole(Features(sys, d), role)
  <2> DEFINE rc == CandidateMetadata(sys, d, search)
  <2>1. x = Candidate(rc, d, Features(sys, d))
    BY <1>6 DEF Discover
  <2>2. PICK N : search \in Seq(N)
    <3>1. <<env.rc>> \in Seq({env.rc}) /\ sys.rcs \in Seq(STRING)
      BY DEF SysOK
    <3>2. QED
      BY <3>1
  <2>3. rc = None \/ d \in ToSet(ListLircDevices(sys, rc))
    <3> HIDE DEF search
    <3>1. QED
      BY <2>2, MetadataIs
  <2> HIDE DEF rc
  <2>4. ~Failed(x) /\ x.rc = rc /\ x.device = d /\ x.features = Features(sys, d)
    BY <2>1, CandidateIs
  <2>5. d \in able
    BY <1>1, <1>2, <1>3, <1>6
  <2> HIDE DEF x, able
  <2>6. QED
    BY <2>3, <2>4, <2>5 DEF DiscoveryCorrect, x, able
<1>7. QED
  BY <1>4, <1>5, <1>6

\* No override names it: the first candidate that is able, or none.
LEMMA FoundIsRight ==
    ASSUME NEW sys, SysOK(sys), NEW env, NEW role, env.device = None
    PROVE  DiscoveryCorrect(sys, env, role)
<1> DEFINE unmapped == env.rc = None
           search == IF env.rc = None THEN sys.rcs ELSE <<env.rc>>
           r      == ProbeCandidates(sys, search, unmapped)
           s      == SelectLircDevice(r, role)
           x      == Discover(sys, env, role)
           reach  == Reach(sys, env)
           able   == Able(sys, env, role)
           Y      == OfPaths(sys, search)
           Z      == OfDevIf(sys, unmapped)
           E      == InDevIf(sys, unmapped)
           D      == InPaths(sys, search)
<1>1. PICK N : search \in Seq(N)
  <2>1. <<env.rc>> \in Seq({env.rc}) /\ sys.rcs \in Seq(STRING)
    BY DEF SysOK
  <2>2. QED
    BY <2>1
<1>2. /\ r \in Seq(Y \union Z) /\ \A d \in E : Seen(r, d)
      /\ \E m \in 0 .. Len(r) :
            /\ \A k \in 1 .. Len(r) : IF k <= m THEN r[k] \in Y ELSE r[k] \in Z
            /\ \A d \in D : \E k \in 1 .. m : r[k].device = d
  <2> HIDE DEF search
  <2>1. unmapped \in BOOLEAN
    OBVIOUS
  <2>2. Probed(r, Y, D, Z, E)
    BY <1>1, <2>1, ProbedIs
  <2> HIDE DEF r, Y, D, Z, E
  <2>3. QED
    BY <2>2 DEF Probed
<1>3. PICK m \in 0 .. Len(r) :
         /\ \A k \in 1 .. Len(r) : IF k <= m THEN r[k] \in Y ELSE r[k] \in Z
         /\ \A d \in D : \E k \in 1 .. m : r[k].device = d
  BY <1>2
<1>4. x = IF s # 0 THEN r[s] ELSE IF r # <<>> THEN Error("no node is able")
          ELSE IF env.rc # None THEN Error("no node under the path") ELSE Error("no node answers")
  BY DEF Discover
<1>5. \/ s = 0 /\ \A k \in 1 .. Len(r) : ~SupportsRole(r[k].features, role)
      \/ /\ s \in 1 .. Len(r) /\ SupportsRole(r[s].features, role)
         /\ \A k \in 1 .. Len(r) : SupportsRole(r[k].features, role) => s <= k
  <2> HIDE DEF r, Y, Z
  <2>1. QED
    BY <1>2, SelectedIs
\* What is reached is what was found under the paths or, without an override, in /dev.
<1>6. reach = D \union E /\ able = {d \in reach : SupportsRole(Features(sys, d), role)}
  <2>1. CASE env.rc = None
    <3>1. D = {d \in Mapped(sys) : Answers(sys, d)}
      BY <2>1 DEF InPaths, Listed, Answering, Mapped
    <3>2. E = {d \in ToSet(sys.dev) : Answers(sys, d)}
      BY <2>1 DEF Answering, InDevIf
    <3>3. reach = {d \in DOMAIN sys.features : d \in Mapped(sys) \union ToSet(sys.dev)}
      BY <2>1 DEF Reach
    <3>4. QED
      BY <3>1, <3>2, <3>3 DEF Answers, Able
  <2>2. CASE env.rc # None
    <3>1. ToSet(search) = {env.rc} /\ E = {}
      BY <2>2 DEF ToSet, InDevIf
    <3>2. D = {d \in ToSet(ListLircDevices(sys, env.rc)) : Answers(sys, d)}
      <4> HIDE DEF search
      <4>1. QED
        BY <3>1 DEF InPaths, Listed, Answering
    <3>3. reach = {d \in DOMAIN sys.features : d \in ToSet(ListLircDevices(sys, env.rc))}
      BY <2>2 DEF Reach
    <3> HIDE DEF D, E, reach, search
    <3>4. QED
      BY <3>1, <3>2, <3>3 DEF Answers, Able, reach
  <2>3. QED
    BY <2>1, <2>2
<1>7. ASSUME NEW k \in 1 .. Len(r)
      PROVE  /\ ~Failed(r[k]) /\ r[k].device \in reach /\ r[k].features = Features(sys, r[k].device)
             /\ r[k].rc # None => r[k].device \in ToSet(ListLircDevices(sys, r[k].rc))
             /\ k <= m => r[k].device \in D
  <2> DEFINE y == r[k]
  <2>1. CASE k <= m
    <3>1. y \in Y
      BY <1>3, <2>1
    <3> HIDE DEF y
    <3>2. /\ ~Failed(y) /\ y.rc \in ToSet(search) /\ y.device \in ToSet(ListLircDevices(sys, y.rc))
          /\ Answers(sys, y.device) /\ y.features = Features(sys, y.device)
      BY <3>1, OfPathsIs
    <3>3. y.device \in D
      BY <3>2 DEF InPaths, Listed, Answering
    <3> HIDE DEF D, E, reach
    <3>4. QED
      BY <1>6, <3>2, <3>3 DEF y
  <2>2. CASE ~(k <= m)
    <3>1. y \in Z
      BY <1>3, <2>2
    <3> HIDE DEF y
    <3>2. y \in OfDev(sys) /\ unmapped
      BY <3>1 DEF OfDevIf
    <3>3. /\ ~Failed(y) /\ y.device \in ToSet(sys.dev)
          /\ y.rc # None => y.device \in ToSet(ListLircDevices(sys, y.rc))
          /\ Answers(sys, y.device) /\ y.features = Features(sys, y.device)
      BY <3>2, OfDevIs
    <3>4. y.device \in E
      BY <3>2, <3>3 DEF Answering, InDevIf
    <3> HIDE DEF D, E, reach
    <3>5. QED
      BY <1>6, <2>2, <3>3, <3>4 DEF y
  <2>3. QED
    BY <2>1, <2>2
\* Every device that is reached was probed.
<1>8. ASSUME NEW d \in reach PROVE \E k \in 1 .. Len(r) : r[k].device = d /\ (d \in D => k <= m)
  <2> HIDE DEF r, D, E, reach
  <2>1. CASE d \in D
    <3>1. PICK k \in 1 .. m : r[k].device = d
      BY <1>3, <2>1
    <3>2. k \in 1 .. Len(r) /\ k <= m
      BY <1>3
    <3>3. QED
      BY <3>1, <3>2
  <2>2. CASE d \notin D
    <3>1. d \in E
      BY <1>6, <2>2
    <3>2. DOMAIN r = 1 .. Len(r)
      BY <1>2
    <3>3. PICK k \in 1 .. Len(r) : r[k].device = d
      BY <1>2, <3>1, <3>2 DEF Seen
    <3>4. QED
      BY <2>2, <3>3
  <2>3. QED
    BY <2>1, <2>2
<1>9. r = <<>> <=> reach = {}
  <2>1. r = <<>> <=> Len(r) = 0
    BY <1>2
  <2>2. Len(r) \in Nat
    BY <1>2
  <2> HIDE DEF r, reach
  <2>3. Len(r) # 0 => reach # {}
    <3>1. Len(r) # 0 => 1 \in 1 .. Len(r)
      BY <2>2
    <3>2. QED
      BY <1>7, <3>1
  <2>4. reach # {} => Len(r) # 0
    <3>1. reach # {} => 1 .. Len(r) # {}
      BY <1>8
    <3>2. QED
      BY <2>2, <3>1
  <2>5. QED
    BY <2>1, <2>3, <2>4
\* What is listed under a path comes first.
<1>10. unmapped => D = Mapped(sys) \intersect reach
  BY <1>6 DEF InPaths, Listed, Answering, Mapped, Reach, Answers
<1> HIDE DEF r, s, x, reach, able, Y, Z, E, D, search
<1>11. CASE s = 0
  <2>1. \A k \in 1 .. Len(r) : ~SupportsRole(r[k].features, role)
    BY <1>5, <1>11
  <2>2. able = {}
    <3> SUFFICES ASSUME NEW d \in able PROVE FALSE
      OBVIOUS
    <3>1. d \in reach /\ SupportsRole(Features(sys, d), role)
      BY <1>6
    <3>2. PICK k \in 1 .. Len(r) : r[k].device = d
      BY <1>8, <3>1
    <3>3. QED
      BY <1>7, <2>1, <3>1, <3>2
  <2>3. CASE r # <<>>
    <3>1. x = Error("no node is able")
      BY <1>4, <1>11, <2>3
    <3>2. Failed(x) /\ x.error = "no node is able" /\ reach # {}
      BY <1>9, <2>3, <3>1, ErrorIs
    <3>3. QED
      BY <2>2, <3>2 DEF DiscoveryCorrect, x, able, reach
  <2>4. CASE r = <<>>
    <3>1. x = Error("no node under the path") \/ x = Error("no node answers")
      BY <1>4, <1>11, <2>4
    <3>2. Failed(x) /\ x.error \in {"no node under the path", "no node answers"} /\ reach = {}
      BY <1>9, <2>4, <3>1, ErrorIs
    <3>3. QED
      BY <2>2, <3>2 DEF DiscoveryCorrect, x, able, reach
  <2>5. QED
    BY <2>3, <2>4
<1>12. CASE s # 0
  <2>1. /\ s \in 1 .. Len(r) /\ SupportsRole(r[s].features, role)
        /\ \A k \in 1 .. Len(r) : SupportsRole(r[k].features, role) => s <= k
    BY <1>5, <1>12
  <2>2. x = r[s]
    BY <1>4, <1>12
  <2>3. /\ ~Failed(x) /\ x.device \in reach /\ x.features = Features(sys, x.device)
        /\ x.rc # None => x.device \in ToSet(ListLircDevices(sys, x.rc))
        /\ s <= m => x.device \in D
    BY <1>7, <2>1, <2>2
  <2>4. x.device \in able
    BY <1>6, <2>1, <2>2, <2>3
  <2>5. ASSUME env.rc = None, x.device \notin Mapped(sys) PROVE able \intersect Mapped(sys) = {}
    <3> SUFFICES ASSUME NEW d \in able, d \in Mapped(sys) PROVE FALSE
      OBVIOUS
    <3>1. d \in reach /\ SupportsRole(Features(sys, d), role) /\ d \in D
      BY <1>6, <1>10, <2>5
    <3>2. PICK k \in 1 .. Len(r) : r[k].device = d /\ k <= m
      BY <1>8, <3>1
    <3>3. SupportsRole(r[k].features, role)
      BY <1>7, <3>1, <3>2
    <3>4. s <= k /\ s <= m
      BY <1>3, <2>1, <3>2, <3>3
    <3>5. x.device \in D
      BY <2>3, <3>4
    <3>6. QED
      BY <1>10, <2>5, <3>5
  <2>6. QED
    BY <2>3, <2>4, <2>5 DEF DiscoveryCorrect, x, able
<1>13. QED
  BY <1>11, <1>12

-----------------------------------------------------------------------------
(* What the backends find.                                                 *)

\* No step changes the paths, the lists and the overrides.
LEMMA OpenKeepsWorld == LinuxOpenStep => world' = world
BY DEF LinuxOpenStep, OpenCallFails, device

LEMMA CallsKeepWorld ==
    LinuxStartReceive \/ LinuxStopReceive \/ LinuxReceive \/ LinuxTransmit => world' = world
<1>1. Refused => world' = world
  BY DEF Refused, linux, device
<1>2. QED
  BY <1>1 DEF LinuxStartReceive, LinuxStopReceive, LinuxReceive, LinuxTransmit, device

LEMMA NextKeepsWorld == [Next]_vars => world' = world
<1> SUFFICES ASSUME [Next]_vars PROVE world' = world
  OBVIOUS
<1>1. CASE UNCHANGED linux
  BY <1>1 DEF linux, device
<1>2. CASE LinuxOpenBegin \/ LinuxClose
  BY <1>2 DEF LinuxOpenBegin, LinuxClose, device
<1>3. CASE LinuxEnvironment
  BY <1>3 DEF LinuxEnvironment, FrameBegins, FrameEnds, FrameBreaks, NodesChange, Unheard, device
<1>4. CASE Initialize \/ GiveUp \/ Unwind
  BY <1>1, <1>2, <1>4 DEF Initialize, GiveUp, Unwind, Call
<1>5. CASE Open
  BY <1>1, <1>5, OpenKeepsWorld DEF Open, Call
<1>6. CASE Start \/ SetReceiveOn \/ Resume \/ Receive
  BY <1>1, <1>6, CallsKeepWorld DEF Start, SetReceiveOn, Resume, Receive, Call
<1>7. CASE SetReceiveOff \/ Suspend \/ Transmit
  BY <1>1, <1>7, CallsKeepWorld DEF SetReceiveOff, Suspend, Transmit, Call
<1>8. CASE SetReceiveDown \/ Retry \/ Stop \/ Restart \/ UNCHANGED vars
  BY <1>1, <1>8 DEF SetReceiveDown, Retry, Stop, Restart, vars
<1>9. CASE World
  BY <1>1, <1>3, <1>9 DEF World
<1>10. QED
  BY <1>4, <1>5, <1>6, <1>7, <1>8, <1>9 DEF Next

WorldInv == world \in Worlds

LEMMA WorldIsOne == Init => WorldInv
<1>1. (CHOOSE w \in Worlds : TRUE) \in Worlds
  BY LinuxAssumption
<1>2. QED
  BY <1>1 DEF Init, LinuxInit, WorldInv

\* Whatever is plugged in when open looks, and whatever the overrides say: the
\* device found is one they allow and is able, one that rc-core lists before one
\* that it does not; it is found whenever there is one, and the error says what is
\* true (discoverLircDevice, probeCandidates and selectLircDevice).
THEOREM DiscoveryIsRight == Spec => []DiscoveryRight
<1>1. WorldInv /\ [Next]_vars => WorldInv'
  BY NextKeepsWorld DEF WorldInv
<1>2. WorldInv => DiscoveryRight
  <2> SUFFICES ASSUME WorldInv, NEW role \in Roles PROVE DiscoveryCorrect(Sys, Env(role), role)
    BY DEF DiscoveryRight
  <2>1. SysOK(Sys)
    BY LinuxAssumption DEF SysOK, Sys, WorldInv
  <2>2. QED
    BY <2>1, NamedIsRight, FoundIsRight
<1>3. QED
  BY <1>1, <1>2, WorldIsOne, PTL DEF Spec
=============================================================================
