---------------------------- MODULE LircDiscovery ----------------------------
(***************************************************************************)
(* The choice of the receiver and of the transmitter                       *)
(* (src/radio/lirc_device_discovery.cpp), as operators on what the program *)
(* finds: sys is a record of                                               *)
(*   rcs       the paths of /sys/class/rc, sorted                          *)
(*   nodes     the sorted lirc nodes of each of them                       *)
(*   dev       the sorted lirc nodes of /dev                               *)
(*   features  the capabilities of every node that opens and answers       *)
(* and env is the pair of overrides of one role, empty where unset.        *)
(***************************************************************************)
EXTENDS Integers, Sequences, SequencesExt

None == ""

Roles == {"receiver", "transmitter"}
RequiredCapability(role) == IF role = "receiver" THEN "REC_MODE2" ELSE "SEND_PULSE"
SupportsRole(features, role) == RequiredCapability(role) \in features

\* A directory that is missing or unreadable has no entries.
ListLircDevices(sys, rc) == IF rc \in DOMAIN sys.nodes THEN sys.nodes[rc] ELSE <<>>

\* Opened read-write, else read-only, else write-only, and asked.
Answers(sys, device)  == device \in DOMAIN sys.features
Features(sys, device) == sys.features[device]

Candidate(rc, device, features) == [rc |-> rc, device |-> device, features |-> features]

\* The first of the given paths that lists the node.
CandidateMetadata(sys, device, rcs) ==
    LET first == SelectInSeq(rcs, LAMBDA rc : device \in ToSet(ListLircDevices(sys, rc)))
    IN  IF first = 0 THEN None ELSE rcs[first]

Seen(candidates, device) == \E k \in DOMAIN candidates : candidates[k].device = device

\* probeCandidate and appendCandidate: a node that does not answer is skipped, one
\* already there is not added again.
ProbeCandidate(sys, candidates, rc, device) ==
    IF Answers(sys, device) /\ ~Seen(candidates, device)
    THEN Append(candidates, Candidate(rc, device, Features(sys, device)))
    ELSE candidates

ProbeEach(sys, candidates, rcOf, devices) ==
    FoldLeft(LAMBDA found, device : ProbeCandidate(sys, found, rcOf[device], device), candidates, devices)

\* The nodes of one path, then those of /dev that are not yet candidates.
ProbeRc(sys, candidates, rc) ==
    LET devices == ListLircDevices(sys, rc)
    IN  ProbeEach(sys, candidates, [device \in ToSet(devices) |-> rc], devices)
ProbeUnmapped(sys, candidates) ==
    ProbeEach(sys, candidates,
              [device \in ToSet(sys.dev) |-> CandidateMetadata(sys, device, sys.rcs)], sys.dev)

ProbeMapped(sys, search) == FoldLeft(LAMBDA found, rc : ProbeRc(sys, found, rc), <<>>, search)

\* Mutation: the nodes of /dev are searched under an override too.
ProbeEverywhere(sys, search, includeUnmapped) == ProbeUnmapped(sys, ProbeMapped(sys, search))

ProbeCandidates(sys, search, includeUnmapped) ==
    LET mapped == ProbeMapped(sys, search) IN IF includeUnmapped THEN ProbeUnmapped(sys, mapped) ELSE mapped

\* selectLircDevice takes the first that has the capability.
SelectLircDevice(candidates, role) ==
    SelectInSeq(candidates, LAMBDA c : SupportsRole(c.features, role))

Error(why)  == [error |-> why]
Failed(found) == "error" \in DOMAIN found

\* discoverLircDevice: a candidate, or the error it throws.
Discover(sys, env, role) ==
    LET search     == IF env.rc = None THEN sys.rcs ELSE <<env.rc>>
        candidates == ProbeCandidates(sys, search, env.rc = None)
        selected   == SelectLircDevice(candidates, role)
    IN
    IF env.device # None
    THEN IF ~Answers(sys, env.device) THEN Error("device does not answer")
         ELSE IF ~SupportsRole(Features(sys, env.device), role) THEN Error("device is not able")
         ELSE Candidate(CandidateMetadata(sys, env.device, search), env.device,
                        Features(sys, env.device))
    ELSE IF selected # 0 THEN candidates[selected]
    ELSE IF candidates # <<>> THEN Error("no node is able")
    ELSE IF env.rc # None THEN Error("no node under the path")
    ELSE Error("no node answers")

-----------------------------------------------------------------------------
(* What discovery promises, without the order of its search.               *)

Mapped(sys) == UNION {ToSet(ListLircDevices(sys, rc)) : rc \in ToSet(sys.rcs)}
Reach(sys, env) ==
    {d \in DOMAIN sys.features :
        IF env.device # None THEN d = env.device
        ELSE IF env.rc # None THEN d \in ToSet(ListLircDevices(sys, env.rc))
        ELSE d \in Mapped(sys) \union ToSet(sys.dev)}
Able(sys, env, role) == {d \in Reach(sys, env) : SupportsRole(Features(sys, d), role)}

\* The device is one that the overrides allow and that has the capability, one
\* listed by rc-core before one that is not; there is one whenever such a device
\* exists; and an error says what is true.
DiscoveryCorrect(sys, env, role) ==
    LET found == Discover(sys, env, role)
        able  == Able(sys, env, role)
    IN
    IF Failed(found)
    THEN /\ able = {}
         /\ found.error \in {"device is not able", "no node is able"} <=> Reach(sys, env) # {}
    ELSE /\ found.device \in able
         /\ found.features = Features(sys, found.device)
         /\ env.device = None /\ found.device \notin Mapped(sys) /\ env.rc = None
               => able \intersect Mapped(sys) = {}
         /\ found.rc # None => found.device \in ToSet(ListLircDevices(sys, found.rc))
=============================================================================
