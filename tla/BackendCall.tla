----------------------------- MODULE BackendCall -----------------------------
(***************************************************************************)
(* What a call of a radio backend shares with its caller, the worker       *)
(* (src/radio/radio_backend.hpp).                                          *)
(***************************************************************************)
EXTENDS Integers, Sequences, SequencesExt, FiniteSets

CONSTANTS
    SequenceBits,   \* the width of the protocol sequence, 16 in the program
    MaxFrames       \* bound: packets heard or generated

ASSUME BackendAssumption == SequenceBits \in Nat \ {0} /\ MaxFrames \in Nat

VARIABLES
    cancelled,   \* the token of the worker: a stop was requested
    outcome,     \* of the last call: "ok", "nothing", "error" or "cancelled"; "busy" within open
    delivered,   \* history: the sequences of the packets delivered
    sent         \* history: the protocol sequences of the frames on the air

\* ++_next_tx_protocol_sequence, in the mock ++_next_protocol_sequence.
NextNumber(n) == (n + 1) % 2 ^ SequenceBits

\* A call ends by an exception.
Throw(what) == outcome' = what

\* A stop is requested during the call, which notices it before it returns: the
\* caller's part of this is DefaultBackend's Call.
Stopped == ~cancelled /\ Throw("cancelled")
=============================================================================
