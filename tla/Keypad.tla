-------------------------------- MODULE Keypad --------------------------------
(***************************************************************************)
(* The keyboards of the device (src/input/ir_chat_keypad.cpp): the event   *)
(* devices opened at the start, read in turn at every poll of main's loop, *)
(* their key codes translated under one shift state for all of them, and   *)
(* each key handed to the callback or, without one, queued for LVGL.       *)
(*                                                                         *)
(* The kernel is external: every open file of a device has a queue of its  *)
(* own, which loses what it holds when one more would not fit              *)
(* (SYN_DROPPED), and a device unplugged cannot be read any more, whatever *)
(* is in its queue.                                                        *)
(***************************************************************************)
EXTENDS Integers, SequencesExt, FiniteSetsExt

CONSTANTS
    Devices,      \* the /dev/input/event* nodes, in the order of the scan
    Builtin,      \* the one that ByPath leads to, where there is such a link
    ByPath,       \* /dev/input/by-path/platform-3f804000.i2c-event
    None,
    Typewriter,   \* codes with a shifted and an unshifted character: letters, punctuation,
                  \* digits, those of the number pad too
    Fixed,        \* codes with one key: the TCA8418's, Esc, arrows, Enter, the number pad's
                  \* Enter and signs, ...
    Keys,         \* bound: the codes each device's user presses
    KernelCap,    \* bound: events a queue holds
    MaxPresses    \* bound: keys pressed in a run, shift keys too

Shifts == {"KEY_LEFTSHIFT", "KEY_RIGHTSHIFT"}

\* The scan tries every node once.
ASSUME KeypadAssumption ==
    /\ Devices \in Seq(ToSet(Devices)) /\ IsInjective(Devices)
    /\ Builtin \in ToSet(Devices) /\ {ByPath, None} \intersect ToSet(Devices) = {}
    /\ \A d \in ToSet(Devices) : Keys[d] \subseteq Typewriter \union Fixed \union Shifts
    /\ KernelCap \in Nat \ {0} /\ MaxPresses \in Nat

Keyboards == ToSet(Devices)

\* What the pairs of q that begin with mark end with, in order.
AddIf(mark, r, x) == IF x[1] = mark THEN Append(r, x[2]) ELSE r
Under(mark, q)    == FoldLeft(LAMBDA r, x : AddIf(mark, r, x), <<>>, q)

VARIABLES
    callback,   \* whether a callback is set; the application's takes every key
    phase,      \* closed, idle, polling, ended
    files,      \* _event_fds: the device, its queue
    at,         \* the file poll is reading
    shift,      \* _left_shift_pressed, _right_shift_pressed: those that are
    pending,    \* _pending_keys
    got,        \* keys delivered from each device: to the callback, to LVGL
    down,       \* the keys held on each device
    presses,    \* how much of MaxPresses is used
    owed,       \* history: the keys of each device, by its own shift
    gone,       \* devices unplugged
    lost,       \* history: devices that lost events
    shifted     \* history: devices whose shift was used

vars == <<callback, phase, files, at, shift, pending, got, down, presses, gone, owed, lost, shifted>>
user == <<down, presses, gone, owed, lost, shifted>>

-----------------------------------------------------------------------------
(* openDefault, close.                                                     *)

\* What opening a path gives: a keyboard with keys of the application, one without,
\* or nothing, also where another process has grabbed it.  The link leads to the
\* built-in keyboard if it is there.
Answers ==
    {a \in [Keyboards \union {ByPath} -> {"keys", "other", "refused"}] :
        a[ByPath] \in {a[Builtin], "refused"}}

\* openDevice.
Opens(answer, requireAppKeys) == answer = "keys" \/ (answer = "other" /\ ~requireAppKeys)

\* The device that an environment variable names, else the built-in keyboard, else
\* every node with keys of the application.
Opened(answers, override) ==
    IF override # None THEN IF Opens(answers[override], FALSE) THEN <<override>> ELSE <<>>
    ELSE IF Opens(answers[ByPath], FALSE) THEN <<Builtin>>
    ELSE Under(TRUE, [i \in DOMAIN Devices |-> <<Opens(answers[Devices[i]], TRUE), Devices[i]>>])

Init ==
    /\ callback \in BOOLEAN
    /\ phase = "closed" /\ files = <<>> /\ at = 0
    /\ shift = {} /\ pending = <<>>
    /\ got = [d \in Keyboards |-> <<>>] /\ owed = got
    /\ down = [d \in Keyboards |-> {}] /\ presses = 0
    /\ gone = {} /\ lost = {} /\ shifted = {}

OpenDefault ==
    /\ phase = "closed"
    /\ \E answers \in Answers, override \in Keyboards \union {None} :
           LET opened == Opened(answers, override)
           IN  files' = [i \in DOMAIN opened |-> [device |-> opened[i], queue |-> <<>>]]
    /\ phase' = "idle"
    /\ UNCHANGED <<callback, at, shift, pending, got, user>>

\* The keys that wait for LVGL go with the files; the shift state stays.
Close ==
    /\ phase = "idle"
    /\ phase' = "ended" /\ files' = <<>> /\ pending' = <<>>
    /\ UNCHANGED <<callback, at, shift, got, user>>

-----------------------------------------------------------------------------
(* translateKey and pushKeyEvent.                                          *)

NoKey == <<>>

\* The TCA8418's codes are characters already: shift leaves them alone.  A
\* code translateKey does not know has no key.
TranslateKey(code, isShifted) ==
    CASE code \in Typewriter -> <<code, isShifted>>
      [] code \in Fixed      -> <<code>>
      [] OTHER              -> NoKey

\* Mutation: one flag for the two shift keys.
ShiftAfterOneFlag(held, code, value) == IF value = 1 THEN held \union {code} ELSE {}

ShiftAfter(held, code, value) == IF value = 1 THEN held \union {code} ELSE held \ {code}

Delivered(key, value) == <<key, value = 1>>

\* pushKeyEvent: a repetition (2), a shift key and a code without a key go no
\* further.
PushKeyEvent(device, code, value) ==
    LET key == TranslateKey(code, shift # {}) IN
    /\ shift' = IF value \in {0, 1} /\ code \in Shifts THEN ShiftAfter(shift, code, value) ELSE shift
    /\ IF value = 2 \/ code \in Shifts \/ key = NoKey THEN UNCHANGED <<got, pending>>
       ELSE IF callback
       THEN /\ got' = [got EXCEPT ![device] = Append(@, Delivered(key, value))]
            /\ UNCHANGED pending
       ELSE /\ pending' = Append(pending, <<device, Delivered(key, value)>>)
            /\ UNCHANGED got

-----------------------------------------------------------------------------
(* poll and readCb.                                                        *)

PollBegin ==
    /\ phase = "idle" /\ phase' = "polling" /\ at' = 1
    /\ UNCHANGED <<callback, files, shift, pending, got, user>>

PollRead ==
    /\ phase = "polling" /\ at <= Len(files) /\ files[at].queue # <<>>
    /\ LET e == Head(files[at].queue) IN PushKeyEvent(files[at].device, e.code, e.value)
    /\ files' = [files EXCEPT ![at].queue = Tail(@)]
    /\ UNCHANGED <<callback, phase, at, user>>

\* Nothing to read, an error, or a signal: the rest is for the next poll.
PollNext ==
    /\ phase = "polling" /\ at <= Len(files)
    /\ at' = at + 1
    /\ UNCHANGED <<callback, phase, files, shift, pending, got, user>>

PollEnd ==
    /\ phase = "polling" /\ at > Len(files)
    /\ phase' = "idle" /\ at' = 0
    /\ UNCHANGED <<callback, files, shift, pending, got, user>>

\* readCb: LVGL reads on while there is more (continue_reading).
ReadCb ==
    /\ phase = "idle" /\ pending # <<>>
    /\ LET k == Head(pending) IN got' = [got EXCEPT ![k[1]] = Append(@, k[2])]
    /\ pending' = Tail(pending)
    /\ UNCHANGED <<callback, phase, files, at, shift, user>>

-----------------------------------------------------------------------------
(* The user and the kernel.                                                *)

Files(device) == {i \in DOMAIN files : files[i].device = device}
Full(device)  == \E i \in Files(device) : Len(files[i].queue) >= KernelCap

\* What is held decides what is owed, whenever the program gets to read it.
Owed(device, code, value) ==
    LET held == down[device] \intersect Shifts
        key  == TranslateKey(code, held # {})
    IN  IF value = 2 \/ code \in Shifts \/ key = NoKey THEN owed
        ELSE [owed EXCEPT ![device] = Append(@, Delivered(key, value))]

Happens(device, code, value) ==
    /\ phase \in {"idle", "polling"} /\ Files(device) # {} /\ device \notin gone
    /\ files' = [i \in DOMAIN files |->
                    IF i \notin Files(device) THEN files[i]
                    ELSE [files[i] EXCEPT !.queue = Append(IF Full(device) THEN <<>> ELSE @,
                                                           [code |-> code, value |-> value])]]
    /\ lost' = IF Full(device) THEN lost \union {device} ELSE lost
    /\ owed' = Owed(device, code, value)
    /\ shifted' = IF code \in Shifts THEN shifted \union {device} ELSE shifted
    /\ UNCHANGED <<callback, phase, at, shift, pending, got, gone>>

Press(device, code) ==
    /\ code \notin down[device]
    /\ presses < MaxPresses /\ presses' = presses + 1
    /\ down' = [down EXCEPT ![device] = @ \union {code}]
    /\ Happens(device, code, 1)

Release(device, code) ==
    /\ code \in down[device]
    /\ down' = [down EXCEPT ![device] = @ \ {code}]
    /\ Happens(device, code, 0)
    /\ UNCHANGED presses

Repeat(device, code) ==
    /\ code \in down[device] \ Shifts
    /\ Happens(device, code, 2)
    /\ UNCHANGED <<down, presses>>

\* Also in the middle of a poll.  What was in its queues is gone, a release of shift
\* perhaps among it.
Unplug(device) ==
    /\ phase \in {"idle", "polling"} /\ Files(device) # {} /\ device \notin gone
    /\ gone' = gone \union {device} /\ lost' = lost \union {device}
    /\ down' = [down EXCEPT ![device] = {}]
    /\ files' = [i \in DOMAIN files |->
                    IF i \in Files(device) THEN [files[i] EXCEPT !.queue = <<>>] ELSE files[i]]
    /\ UNCHANGED <<callback, phase, at, shift, pending, got, owed, presses, shifted>>

User ==
    \E device \in Keyboards :
        \/ Unplug(device)
        \/ \E code \in Keys[device] : Press(device, code) \/ Release(device, code) \/ Repeat(device, code)

Next ==
    \/ OpenDefault \/ Close \/ PollBegin \/ PollRead \/ PollNext \/ PollEnd \/ ReadCb
    \/ User

Spec == Init /\ [][Next]_vars

-----------------------------------------------------------------------------
(* Properties.                                                             *)

\* The keys of a device that are read and wait for LVGL.
Waiting(device) == Under(device, pending)

\* The keys alone, whatever the shift.
Unshifted(keys) == [i \in DOMAIN keys |-> <<keys[i][1][1], keys[i][2]>>]

\* What is typed on a keyboard arrives, provided that the kernel lost nothing of it:
\* every press and release once and in order, however late and between whatever
\* events of the other keyboards it is read; and with the character its own shift
\* keys gave it as long as no other keyboard's shift was used, for the shift state
\* is shared.
TypedIsDelivered ==
    phase \in {"idle", "polling"} =>
        \A d \in Keyboards \ lost :
            LET read == got[d] \o Waiting(d) IN
            /\ IsPrefix(Unshifted(read), Unshifted(owed[d]))
            /\ (\A i \in Files(d) : files[i].queue = <<>>) => Len(read) = Len(owed[d])
            /\ shifted \subseteq {d} => IsPrefix(read, owed[d])
=============================================================================
