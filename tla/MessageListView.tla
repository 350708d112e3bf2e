--------------------------- MODULE MessageListView ---------------------------
(***************************************************************************)
(* The list of messages (class MessageListView of src/views/chat_view.cpp) *)
(* as operators on its state, a record of                                  *)
(*   rows       the ids of the bubbles drawn, in order                     *)
(*   synced     _synced                                                    *)
(*   y          the scroll position of the LVGL object                     *)
(*   animating  _scroll_animating                                          *)
(*   goal       where the animation ends                                   *)
(*   follow     _follow_bottom                                             *)
(* Every row is one unit high.                                             *)
(***************************************************************************)
EXTENDS Integers, Sequences, SequencesExt, FiniteSetsExt

CONSTANTS
    HistoryLimit,    \* kMessageHistoryLimit, 64 in the program
    Viewport,        \* rows on the screen, 3 or 4
    FollowDistance,  \* kBottomFollowThreshold, 2 rows
    ScrollStep       \* kMessageScrollStep, about a row

\* The history fills the screen several times over.
ASSUME ListAssumption ==
    /\ Viewport \in Nat \ {0} /\ FollowDistance \in Nat /\ ScrollStep \in Nat \ {0}
    /\ HistoryLimit \in Nat /\ HistoryLimit > Viewport + FollowDistance + 1

NewList == [rows |-> <<>>, synced |-> FALSE, y |-> 0, animating |-> FALSE, goal |-> 0, follow |-> TRUE]

\* A list shorter than the screen has a negative maximum.
MaxScroll(l)   == Len(l.rows) - Viewport
ScrollEnd(l)   == IF MaxScroll(l) < 0 THEN 0 ELSE MaxScroll(l)
NearBottom(l, y) == MaxScroll(l) - y <= FollowDistance

\* std::clamp(target, 0, maximum) as it is built: the maximum wins when it is
\* below zero.
Clamp(target, maximum) == Min({Max({target, 0}), maximum})

\* LVGL keeps a position within the content.
Bounded(l, y) == Max({0, Min({y, ScrollEnd(l)})})

\* updateFollowState.
Follow(l) == [l EXCEPT !.follow = l.rows = <<>> \/ NearBottom(l, l.y)]

\* setScrollImmediate.
JumpTo(l, target) == Follow([l EXCEPT !.animating = FALSE, !.y = Bounded(l, Clamp(target, MaxScroll(l)))])

\* animateScrollTo.
AnimateTo(l, target) ==
    LET goal == Clamp(target, MaxScroll(l))
    IN  IF ~l.animating /\ goal = l.y THEN l
        ELSE [l EXCEPT !.animating = TRUE, !.goal = goal]

\* After a change of the rows LVGL brings the position back within them, and says
\* so: onListScrolled.
Laid(l) ==
    IF l.y <= ScrollEnd(l) THEN l
    ELSE LET moved == [l EXCEPT !.y = ScrollEnd(l)] IN IF l.animating THEN moved ELSE Follow(moved)

Rebuild(l, ids) ==
    LET drawn == [l EXCEPT !.rows = ids] IN JumpTo(Laid(drawn), ScrollEnd(drawn))

\* How many rows come before the first message there is.
RemoveCount(rows, ids) ==
    CHOOSE n \in 0 .. Len(rows) :
        /\ \A k \in 1 .. n : rows[k] # ids[1]
        /\ n < Len(rows) => rows[n + 1] = ids[1]

\* Mutation: the position stays where it was, and the rows slide under it.
PlaceUnmoved(l, removed) == l.y

\* Where a reader who has scrolled up is put when rows above go.
PlaceAfter(l, removed) == l.y - removed

Update(l, ids) ==
    LET removed == RemoveCount(l.rows, ids)
        overlap == SubSeq(l.rows, removed + 1, Len(l.rows))
        follow  == l.rows = <<>> \/ l.follow
        cut     == [l EXCEPT !.rows = overlap]
        placed  == IF follow \/ removed = 0 THEN cut ELSE JumpTo(Laid(cut), PlaceAfter(l, removed))
        drawn   == Laid([placed EXCEPT !.rows = overlap \o SubSeq(ids, Len(overlap) + 1, Len(ids))])
    IN
    IF (l.rows # <<>> /\ overlap = <<>>) \/ ~IsPrefix(overlap, ids) THEN Rebuild(l, ids)
    ELSE IF follow THEN AnimateTo([drawn EXCEPT !.follow = TRUE], MaxScroll(drawn))
    ELSE drawn

\* Mutation: only the sizes of the two lists are compared.
UnchangedSize(rows, ids) == Len(rows) = Len(ids)

Unchanged(rows, ids) == rows = ids

\* setMessages, for the last HistoryLimit of them.
SetMessages(l, messages) ==
    LET first == Max({0, Len(messages) - HistoryLimit})
        ids   == SubSeq(messages, first + 1, Len(messages))
    IN
    IF ~l.synced THEN Rebuild([l EXCEPT !.synced = TRUE], ids)
    ELSE IF Unchanged(l.rows, ids) THEN l
    ELSE IF ids = <<>> THEN [NewList EXCEPT !.synced = TRUE]
    ELSE Update(l, ids)

ScrollBy(l, amount) ==
    LET base   == IF l.animating THEN l.goal ELSE l.y
        target == Clamp(base - amount, MaxScroll(l))
    IN  AnimateTo([l EXCEPT !.follow = NearBottom(l, target)], target)

ScrollToBottom(l) == AnimateTo([l EXCEPT !.follow = TRUE], MaxScroll(l))

\* tick: the animation moves some way to its goal, or ends there.
ListTick(l) ==
    IF ~l.animating THEN {l}
    ELSE LET goal == Bounded(l, l.goal)
             way  == IF goal < l.y THEN goal .. l.y ELSE l.y .. goal
         IN  {[l EXCEPT !.y = y] : y \in way} \union {JumpTo(l, l.goal)}

-----------------------------------------------------------------------------
(* Properties.                                                             *)

\* The rows are the messages, however they came to be drawn.
ShowsMessages(l, messages) ==
    l.rows = SubSeq(messages, Max({0, Len(messages) - HistoryLimit}) + 1, Len(messages))

\* At rest the list follows new messages exactly when it shows the last ones.
\* A full history is the exception: a message that arrives while the list is
\* still moving up stops it where it is, and whether that is near the bottom is
\* asked before the new row is there, so that the list may follow from one row
\* farther away.
FollowsBottom(l) ==
    LET near == l.rows = <<>> \/ NearBottom(l, l.y)
        was  == Len(l.rows) = HistoryLimit /\ MaxScroll(l) - 1 - l.y <= FollowDistance
    IN  ~l.animating => (near => l.follow) /\ (l.follow => near \/ was)
=============================================================================
