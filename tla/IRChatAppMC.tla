----------------------------- MODULE IRChatAppMC -----------------------------
(* Three scenes: typing on a radio that works, reading a history that       *)
(* fills, and a radio in trouble.                                           *)
EXTENDS IRChatApp

MCScenes == {
    [keys |-> {"ESC", "ENTER", "HELP", "BACKSPACE", "DEL", "LEFT", "RIGHT", "HOME", "END", "NEXT", "DOWN", "a", "z"},
     messages |-> 1, typed |-> 2, lag |-> 0, troubled |-> FALSE],
    [keys |-> {"ESC", "UP", "x", "ENTER", "a"}, messages |-> 7, typed |-> 1, lag |-> 1, troubled |-> FALSE],
    [keys |-> {"ESC", "ENTER", "HELP", "NEXT", "r"}, messages |-> 1, typed |-> 1, lag |-> 1, troubled |-> TRUE]}
=============================================================================
