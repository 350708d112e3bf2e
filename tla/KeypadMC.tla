------------------------------- MODULE KeypadMC -------------------------------
EXTENDS Keypad

MCDevices == <<"builtin", "usb">>
MCKeys    == [builtin |-> {"KEY_A", "KEY_LEFTSHIFT", "KEY_RIGHTSHIFT"},
              usb     |-> {"TCA_HASH", "KEY_LEFTSHIFT"}]
=============================================================================
