-------------------------- MODULE IrChatCodecMC ---------------------------
(***************************************************************************)
(* Two frames of one byte for TLC, with numbers and bytes whose bits       *)
(* differ, and disturbances on both sides of every limit of the decoder.   *)
(***************************************************************************)
EXTENDS IrChatCodec

MCFrames  == {[seq |-> WordOf(258), text |-> ByteOf(89)], [seq |-> WordOf(65535), text |-> ByteOf(32)]}
MCNoiseUs == {0, 850, 951, 1100, 5850, 6300}
=============================================================================
