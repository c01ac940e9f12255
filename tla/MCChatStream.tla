---------------------------- MODULE MCChatStream ----------------------------
(* Small instances of ChatStream.                                          *)
EXTENDS ChatStream, TLC

Symmetry == Permutations(Streams)
=============================================================================
