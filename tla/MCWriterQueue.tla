----------------------------- MODULE MCWriterQueue ----------------------------
(* Two sessions of a writer agent for TLC. *)
EXTENDS WriterQueue

CONSTANTS s1, s2

Two == {s1, s2}
===============================================================================
