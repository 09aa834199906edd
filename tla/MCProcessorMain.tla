--------------------------- MODULE MCProcessorMain ---------------------------
(***************************************************************************)
(* Small instances of ProcessorMain for TLC: every topic of three messages. *)
(***************************************************************************)
EXTENDS ProcessorMain

MCTopics == [1 .. 3 -> Kinds]
=============================================================================
