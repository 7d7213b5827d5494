------------------------------ MODULE MCTdbLog ------------------------------
(***************************************************************************)
(* Instances of TdbLog for TLC.  Ids are naturals because compaction sorts *)
(* records by id.                                                          *)
(***************************************************************************)
EXTENDS TdbLog

MCIds == {1, 2}
=============================================================================
