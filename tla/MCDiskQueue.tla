---------------------------- MODULE MCDiskQueue ----------------------------
(***************************************************************************)
(* Model-checking instance of DiskQueue.                                   *)
(*                                                                         *)
(* Records are 4 or 5 bytes and segments roll once a position exceeds 4   *)
(* bytes, so a segment holds one 5-byte record or a 4-byte record followed *)
(* by any other: both the "roll on the record itself" and the "roll on the *)
(* second record" paths of writeOne/readOne occur, and three messages      *)
(* span up to three segments.  syncEvery = 2 makes the periodic sync fire  *)
(* between the other syncs.                                                *)
(***************************************************************************)
EXTENDS DiskQueue

MCMaxBytesPerFile == 4
MCSyncEvery == 2
MCDataLens == {0, 1}
MCMaxPuts == 3
=============================================================================
