----------------------- MODULE MCPipelineReservation ------------------------
(* Small instances of PipelineReservation for TLC. *)
EXTENDS PipelineReservation, TLC

Symmetry == Permutations(Jobs) \cup Permutations(Workers)
=============================================================================
