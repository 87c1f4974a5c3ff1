----------------------------- MODULE MCPipeline -----------------------------
(***************************************************************************)
(* Pipeline on its own: one training step of two microbatches in a pipeline*)
(* of two stages.                                                          *)
(***************************************************************************)
EXTENDS Pipeline
=============================================================================
