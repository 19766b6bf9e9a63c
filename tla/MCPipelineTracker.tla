------------------------- MODULE MCPipelineTracker -------------------------
(* Instances of PipelineTracker for TLC: one execution with enough events   *)
(* for nested and repeated stages, or two whose events interleave.          *)
EXTENDS PipelineTracker

CONSTANTS e1, e2, s1, s2
=============================================================================
