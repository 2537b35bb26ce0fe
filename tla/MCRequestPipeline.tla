------------------------- MODULE MCRequestPipeline -------------------------
(* Small instances of RequestPipeline for TLC.                             *)
EXTENDS RequestPipeline

CONSTANTS none, h1, h2, c1, c2

============================================================================
