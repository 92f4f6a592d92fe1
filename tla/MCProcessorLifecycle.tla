------------------------ MODULE MCProcessorLifecycle ------------------------
(***************************************************************************)
(* Small instances of the processor's life cycle for TLC.                  *)
(***************************************************************************)
EXTENDS ProcessorLifecycle

CONSTANTS c1, c2, d1, d2, x1, x2, e1, e2
=============================================================================
