--------------------------- MODULE MCForwardBuffer ---------------------------
(***************************************************************************)
(* ForwardBuffer, instantiated for TLC.                                    *)
(***************************************************************************)
EXTENDS ForwardBuffer
=============================================================================
