------------------------------- MODULE MCPipe --------------------------------
(* A pipe smaller than the payload.                                        *)
EXTENDS Pipe
=============================================================================
