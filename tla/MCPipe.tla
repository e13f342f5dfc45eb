------------------------------- MODULE MCPipe -------------------------------
(* Small instances of Pipe: two environments.                     *)
EXTENDS Pipe
CONSTANTS A, B
=============================================================================
