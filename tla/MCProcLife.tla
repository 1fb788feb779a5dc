----------------------------- MODULE MCProcLife -----------------------------
(* Small instances of ProcLife. *)
EXTENDS ProcLife

ZeroToo == 0 .. MaxPid
=============================================================================
