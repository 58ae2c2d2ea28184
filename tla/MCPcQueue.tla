------------------------------ MODULE MCPcQueue ------------------------------
(* PcQueue on small instances: the constants are in the .cfg files.        *)
EXTENDS PcQueue
==============================================================================
