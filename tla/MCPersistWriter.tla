---------------------------- MODULE MCPersistWriter ----------------------------
(* Instances of the writer for TLC: files and threads are model values *)
EXTENDS PersistWriter
=================================================================================
