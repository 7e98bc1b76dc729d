---------------------------- MODULE MCThreadPool ----------------------------
(* Small instances of ThreadPool for TLC.  Workers and descriptors are     *)
(* model values.  No symmetry: it is unsound for the liveness properties.  *)
EXTENDS ThreadPool
=============================================================================
