---------------------------- MODULE MCThreadPool ----------------------------
(***************************************************************************)
(* Instances of ThreadPool for TLC.  The .cfg files give the constants.    *)
(***************************************************************************)
EXTENDS ThreadPool
=============================================================================
