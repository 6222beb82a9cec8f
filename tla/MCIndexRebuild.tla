----------------------------- MODULE MCIndexRebuild -----------------------------
(* A small instance of IndexRebuild for TLC, beside the one in MCStorage.   *)
EXTENDS IndexRebuild
================================================================================
