---------------------------- MODULE MCArtifactStore ----------------------------
(* Small instances of ArtifactStore for TLC.                               *)
EXTENDS ArtifactStore

CONSTANT daemon

\* The result documents come after the bodies they name.
Numbered == [s \in Scans |-> 10 + s]
================================================================================
