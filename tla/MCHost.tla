------------------------------- MODULE MCHost -------------------------------
(***************************************************************************)
(* What a backup reads of its machine: block snapshots on Linux, shadow    *)
(* copies on Windows, the disks that pins stand for.  Each behaviour       *)
(* follows one of the three (part; the others stay in an initial state).   *)
(*                                                                         *)
(* On Linux, two runs of one process and one of another, where the first   *)
(* needs both devices the others use; on Windows, two runs that share a    *)
(* volume, and a process that starts beside them; three disks of which one *)
(* has no stable id.                                                       *)
(***************************************************************************)
EXTENDS LinuxSnapshot, ShadowCopies, DiskPins

CONSTANTS r1, r2, r3, p1, p2, d1, d2, x, y, z, s0, s1, s2

VARIABLE part

MCProcessOf == (r1 :> p1) @@ (r2 :> p1) @@ (r3 :> p2)
MCPaths == (r1 :> <<d1, d2, d1>>) @@ (r2 :> <<d1>>) @@ (r3 :> <<d2>>)
MCNeedFiles == (r1 :> TRUE) @@ (r2 :> FALSE) @@ (r3 :> TRUE)
MCVolumes == (r1 :> <<d1, d2, d1>>) @@ (r2 :> <<d1>>)
MCSelection == <<s0, s1, z>>

MCInit ==
  /\ part \in {"linux", "windows", "pins"}
  /\ Init /\ ShadowInit
  /\ PinsInit /\ (part # "pins" => placed = [d \in Disks |-> None])

MCNext ==
  /\ UNCHANGED part
  /\ \/ part = "linux" /\ Next /\ UNCHANGED <<shadowVars, pinVars>>
     \/ part = "windows" /\ ShadowNext /\ UNCHANGED <<vars, pinVars>>
     \/ part = "pins" /\ PinsNext /\ UNCHANGED <<vars, shadowVars>>

MCSpec == MCInit /\ [][MCNext]_<<part, vars, shadowVars, pinVars>>
==============================================================================
