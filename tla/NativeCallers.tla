--------------------------- MODULE NativeCallers ---------------------------
(***************************************************************************)
(* The constants of NativeFilesystem and what is assumed of them, in a     *)
(* module of their own because the module that instantiates                *)
(* NativeFilesystem for TLC has its own names for everything else.  A file *)
(* that a call makes has the call's name for its inode number; the files   *)
(* of others have numbers.                                                 *)
(***************************************************************************)
EXTENDS Naturals

CONSTANTS Callers,      \* calls, one process each
          Pids,         \* their process ids, which name their temporary files
          Missing,
          MaxOthers,    \* bound: changes by others
          MaxFaults     \* bound: system calls that report an error

ASSUME CallersAssumption == /\ Callers \cap Nat = {}
                            /\ Missing \notin Callers \cup Nat
                            /\ Missing \notin Pids

ASSUME BoundsAssumption == MaxOthers \in Nat /\ MaxFaults \in Nat
=============================================================================
