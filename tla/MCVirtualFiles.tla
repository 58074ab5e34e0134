--------------------------- MODULE MCVirtualFiles ---------------------------
(***************************************************************************)
(* Small instances of VirtualFiles for TLC.  The functions that place      *)
(* files in workspaces are fixed by the sets a configuration chooses.      *)
(***************************************************************************)
EXTENDS VirtualFiles, TLC

\* Every workspace covers every path (nested workspaces of one project).
MCCovers == [w \in Workspaces |-> Paths]

\* No file includes another.
MCNoIncluders == [p \in Paths |-> {}]

\* Every file is re-indexed with every other.
MCAllIncluders == [p \in Paths |-> Paths]

AllRequests == Kinds

\* Sources and workspaces are interchangeable.
Symmetry == Permutations(Sources) \cup Permutations(Workspaces)

PathSymmetry == Permutations(Paths) \cup Permutations(Sources) \cup Permutations(Workspaces)
=============================================================================
