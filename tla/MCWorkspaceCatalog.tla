--------------------------- MODULE MCWorkspaceCatalog ---------------------------
(* Small instances of WorkspaceCatalog for TLC. *)
EXTENDS WorkspaceCatalog, TLC

AllOperations == {"connections", "workspaces", "discover", "generate"}

\* Operations that make no job.
Creations == {"connections", "workspaces"}

Symmetry == Permutations(Request) \cup Permutations(Payload)

=============================================================================
