----------------------- MODULE MCInstallerTransaction -----------------------
(* Requests for the instances of the installer transaction.                *)
EXTENDS InstallerTransaction

CONSTANTS b1, b2, rulesA, rulesB

Request(op, b, v, r) == [op |-> op, binding |-> b, release |-> v, rules |-> r]

\* One binding, no recovery: contexts grow stale while others mutate.
MutationRequests ==
  {Request("install", b1, 1, Absent), Request("update", b1, 2, Absent),
   Request("uninstall", b1, 1, Absent)}

\* One binding, an editor at work.
EditorRequests ==
  {Request("install", b1, 1, Absent), Request("uninstall", b1, 1, Absent),
   Request("rollback", b1, 1, Absent)}

\* Two bindings of one root, with rules to write and to carry over.
SharedRequests ==
  {Request("install", b1, 1, rulesA), Request("update", b1, 1, rulesB),
   Request("update", b1, 2, Absent), Request("uninstall", b1, 1, Absent),
   Request("rollback", b1, 1, Absent), Request("install", b2, 1, Absent)}

\* A mutation, a recovery, and another mutation.
RecoveryRequests ==
  {Request("install", b1, 1, Absent), Request("rollback", b1, 1, Absent)}
=============================================================================
