------------------------ MODULE MCPermissionApprover ------------------------
(* Small instances of PermissionApprover for TLC. *)
EXTENDS PermissionApprover, TLC

CONSTANTS a1, workspace, repo1, repo2

OneAsk == {a1}
TwoRepos == {repo1, repo2}

\* The feed of the workspace is created first, in the same sync() as that of a repository.
WorkspaceAndRepo == {workspace, repo2}

\* An ask of a session in the workspace, or in the repository.
InWorkspace == [a \in Asks |-> workspace]
InRepository == [a \in Asks |-> repo2]

\* resolveRepoId matches the session's directory to a repository; or nothing does.
ToRepository == [a \in Asks |-> repo2]
ToNone == [a \in Asks |-> NoDir]
=============================================================================
