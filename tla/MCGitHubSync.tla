---------------------------- MODULE MCGitHubSync ----------------------------
(* A small instance of GitHubSync. *)
EXTENDS GitHubSync

CONSTANTS f1, f2, d1, i1, p1, s1
=============================================================================
