-------------------------- MODULE SshSessionClaims --------------------------
(***************************************************************************)
(* What a comment of the repository says of the front door and the code    *)
(* does not do, checked by a run that expects a violation; README.md tells *)
(* what the counterexample shows.                                          *)
(***************************************************************************)
EXTENDS SshSession

\* ssh_server.js:231 "A silent catch so a rejection isn't 'unhandled' if the
\* client never sends a shell request at all": no attempt takes the process,
\* and every other session with it, down.
ProcessSurvives == \A c \in Conns : pc[c] # "dead"

=============================================================================
