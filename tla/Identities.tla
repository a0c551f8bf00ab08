----------------------------- MODULE Identities -----------------------------
(***************************************************************************)
(* Who and what the rows of PostgreSQL and the keys of Redis name.         *)
(***************************************************************************)
EXTENDS FiniteSets

CONSTANTS
  Jobs,     \* the job IDs that NewID can produce
  Workers,  \* the worker IDs; a restarted process runs under a fresh one
  None      \* no worker or no job: an absent hash field, a NULL, an empty string

\* The jobs of a sweep are counted, and an absent owner is nobody's ID.
ASSUME IdentityAssumption ==
  /\ None \notin Workers \cup Jobs
  /\ IsFiniteSet(Jobs)

=============================================================================
