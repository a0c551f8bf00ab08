----------------------------- MODULE MCService -----------------------------
(***************************************************************************)
(* Instances of Service for TLC.                                           *)
(***************************************************************************)
EXTENDS Service

\* Each step needs the one before it.
Chain == [s \in Steps |-> IF s = 1 THEN {} ELSE {s - 1}]

\* Two parallel steps and a third that joins them.
Join == [s \in Steps |-> IF s = 3 THEN {1, 2} ELSE {}]

\* No step needs another.  With Chain for References, a step that runs beside
\* another one interpolates its output, which NewWorkflow does not forbid.
Apart == [s \in Steps |-> {}]

\* No two workers are told apart by a safety property.
WorkerSymmetry == Permutations(Workers)

\* FinishJob: "An empty owner matches an unclaimed job" (store.go).  The job
\* that a failing request fails has not been claimed, let alone ended.
OutcomeIsFinal ==
  [][\A j \in Jobs : Terminal(j) => UNCHANGED <<status[j], jobError[j]>>]_vars

=============================================================================
