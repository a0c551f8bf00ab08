------------------------------- MODULE MCNode -------------------------------
(***************************************************************************)
(* Configurations for Node, at a word of 256 ticks and 4 ticks to the      *)
(* millisecond.                                                            *)
(***************************************************************************)
EXTENDS Node

\* A worker TTL of four heartbeats, which just tolerates one failure; the default is
\* twelve.
Plain == [enabled |-> TRUE, urls |-> TRUE, tokens |-> TRUE, retries |-> 0, workers |-> 0,
          lease |-> 0, heartbeat |-> 0, reaper |-> 0, ttl |-> 8, sweeps |-> TRUE]

\* What Load and buildAgents refuse.
Refused ==
  {[Plain EXCEPT !.urls = FALSE], [Plain EXCEPT !.tokens = FALSE], [Plain EXCEPT !.retries = -1]}

\* Short, inconsistent and overflowing durations: 32 milliseconds are a negative
\* duration, 65 are one, and four leases of 9 are a negative one again.  The
\* node that reads them runs no workers.
Durations ==
  {[Plain EXCEPT !.enabled = FALSE, !.lease = l, !.heartbeat = h, !.ttl = t, !.reaper = r] :
     l \in {-1, 0, 1, 6, 9, 32, 65}, h \in {0, 1, 5, 9, 32}, t \in {0, 32}, r \in {0, 32}}

\* A worker_ttl_ms of one heartbeat and a half, which Load accepts and which takes
\* the row of a worker whose heartbeat is slow, on a node that leaves the sweeps to
\* a dedicated reaper process.
ShortTTL == [Plain EXCEPT !.ttl = 3, !.sweeps = FALSE]

MCConfigs == {Plain, ShortTTL} \cup Refused \cup Durations

=============================================================================
