-------------------------- MODULE MCDurableRuntime --------------------------
EXTENDS DurableRuntime, TLC
CONSTANTS t1, t2, m1, m2, h1, h2
Symmetry == Permutations(Tasks) \cup Permutations(Messages) \cup Permutations(Handlers)

\* Bound: behaviours are not followed past the first fault while the Manager knows both tasks,
\* unless it has given up saving.
OneKnown ==
  faults > 0 /\ ~unsaved =>
    \A t, u \in Tasks : loop[t] # "absent" /\ loop[u] # "absent" => t = u
=============================================================================
