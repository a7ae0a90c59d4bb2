------------------------- MODULE MCFilterChainBuilder -------------------------
(***************************************************************************)
(* Instances of FilterChainBuilder for TLC: threads that each add names of *)
(* their own, and threads that add any name.                               *)
(***************************************************************************)
EXTENDS FilterChainBuilder, TLC

\* Any thread may add a filter under any name.
AnyThread == [n \in Names |-> Mutators]

\* One thread for each name.
OneThreadEach == CHOOSE f \in [Names -> SUBSET Mutators] :
                    /\ \A n \in Names : \E m \in Mutators : f[n] = {m}
                    /\ \A m \in Mutators : \E n \in Names : f[n] = {m}
=============================================================================
