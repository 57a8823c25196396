------------------------------- MODULE MCMesh -------------------------------
(* Instances of Mesh for TLC. *)
EXTENDS Mesh, TLC

CONSTANTS self, pa, pb

Found == { [key |-> k, dist |-> d] : k \in {"a", "b", "c", "d"}, d \in 1..4 }
Hit(k, d) == [key |-> k, dist |-> d]

\* Boosted sources come first, one key has two distances, a search may come from a
\* cache, and the node itself may have no index yet.
Lists ==
    (self :> { <<>>, <<Hit("a", 2), Hit("b", 1)>> })
        @@ (pa :> { <<Hit("b", 1), Hit("c", 3)>>, <<Hit("c", 4), Hit("a", 1)>> })
        @@ (pb :> { <<Hit("a", 1), Hit("d", 1), Hit("c", 2)>> })

\* A calm machine, one that plays, one that compiles, a busy one, one short of memory;
\* a Java program that draws nothing and one that does.
Measured ==
    { [cpu |-> 5, gpu |-> 0, ram |-> 8000, procs |-> {"bash", "xwayland"}],
      [cpu |-> 5, gpu |-> 10, ram |-> 8000, procs |-> {"steam"}],
      [cpu |-> 5, gpu |-> 0, ram |-> 8000, procs |-> {"make"}],
      [cpu |-> 90, gpu |-> 0, ram |-> 8000, procs |-> {"bash"}],
      [cpu |-> 5, gpu |-> 0, ram |-> 3000, procs |-> {"bash"}],
      [cpu |-> 5, gpu |-> 10, ram |-> 8000, procs |-> {"java"}],
      [cpu |-> 5, gpu |-> 60, ram |-> 8000, procs |-> {"java"}] }
=============================================================================
