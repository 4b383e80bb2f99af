---------------------------- MODULE MCSanSession ----------------------------
(***************************************************************************)
(* Model-checking instances of SanSession: up to three backends and four  *)
(* operation threads.  The cfg picks the topology (a lone backend, a       *)
(* HyperMetro pair bonded both ways, or both), the threads' home backends  *)
(* and whether UpdateBackendCapabilities runs.                              *)
(***************************************************************************)
EXTENDS SanSession, TLC

CONSTANTS pA, pB, pC, t1, t2, t3, t4

(* Topologies: no metro remote, or a HyperMetro pair bonded both ways.     *)
NoMetro   == [p \in Plugins |-> NoPlugin]
MetroPair == (pA :> pB) @@ (pB :> pA)
(* pA alone, and pB and pC a HyperMetro pair: both topologies side by side. *)
LoneAndPair == (pA :> NoPlugin) @@ (pB :> pC) @@ (pC :> pB)

(* Home backends: every operation is sent to pA.                          *)
AllOnA   == [t \in Threads |-> pA]
(* t4 is sent to pB of the pair, every other thread to the lone pA.        *)
T4OnPair == [t \in Threads |-> IF t = t4 THEN pB ELSE pA]

(* The session of pA seen through the abstract reference-counted session. *)
Abs == INSTANCE RefCountSession WITH
         Clients <- Threads,
         holders <- {t \in Threads : pA \in holds[t]},
         loggedIn <- (session[pA] = "in")

(* pA's session implements a reference-counted session: every step of      *)
(* getClient / releaseClient is an acquire, a release or invisible.        *)
AbsSpec == Abs!Spec

(* The threads of one backend are interchangeable.                         *)
ThreadSymmetry == Permutations(Threads)
LoneThreadSymmetry == Permutations({t \in Threads : Home[t] = pA})
=============================================================================
