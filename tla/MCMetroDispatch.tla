--------------------------- MODULE MCMetroDispatch --------------------------
(***************************************************************************)
(* Model-checking instances of MetroDispatch: backend pA bonded with pB as *)
(* its metro remote, controller RPCs r1, r2 sent to pA, and optionally a   *)
(* getClient/releaseClient user t1 (of pA, or of a lone backend pC) and    *)
(* the capability refresh.                                                  *)
(***************************************************************************)
EXTENDS MetroDispatch, TLC

CONSTANTS pA, pB, pC, t1, r1, r2

MetroPair == (pA :> pB) @@ (pB :> pA)
AllOnA    == [t \in Threads |-> pA]
(* pA and pB bonded, and a lone backend pC that every session user works  *)
(* on: its logins and releases never touch the flags the RPCs read.        *)
PairAndLone == (pA :> pB) @@ (pB :> pA) @@ (pC :> NoPlugin)
AllOnC    == [t \in Threads |-> pC]
=============================================================================
