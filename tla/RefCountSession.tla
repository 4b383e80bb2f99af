-------------------------- MODULE RefCountSession ---------------------------
(***************************************************************************)
(* What a reference-counted array session promises (spec.md 4.2): holders  *)
(* come and go one at a time, acquiring logs the session in, and the       *)
(* session is logged out exactly when the last holder leaves.  A failed    *)
(* acquire changes nothing a holder can observe, so it is a stutter here.  *)
(***************************************************************************)
CONSTANT Clients            \* who may hold the session

VARIABLES
  holders,                  \* the clients currently holding the session
  loggedIn                  \* whether the array session is logged in

vars == <<holders, loggedIn>>

Init ==
  /\ holders = {}
  /\ loggedIn = TRUE        \* the plugin logged in at initialisation

Acquire(c) ==
  /\ c \notin holders
  /\ holders' = holders \cup {c}
  /\ loggedIn' = TRUE

Release(c) ==
  /\ c \in holders
  /\ holders' = holders \ {c}
  /\ loggedIn' = (holders' # {})

Next == \E c \in Clients : Acquire(c) \/ Release(c)

Spec == Init /\ [][Next]_vars

(* Nobody ever holds a logged-out session.                                 *)
HoldersLoggedIn == holders # {} => loggedIn
=============================================================================
