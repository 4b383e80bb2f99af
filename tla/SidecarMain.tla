---------------------------- MODULE SidecarMain -----------------------------
(***************************************************************************)
(* Start-up and shutdown of the storage-backend sidecar                    *)
(* (src/cmd/storage-backend-sidecar/main.go).                               *)
(*                                                                         *)
(* main makes signalChan with room for one signal and closes it when it    *)
(* returns (defer).  It starts runController (directly, or from leader     *)
(* election once this replica leads), registers signalChan for SIGINT and  *)
(* SIGTERM, and waits for one signal.  runController sends SIGINT on the   *)
(* same channel when it cannot start: AddToScheme failed, or               *)
(* ensureCRDExist gave up after BackoffSteps attempts.  Otherwise it runs  *)
(* until WaitExitSignal sees a termination signal.  The OS delivers a      *)
(* signal to a registered channel with a non-blocking send, dropped when   *)
(* the buffer is full; before any registration it kills the process.      *)
(* When main returns the process exits and no goroutine takes a step.      *)
(***************************************************************************)
EXTENDS Naturals, Sequences

CONSTANTS
  BackoffSteps,        \* wait.Backoff.Steps of ensureCRDExist
  LeaderElection,      \* app.GetGlobalConfig().EnableLeaderElection
  MaxSignals           \* bound: termination signals the OS sends

ASSUME BackoffSteps \in Nat \ {0}
ASSUME LeaderElection \in BOOLEAN
ASSUME MaxSignals \in Nat

Capacity == 1          \* make(chan os.Signal, 1)

VARIABLES
  mainPc,       \* "start", "spawned", "waiting", "received", "closed", "exited"
  ctrlPc,       \* "none", "waitLeader", "scheme", "crd", "sendFail", "running", "done"
  attempts,     \* ensureCRDExist: calls of exist() made so far
  signalChan,   \* signals buffered in signalChan
  chanClosed,   \* close(signalChan) has run
  notified,     \* signal.Notify(signalChan, ...) has run
  signals,      \* termination signals the OS has sent
  panicked      \* a send on the closed signalChan

vars == <<mainPc, ctrlPc, attempts, signalChan, chanClosed, notified,
          signals, panicked>>

Alive == mainPc # "exited" /\ ~panicked

SidecarTypeOK ==
  /\ mainPc \in {"start", "spawned", "waiting", "received", "closed", "exited"}
  /\ ctrlPc \in {"none", "waitLeader", "scheme", "crd", "sendFail", "running", "done"}
  /\ attempts \in 0..BackoffSteps
  /\ signalChan \in Seq({"SIGINT", "SIGTERM"})
  /\ chanClosed \in BOOLEAN
  /\ notified \in BOOLEAN
  /\ signals \in 0..MaxSignals
  /\ panicked \in BOOLEAN

Init ==
  /\ mainPc = "start"
  /\ ctrlPc = "none"
  /\ attempts = 0
  /\ signalChan = << >>
  /\ chanClosed = FALSE
  /\ notified = FALSE
  /\ signals = 0
  /\ panicked = FALSE

(* main up to the goroutine: command, logging, Kubernetes clients and the  *)
(* DR provider either fail (main returns before the channel exists) or     *)
(* succeed; then signalChan is made and runController is started, through  *)
(* leader election when it is enabled.                                      *)
MainStart ==
  /\ mainPc = "start"
  /\ \/ mainPc' = "exited" /\ UNCHANGED ctrlPc
     \/ /\ mainPc' = "spawned"
        /\ ctrlPc' = IF LeaderElection THEN "waitLeader" ELSE "scheme"
  /\ UNCHANGED <<attempts, signalChan, chanClosed, notified, signals, panicked>>

MainNotify ==
  /\ mainPc = "spawned"
  /\ mainPc' = "waiting"
  /\ notified' = TRUE
  /\ UNCHANGED <<ctrlPc, attempts, signalChan, chanClosed, signals, panicked>>

(* stopSignal := <-signalChan                                               *)
MainReceive ==
  /\ mainPc = "waiting"
  /\ signalChan # << >>
  /\ signalChan' = Tail(signalChan)
  /\ mainPc' = "received"
  /\ UNCHANGED <<ctrlPc, attempts, chanClosed, notified, signals, panicked>>

(* main returns: the deferred close(signalChan) runs, then the process     *)
(* exits.                                                                   *)
MainClose ==
  /\ mainPc = "received"
  /\ mainPc' = "closed"
  /\ chanClosed' = TRUE
  /\ UNCHANGED <<ctrlPc, attempts, signalChan, notified, signals, panicked>>

MainExit ==
  /\ mainPc = "closed"
  /\ mainPc' = "exited"
  /\ UNCHANGED <<ctrlPc, attempts, signalChan, chanClosed, notified, signals, panicked>>

(* RunWithLeaderElection calls runController once this replica leads.     *)
BecomeLeader ==
  /\ ctrlPc = "waitLeader"
  /\ ctrlPc' = "scheme"
  /\ UNCHANGED <<mainPc, attempts, signalChan, chanClosed, notified, signals, panicked>>

(* runController: ch is never nil here; AddToScheme fails or succeeds.     *)
AddToScheme ==
  /\ ctrlPc = "scheme"
  /\ \E ok \in BOOLEAN : ctrlPc' = IF ok THEN "crd" ELSE "sendFail"
  /\ UNCHANGED <<mainPc, attempts, signalChan, chanClosed, notified, signals, panicked>>

(* Mutant: the retry loop stops one call after Steps instead of at it.     *)
EnsureCRDExistOffByOne ==
  /\ ctrlPc = "crd"
  /\ attempts' = attempts + 1
  /\ \/ ctrlPc' = "running"
     \/ ctrlPc' = IF attempts' > BackoffSteps THEN "sendFail" ELSE "crd"
  /\ UNCHANGED <<mainPc, signalChan, chanClosed, notified, signals, panicked>>

(* ensureCRDExist: one call of exist() (ListContent); a failure is         *)
(* retried until BackoffSteps calls have been made.                        *)
EnsureCRDExist ==
  /\ ctrlPc = "crd"
  /\ attempts' = attempts + 1
  /\ \/ ctrlPc' = "running"
     \/ ctrlPc' = IF attempts' = BackoffSteps THEN "sendFail" ELSE "crd"
  /\ UNCHANGED <<mainPc, signalChan, chanClosed, notified, signals, panicked>>

(* Mutant: the failure path returns without ch <- syscall.SIGINT.         *)
SendFailDropsSignal ==
  /\ ctrlPc = "sendFail"
  /\ ctrlPc' = "done"
  /\ UNCHANGED <<mainPc, attempts, signalChan, chanClosed, notified, signals, panicked>>

(* ch <- syscall.SIGINT: blocks while the buffer is full; on a closed      *)
(* channel it panics.                                                       *)
SendFail ==
  /\ ctrlPc = "sendFail"
  /\ \/ /\ chanClosed
        /\ panicked' = TRUE
        /\ UNCHANGED signalChan
     \/ /\ ~chanClosed /\ Len(signalChan) < Capacity
        /\ signalChan' = Append(signalChan, "SIGINT")
        /\ UNCHANGED panicked
  /\ ctrlPc' = "done"
  /\ UNCHANGED <<mainPc, attempts, chanClosed, notified, signals>>

(* The OS sends SIGTERM: before signal.Notify the default action kills the *)
(* process; afterwards signal delivery sends to signalChan without         *)
(* blocking (and panics if it is closed), and WaitExitSignal stops a       *)
(* running controller.                                                      *)
OsSignal ==
  /\ signals < MaxSignals
  /\ signals' = signals + 1
  /\ \/ /\ ~notified
        /\ mainPc' = "exited"
        /\ UNCHANGED <<signalChan, panicked, ctrlPc>>
     \/ /\ notified /\ chanClosed
        /\ panicked' = TRUE
        /\ UNCHANGED <<mainPc, signalChan, ctrlPc>>
     \/ /\ notified /\ ~chanClosed
        /\ signalChan' = IF Len(signalChan) < Capacity
                         THEN Append(signalChan, "SIGTERM") ELSE signalChan
        /\ ctrlPc' = IF ctrlPc = "running" THEN "done" ELSE ctrlPc
        /\ UNCHANGED <<mainPc, panicked>>
  /\ UNCHANGED <<attempts, chanClosed, notified>>

MainStep == MainStart \/ MainNotify \/ MainReceive \/ MainClose \/ MainExit
CtrlStep == AddToScheme \/ EnsureCRDExist \/ SendFail

(* Once the process is gone nothing moves.                                  *)
Terminated == ~Alive /\ UNCHANGED vars

Next ==
  \/ Alive /\ (MainStep \/ BecomeLeader \/ CtrlStep \/ OsSignal)
  \/ Terminated

(* Goroutines are scheduled fairly; leadership and OS signals are not      *)
(* guaranteed to come.                                                      *)
Spec ==
  /\ Init /\ [][Next]_vars
  /\ WF_vars(Alive /\ MainStep)
  /\ WF_vars(Alive /\ CtrlStep)

-----------------------------------------------------------------------------
(* When runController cannot start (AddToScheme or ensureCRDExist failed), *)
(* the sidecar process exits: its SIGINT always reaches main's receive.    *)
FailureStopsProcess == (ctrlPc = "sendFail") ~> (mainPc = "exited" \/ panicked)

(* No goroutine sends on signalChan after main's deferred close.           *)
NoSendOnClosedChannel == ~panicked
=============================================================================
