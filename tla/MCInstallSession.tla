-------------------------- MODULE MCInstallSession --------------------------
(***************************************************************************)
(* Two launches and two executions of two operations: a retry in one       *)
(* window, beside a service it gave up on or after one that ended, or an   *)
(* execution in each window, the first one's service still at work.        *)
(***************************************************************************)
EXTENDS InstallSession, TLC

(* The third execution is explored as a retry in a window that was opened  *)
(* after another one's installation, each having changed the disk.         *)
ThirdIsALaterRetry ==
  \A a \in Attempts : a > 2 /\ phase[a] # "absent" =>
    /\ exit[1] = 0 /\ phase[2] \in Ended /\ abandoned = {}
    /\ owner[1] # owner[2] /\ owner[2] = owner[a]
    /\ {1, 2} \subseteq changed
=============================================================================
