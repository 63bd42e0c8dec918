--------------------------- MODULE InstallSession ---------------------------
(***************************************************************************)
(* A live session over time: installer windows opened and closed (one at a *)
(* time, lyra-install-lock), each able to start the privileged service     *)
(* through execute_plan (src-tauri/src/main.rs), which forwards its events *)
(* and judges how it ended; the services themselves, which outlive their   *)
(* window, or a call that gave up on them, until the next line they write; *)
(* the disk they change and the evidence file the frontend leaves.  A      *)
(* service is the InstallTransaction that ExecutionEngine implements, with *)
(* the lines it writes added.                                              *)
(***************************************************************************)
EXTENDS Integers, FiniteSets

CONSTANTS
  Windows,      \* launches of the installer in one live session, in their order
  NoWindow,
  Executions,   \* bound on the executions started in the session
  Steps         \* number of operations, each of which may change the disk

ASSUME SessionAssumption ==
  /\ Windows \subseteq Nat
  /\ NoWindow \notin Windows
  /\ Executions \in Nat
  /\ Steps \in Nat \ {0}

Attempts == 1..Executions

VARIABLES
  lock,        \* the window holding lyra-installer.lock
  app,         \* app[w]: "absent", "refused", "running", "gone"
  seen,        \* seen[w]: the disk as discovered when w opened
  calls,       \* attempts whose execute_plan reads what their service writes
  ui,          \* ui[w]: "idle", "installing", "retry", "failed", "completed"
  owner,       \* owner[a]: the window that started attempt a
  phase,       \* phase[a]: where the service of attempt a is
  snapshot,    \* snapshot[a]: the disk as that service discovered it
  step,        \* step[a]: operations it completed
  begun,       \* begun[a]: operations it entered
  reported,    \* reported[a]: its terminal event, "none" before
  exit,        \* exit[a]: its status, -1 while it runs
  disk,        \* how often the disk was changed
  samePlan,    \* changing the disk does not change the plan made for it
  evidence,    \* lyra-installer-result.json: attempt 0 before any
  changed,     \* history: attempts that changed the disk
  abandoned    \* history: services alive when execute_plan gave up on them

appVars == <<lock, app, seen>>
serviceVars == <<phase, snapshot, step, begun, reported, exit>>
callVars == <<ui, owner, calls, abandoned>>
diskVars == <<disk, samePlan, changed>>
vars == <<appVars, callVars, serviceVars, diskVars, evidence>>

Alive == {"preparing", "discovered", "between", "running", "changing", "unwinding", "exiting"}
Ended == {"exited", "dead"}

TypeOK ==
  /\ lock \in Windows \cup {NoWindow}
  /\ app \in [Windows -> {"absent", "refused", "running", "gone"}]
  /\ seen \in [Windows -> Nat] /\ calls \subseteq Attempts
  /\ ui \in [Windows -> {"idle", "installing", "retry", "failed", "completed"}]
  /\ owner \in [Attempts -> Windows \cup {NoWindow}]
  /\ phase \in [Attempts -> {"absent", "refused"} \cup Alive \cup Ended]
  /\ snapshot \in [Attempts -> Nat]
  /\ step \in [Attempts -> 0..Steps] /\ begun \in [Attempts -> 0..Steps]
  /\ reported \in [Attempts -> {"none", "failed", "completed"}]
  /\ exit \in [Attempts -> {-1, 0, 1, 101, 137}]
  /\ disk \in Nat /\ samePlan \in BOOLEAN
  /\ changed \subseteq Attempts /\ abandoned \subseteq Attempts
  /\ evidence \in [attempt : Attempts \cup {0}, passed : BOOLEAN]

Init ==
  /\ lock = NoWindow
  /\ app = [w \in Windows |-> "absent"]
  /\ seen = [w \in Windows |-> 0]
  /\ ui = [w \in Windows |-> "idle"]
  /\ owner = [a \in Attempts |-> NoWindow]
  /\ phase = [a \in Attempts |-> "absent"]
  /\ snapshot = [a \in Attempts |-> 0]
  /\ step = [a \in Attempts |-> 0] /\ begun = [a \in Attempts |-> 0]
  /\ reported = [a \in Attempts |-> "none"]
  /\ exit = [a \in Attempts |-> -1]
  /\ calls = {} /\ abandoned = {}
  /\ disk = 0 /\ samePlan \in BOOLEAN /\ changed = {}
  /\ evidence = [attempt |-> 0, passed |-> FALSE]

-----------------------------------------------------------------------------
(* The launches are numbered in the order in which they are made.          *)
IsNext(w) == app[w] = "absent" /\ \A v \in Windows : v < w => app[v] # "absent"

(* Slip: the launcher starts the installer without the lock wrapper.       *)
LaunchUnlocked(w) ==
  /\ IsNext(w)
  /\ lock' = w
  /\ app' = [app EXCEPT ![w] = "running"]
  /\ seen' = [seen EXCEPT ![w] = disk]
  /\ UNCHANGED <<callVars, serviceVars, diskVars, evidence>>

(* lyra-install-lock, then the window's one discover_storage.              *)
Launch(w) ==
  /\ IsNext(w)
  /\ \/ /\ lock = NoWindow
        /\ lock' = w
        /\ app' = [app EXCEPT ![w] = "running"]
        /\ seen' = [seen EXCEPT ![w] = disk]
     \/ /\ lock # NoWindow
        /\ app' = [app EXCEPT ![w] = "refused"]
        /\ UNCHANGED <<lock, seen>>
  /\ UNCHANGED <<callVars, serviceVars, diskVars, evidence>>

(* Nothing holds the window back while the service runs.  pkexec closes    *)
(* the descriptors it inherits, so the lock goes with the window.          *)
CloseWindow(w) ==
  /\ app[w] = "running"
  /\ app' = [app EXCEPT ![w] = "gone"]
  /\ lock' = NoWindow
  /\ calls' = {a \in calls : owner[a] # w}
  /\ UNCHANGED <<seen, ui, owner, abandoned, serviceVars, diskVars, evidence>>

(* The install button (its conditions are the Wizard's).  The trace file   *)
(* may not be writable, or pkexec not start: then there is no service; a   *)
(* refused authentication is a service killed while it prepares.           *)
StartExecution(w, a) ==
  /\ app[w] = "running" /\ ui[w] \in {"idle", "retry"}
  /\ phase[a] = "absent" /\ \A b \in Attempts : b < a => phase[b] # "absent"
  /\ owner' = [owner EXCEPT ![a] = w]
  /\ \/ /\ ui' = [ui EXCEPT ![w] = "installing"]
        /\ phase' = [phase EXCEPT ![a] = "preparing"]
        /\ calls' = calls \cup {a}
     \/ /\ ui' = [ui EXCEPT ![w] = "retry"]
        /\ phase' = [phase EXCEPT ![a] = "refused"]
        /\ UNCHANGED calls
  /\ UNCHANGED <<appVars, abandoned, snapshot, step, begun, reported, exit, diskVars, evidence>>

-----------------------------------------------------------------------------
(* The service.  Somebody reads what it writes as long as execute_plan is  *)
(* at it; otherwise its next line kills it.                                *)
Reader(a) == a \in calls

Dies(a, status) ==
  /\ phase' = [phase EXCEPT ![a] = "dead"]
  /\ exit' = [exit EXCEPT ![a] = status]

Discover(a) ==
  /\ phase[a] = "preparing"
  /\ snapshot' = [snapshot EXCEPT ![a] = disk]
  /\ phase' = [phase EXCEPT ![a] = "discovered"]
  /\ UNCHANGED <<appVars, callVars, step, begun, reported, exit, diskVars, evidence>>

(* Slips: no revalidation; one that looks for an untouched disk only.      *)
AgreesAlways(a) == TRUE

AgreesOnTouched(a) == (seen[owner[a]] = 0 <=> snapshot[a] = 0) \/ samePlan

Agrees(a) == seen[owner[a]] = snapshot[a] \/ samePlan

(* Started, then the revalidation (or an earlier check that rejects).      *)
Revalidate(a) ==
  /\ phase[a] \in {"preparing", "discovered"}
  /\ \/ /\ phase[a] = "discovered" /\ Reader(a) /\ Agrees(a)
        /\ phase' = [phase EXCEPT ![a] = "between"]
        /\ UNCHANGED <<reported, exit>>
     \/ /\ Reader(a)
        /\ reported' = [reported EXCEPT ![a] = "failed"]
        /\ phase' = [phase EXCEPT ![a] = "exited"]
        /\ exit' = [exit EXCEPT ![a] = 1]
     \/ /\ ~Reader(a) /\ Dies(a, 101)
        /\ UNCHANGED reported
  /\ UNCHANGED <<appVars, callVars, snapshot, step, begun, diskVars, evidence>>

(* Slip: the loop runs past the last operation.                            *)
BeginStepPastTheEnd(a) ==
  /\ phase[a] = "between" /\ Reader(a)
  /\ phase' = [phase EXCEPT ![a] = "running"]
  /\ begun' = [begun EXCEPT ![a] = @ + 1]
  /\ UNCHANGED <<appVars, callVars, snapshot, step, reported, exit, diskVars, evidence>>

BeginStep(a) ==
  /\ phase[a] = "between" /\ step[a] < Steps
  /\ \/ /\ Reader(a)
        /\ phase' = [phase EXCEPT ![a] = "running"]
        /\ begun' = [begun EXCEPT ![a] = @ + 1]
        /\ UNCHANGED exit
     \/ /\ ~Reader(a) /\ Dies(a, 101)
        /\ UNCHANGED begun
  /\ UNCHANGED <<appVars, callVars, snapshot, step, reported, diskVars, evidence>>

(* At some moment of an operation the disk becomes another one to whoever  *)
(* discovers it; an operation may also leave it as it is.                  *)
Change(a) ==
  /\ phase[a] = "running"
  /\ phase' = [phase EXCEPT ![a] = "changing"]
  /\ disk' = disk + 1 /\ changed' = changed \cup {a}
  /\ UNCHANGED <<appVars, callVars, snapshot, step, begun, reported, exit, samePlan, evidence>>

(* A successful operation writes no line: a window closed meanwhile is     *)
(* only noticed by the next one.                                           *)
EndStep(a) ==
  /\ phase[a] \in {"running", "changing"}
  /\ \/ /\ step' = [step EXCEPT ![a] = @ + 1]
        /\ phase' = [phase EXCEPT ![a] = "between"]
        /\ UNCHANGED <<reported, exit>>
     \/ /\ Reader(a)
        /\ reported' = [reported EXCEPT ![a] = "failed"]
        /\ phase' = [phase EXCEPT ![a] = "unwinding"]
        /\ UNCHANGED <<step, exit>>
     \/ /\ ~Reader(a) /\ Dies(a, 101)
        /\ UNCHANGED <<step, reported>>
  /\ UNCHANGED <<appVars, callVars, snapshot, begun, diskVars, evidence>>

(* Slip: the loop stops short of the last operation.                       *)
FinishStepsEarly(a) ==
  /\ phase[a] = "between"
  /\ phase' = [phase EXCEPT ![a] = "unwinding"]
  /\ UNCHANGED <<appVars, callVars, snapshot, step, begun, reported, exit, diskVars, evidence>>

FinishSteps(a) ==
  /\ phase[a] = "between" /\ step[a] = Steps
  /\ phase' = [phase EXCEPT ![a] = "unwinding"]
  /\ UNCHANGED <<appVars, callVars, snapshot, step, begun, reported, exit, diskVars, evidence>>

(* The unwind and the last line: Completed, or Failed for a cleanup that   *)
(* failed; the failure of an operation has already been reported.          *)
EndUnwind(a) ==
  /\ phase[a] = "unwinding"
  /\ \/ /\ reported[a] = "failed"
        /\ phase' = [phase EXCEPT ![a] = "exiting"]
        /\ UNCHANGED <<reported, exit>>
     \/ /\ reported[a] = "none" /\ Reader(a)
        /\ \E terminal \in {"failed", "completed"} :
             reported' = [reported EXCEPT ![a] = terminal]
        /\ phase' = [phase EXCEPT ![a] = "exiting"]
        /\ UNCHANGED exit
     \/ /\ ~Reader(a) /\ Dies(a, 101)
        /\ UNCHANGED reported
  /\ UNCHANGED <<appVars, callVars, snapshot, step, begun, diskVars, evidence>>

Exit(a) ==
  /\ phase[a] = "exiting"
  /\ phase' = [phase EXCEPT ![a] = "exited"]
  /\ exit' = [exit EXCEPT ![a] = IF reported[a] = "completed" THEN 0 ELSE 1]
  /\ UNCHANGED <<appVars, callVars, snapshot, step, begun, reported, diskVars, evidence>>

KillService(a) ==
  /\ phase[a] \in Alive
  /\ Dies(a, 137)
  /\ UNCHANGED <<appVars, callVars, snapshot, step, begun, reported, diskVars, evidence>>

-----------------------------------------------------------------------------
(* Slip: the evidence judges by the events alone.                          *)
PassedByEvents(a) == reported[a] = "completed"

Passed(a) == exit[a] = 0 /\ reported[a] = "completed"

(* execute_plan rejects a failure without a Failed event and a success     *)
(* without Completed; otherwise the window judges by the events alone.     *)
Verdict(a) ==
  IF reported[a] = (IF exit[a] = 0 THEN "completed" ELSE "failed")
  THEN reported[a] ELSE "retry"

(* execute_plan gives its window a verdict and closes the stream.          *)
Returns(w, a, verdict) ==
  /\ a \in calls /\ owner[a] = w
  /\ calls' = calls \ {a}
  /\ ui' = [ui EXCEPT ![w] = verdict]
  /\ UNCHANGED <<appVars, owner, serviceVars, diskVars>>

(* Slips: the frontend waits for a terminal event only; it waits for one,  *)
(* but not for the service to end.                                         *)
ReturnOnceReported(w, a) ==
  /\ phase[a] \in Ended /\ reported[a] # "none"
  /\ evidence' = [attempt |-> a, passed |-> Passed(a)]
  /\ Returns(w, a, Verdict(a)) /\ UNCHANGED abandoned

ReturnAtTheEvent(w, a) ==
  /\ phase[a] \in Ended \/ reported[a] # "none"
  /\ evidence' = [attempt |-> a, passed |-> Passed(a)]
  /\ Returns(w, a, Verdict(a)) /\ UNCHANGED abandoned

(* The stream ended and the child was waited for.  Writing the evidence    *)
(* may fail without changing the verdict.                                  *)
ServiceReturns(w, a) ==
  /\ phase[a] \in Ended
  /\ evidence' \in {evidence, [attempt |-> a, passed |-> Passed(a)]}
  /\ Returns(w, a, Verdict(a)) /\ UNCHANGED abandoned

(* The request could not be written to the service, or a line not be read  *)
(* or understood: execute_plan returns at once, without waiting for the    *)
(* child and without writing any evidence.                                 *)
GivesUp(w, a) ==
  /\ Returns(w, a, "retry")
  /\ abandoned' = abandoned \cup ({a} \cap {b \in Attempts : phase[b] \in Alive})
  /\ UNCHANGED evidence

-----------------------------------------------------------------------------
ServiceStep(a) ==
  Discover(a) \/ Revalidate(a) \/ BeginStep(a) \/ Change(a) \/ EndStep(a) \/ FinishSteps(a)
  \/ EndUnwind(a) \/ Exit(a)

Next ==
  \/ \E w \in Windows : Launch(w) \/ CloseWindow(w)
  \/ \E w \in Windows, a \in Attempts :
       StartExecution(w, a) \/ ServiceReturns(w, a) \/ GivesUp(w, a)
  \/ \E a \in Attempts : ServiceStep(a) \/ KillService(a)

Spec == Init /\ [][Next]_vars

(* A service that can go on, or the frontend's blocking task whose service *)
(* has ended, is scheduled some time; users may leave everything as it is. *)
FairSpec ==
  /\ Spec
  /\ WF_vars(\E a \in Attempts : ServiceStep(a))
  /\ WF_vars(\E w \in Windows, a \in Attempts : ServiceReturns(w, a))

-----------------------------------------------------------------------------
Working == {a \in Attempts : phase[a] \in Alive}

(* However windows come and go, at most one service that is alive is read  *)
(* by somebody: the others end at their next line.  An open window offers  *)
(* a retry, or shows a result, beside a service of its own that is still   *)
(* alive only when execute_plan gave up on that service.                   *)
OneAttendedService ==
  /\ \A a, b \in Working : Reader(a) /\ Reader(b) => a = b
  /\ \A a \in Working : app[owner[a]] = "running" =>
       ui[owner[a]] = "installing" \/ a \in abandoned

(* The release evidence never vouches for a run that did not complete, and *)
(* a window that reports success has a service that exited 0.              *)
EvidenceIsTruthful ==
  /\ evidence.passed => LET a == evidence.attempt IN
       step[a] = Steps /\ reported[a] = "completed" /\ exit[a] = 0
  /\ \A w \in Windows : ui[w] = "completed" =>
       \E a \in Attempts : owner[a] = w /\ exit[a] = 0 /\ step[a] = Steps

(* Once a window's attempt changed the disk, no later attempt of the same  *)
(* window enters an operation unless the disk still yields the very plan   *)
(* it had been shown.  The exception is an attempt execute_plan gave up    *)
(* on: it may still change the disk after the later one has looked.        *)
StaleRetryNeverWrites ==
  \A a, b \in Attempts :
    (a < b /\ owner[a] = owner[b] /\ a \in changed \ abandoned /\ begun[b] > 0) => samePlan

(* An execution always gives an open window its verdict.                   *)
VerdictsArrive ==
  \A w \in Windows : (ui[w] = "installing") ~> (ui[w] # "installing" \/ app[w] = "gone")

(* src-tauri/src/main.rs: losing the window must not interrupt an          *)
(* installation that has already crossed the destructive boundary.         *)
LosingTheWindowIsHarmless == \A a \in changed : exit[a] # 101

(* docs/installer-state-machine.md: a failure after the first write is     *)
(* terminal.                                                               *)
LateFailureIsTerminal ==
  \A w \in Windows : ui[w] = "retry" => \A a \in changed : owner[a] # w

-----------------------------------------------------------------------------
(* Each service is a transaction as ExecutionEngine implements it; its     *)
(* mounts are left to that module.                                         *)
TransactionPhase(a) ==
  IF phase[a] \in {"absent", "refused", "preparing", "discovered"} THEN "preparing"
  ELSE IF phase[a] \in {"between", "running", "changing"} THEN "working"
  ELSE IF phase[a] \in {"unwinding", "exiting"} THEN "releasing"
  ELSE "ended"

TransactionResult(a) ==
  IF exit[a] = -1 THEN "none"
  ELSE IF exit[a] = 0 THEN "completed"
  ELSE IF exit[a] = 1 THEN "failed"
  ELSE "crashed"

Service(a) == INSTANCE InstallTransaction WITH
  Resources <- {}, phase <- TransactionPhase(a), progress <- step[a], held <- {},
  result <- TransactionResult(a)

(* Whatever happens to windows and to the other services, each service     *)
(* keeps what an installation transaction promises: nothing before the     *)
(* revalidation, no operation once the unwind began, success only after    *)
(* every operation, and nothing after its end.                             *)
ServicesAreTransactions ==
  /\ \A a \in Attempts : Service(a)!TransactionInit
  /\ [][\A a \in Attempts : [Service(a)!TransactionNext]_(Service(a)!transactionVars)]_vars
=============================================================================
