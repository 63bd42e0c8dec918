------------------------- MODULE InstallSessionProofs -------------------------
(***************************************************************************)
(* Proofs about InstallSession, for every number of windows, executions    *)
(* and operations.  The properties follow from an invariant in layers: the *)
(* types, with each service by itself (ServiceState); windows and the lock *)
(* (WindowState); which service is attended (AttendedState); who wrote to  *)
(* the disk and who saw it since (DiskState); retries and evidence.        *)
(***************************************************************************)
EXTENDS InstallSession, TLAPS

Unstarted == {"absent", "refused", "preparing", "discovered"}

(* What a service has done follows from where it is.                       *)
ServiceOK(a) ==
  /\ phase[a] \in Unstarted => step[a] = 0 /\ begun[a] = 0 /\ reported[a] = "none"
  /\ phase[a] \in {"between", "running", "changing"} => reported[a] = "none"
  /\ phase[a] = "between" => begun[a] = step[a]
  /\ phase[a] \in {"running", "changing"} => begun[a] = step[a] + 1
  /\ phase[a] = "unwinding" /\ reported[a] = "none" => step[a] = Steps
  /\ reported[a] = "completed" => step[a] = Steps
  /\ phase[a] \notin Ended => exit[a] = -1
  /\ exit[a] = 0 => phase[a] = "exited" /\ reported[a] = "completed"

ServiceState == \A a \in Attempts : ServiceOK(a)

(* The lock is held by the one window that runs; attempts are numbered as  *)
(* they are started, each from a window that had the lock.                 *)
WindowState ==
  /\ \A w \in Windows : app[w] = "running" <=> lock = w
  /\ \A a \in Attempts : phase[a] = "absent" <=> owner[a] = NoWindow
  /\ \A a \in Attempts : owner[a] # NoWindow => app[owner[a]] \in {"running", "gone"}
  /\ \A a, b \in Attempts : a < b /\ phase[b] # "absent" => phase[a] # "absent"

(* At most one execute_plan is at work, for an open window that shows the  *)
(* progress of it; a service of an open window that is alive is read by    *)
(* it, or was given up.                                                    *)
AttendedState ==
  /\ \A a \in calls : owner[a] # NoWindow /\ app[owner[a]] = "running"
                      /\ ui[owner[a]] = "installing"
  /\ \A a, b \in calls : a = b
  /\ \A a \in Attempts : phase[a] \in Alive /\ app[owner[a]] = "running"
       => a \in calls \cup abandoned

(* Disks only grow older: what a window or a service saw is not newer than *)
(* the disk, and a change is newer than what its own window saw.  A window *)
(* starts its next attempt when the last one has ended or was given up,    *)
(* so a later attempt discovers the changes of the earlier ones.           *)
DiskState ==
  /\ \A w \in Windows : seen[w] <= disk
  /\ \A a \in changed : phase[a] \notin Unstarted /\ seen[owner[a]] < disk
  /\ \A a, b \in Attempts :
       a < b /\ owner[a] = owner[b] /\ phase[b] # "absent" /\ phase[a] \in Alive
         => a \in abandoned
  /\ \A a, b \in Attempts :
       a < b /\ owner[a] = owner[b] /\ a \in changed \ abandoned /\ phase[b] = "discovered"
         => seen[owner[b]] < snapshot[b]

(* A later attempt of a window that wrote only gets to its operations if   *)
(* the plan is the same.                                                   *)
RetryState ==
  \A a, b \in Attempts :
    a < b /\ owner[a] = owner[b] /\ a \in changed \ abandoned
      /\ (begun[b] > 0 \/ phase[b] = "between") => samePlan

(* What is vouched for is an attempt.                                      *)
EvidenceState ==
  (evidence.passed => evidence.attempt \in Attempts) /\ EvidenceIsTruthful

-----------------------------------------------------------------------------
(* Types, with what each service did: begun never passes the last step.    *)
LEMMA ServiceInit == Init => TypeOK /\ ServiceState
<1> SUFFICES ASSUME Init PROVE TypeOK /\ ServiceState
  OBVIOUS
<1>1. 0 \in 0..Steps
  BY SessionAssumption
<1>2. TypeOK
  BY <1>1 DEF Init, TypeOK, Alive, Ended
<1>3. ServiceState
  BY DEF Init, ServiceState, ServiceOK, Unstarted, Ended
<1> QED BY <1>2, <1>3

(* Every step keeps the types.                                             *)
LEMMA TypeStep ==
  ASSUME TypeOK, ServiceState, [Next]_vars
  PROVE  TypeOK'
<1>1. ASSUME NEW w \in Windows, Launch(w)
      PROVE  TypeOK'
  <2>1. UNCHANGED <<ui, owner, phase, snapshot, step, begun, reported, exit,
        disk, samePlan, calls, changed, abandoned, evidence>>
    BY <1>1 DEF Launch, IsNext, callVars, serviceVars, diskVars
  <2>2. lock' \in Windows \cup {NoWindow}
    BY <1>1 DEF Launch, IsNext, TypeOK
  <2>3. app' \in [Windows -> {"absent", "refused", "running", "gone"}]
    BY <1>1 DEF Launch, IsNext, TypeOK
  <2>4. seen' \in [Windows -> Nat]
    BY <1>1 DEF Launch, IsNext, TypeOK
  <2> QED BY <2>1, <2>2, <2>3, <2>4 DEF TypeOK
<1>2. ASSUME NEW w \in Windows, CloseWindow(w)
      PROVE  TypeOK'
  <2>1. UNCHANGED <<seen, ui, owner, phase, snapshot, step, begun, reported,
        exit, disk, samePlan, changed, abandoned, evidence>>
    BY <1>2 DEF CloseWindow, callVars, serviceVars, diskVars
  <2>2. lock' \in Windows \cup {NoWindow}
    BY <1>2 DEF CloseWindow, TypeOK
  <2>3. app' \in [Windows -> {"absent", "refused", "running", "gone"}]
    BY <1>2 DEF CloseWindow, TypeOK
  <2>4. calls' \subseteq Attempts
    BY <1>2 DEF CloseWindow, TypeOK
  <2> QED BY <2>1, <2>2, <2>3, <2>4 DEF TypeOK
<1>3. ASSUME NEW w \in Windows, NEW a \in Attempts, StartExecution(w, a)
      PROVE  TypeOK'
  <2>1. UNCHANGED <<lock, app, seen, snapshot, step, begun, reported, exit,
        disk, samePlan, changed, abandoned, evidence>>
    BY <1>3 DEF StartExecution, appVars, serviceVars, diskVars
  <2>2. ui' \in [Windows -> {"idle", "installing", "retry", "failed", "completed"}]
    BY <1>3 DEF StartExecution, TypeOK
  <2>3. owner' \in [Attempts -> Windows \cup {NoWindow}]
    BY <1>3 DEF StartExecution, TypeOK
  <2>4. phase' \in [Attempts -> {"absent", "refused"} \cup Alive \cup Ended]
    BY <1>3 DEF StartExecution, TypeOK, Alive, Ended
  <2>5. calls' \subseteq Attempts
    BY <1>3 DEF StartExecution, TypeOK
  <2> QED BY <2>1, <2>2, <2>3, <2>4, <2>5 DEF TypeOK
<1>4. ASSUME NEW w \in Windows, NEW a \in Attempts, NEW verdict, Returns(w, a, verdict),
             verdict \in {"idle", "installing", "retry", "failed", "completed"},
             abandoned' \subseteq Attempts,
             evidence' \in [attempt : Attempts \cup {0}, passed : BOOLEAN]
      PROVE  TypeOK'
  <2>1. UNCHANGED <<lock, app, seen, owner, phase, snapshot, step, begun,
        reported, exit, disk, samePlan, changed>>
    BY <1>4 DEF Returns, appVars, serviceVars, diskVars
  <2>2. ui' \in [Windows -> {"idle", "installing", "retry", "failed", "completed"}]
    BY <1>4 DEF Returns, TypeOK
  <2>3. calls' \subseteq Attempts
    BY <1>4 DEF Returns, TypeOK
  <2> QED BY <1>4, <2>1, <2>2, <2>3 DEF TypeOK
<1>14. ASSUME NEW w \in Windows, NEW a \in Attempts, ServiceReturns(w, a)
       PROVE  TypeOK'
  <2>1. Verdict(a) \in {"idle", "installing", "retry", "failed", "completed"}
    BY DEF Verdict, TypeOK
  <2>2. Passed(a) \in BOOLEAN
    BY DEF Passed
  <2>3. evidence' \in [attempt : Attempts \cup {0}, passed : BOOLEAN]
    BY <1>14, <2>2 DEF ServiceReturns, TypeOK
  <2> QED BY <1>4, <1>14, <2>1, <2>3 DEF ServiceReturns, TypeOK
<1>15. ASSUME NEW w \in Windows, NEW a \in Attempts, GivesUp(w, a)
       PROVE  TypeOK'
  BY <1>4, <1>15 DEF GivesUp, TypeOK
<1>16. ASSUME NEW a \in Attempts, Change(a)
       PROVE  TypeOK'
  <2>1. UNCHANGED <<lock, app, seen, ui, owner, snapshot, step, begun, reported,
        exit, samePlan, calls, abandoned, evidence>>
    BY <1>16 DEF Change, appVars, callVars
  <2>2. phase' \in [Attempts -> {"absent", "refused"} \cup Alive \cup Ended]
    BY <1>16 DEF Change, TypeOK, Alive, Ended
  <2>3. disk' \in Nat /\ changed' \subseteq Attempts
    BY <1>16 DEF Change, TypeOK
  <2> QED BY <2>1, <2>2, <2>3 DEF TypeOK
<1>5. ASSUME NEW a \in Attempts, Discover(a)
      PROVE  TypeOK'
  <2>1. UNCHANGED <<lock, app, seen, ui, owner, step, begun, reported, exit,
        disk, samePlan, calls, changed, abandoned, evidence>>
    BY <1>5 DEF Discover, appVars, callVars, diskVars
  <2>2. phase' \in [Attempts -> {"absent", "refused"} \cup Alive \cup Ended]
    BY <1>5 DEF Discover, TypeOK, Alive, Ended
  <2>3. snapshot' \in [Attempts -> Nat]
    BY <1>5 DEF Discover, TypeOK
  <2> QED BY <2>1, <2>2, <2>3 DEF TypeOK
<1>6. ASSUME NEW a \in Attempts, Revalidate(a)
      PROVE  TypeOK'
  <2>1. UNCHANGED <<lock, app, seen, ui, owner, snapshot, step, begun, disk,
        samePlan, calls, changed, abandoned, evidence>>
    BY <1>6 DEF Revalidate, appVars, callVars, diskVars, Dies
  <2>2. phase' \in [Attempts -> {"absent", "refused"} \cup Alive \cup Ended]
    BY <1>6 DEF Revalidate, Dies, TypeOK, Alive, Ended
  <2>3. reported' \in [Attempts -> {"none", "failed", "completed"}]
    BY <1>6 DEF Revalidate, Dies, TypeOK
  <2>4. exit' \in [Attempts -> {-1, 0, 1, 101, 137}]
    BY <1>6 DEF Revalidate, Dies, TypeOK
  <2> QED BY <2>1, <2>2, <2>3, <2>4 DEF TypeOK
<1>7. ASSUME NEW a \in Attempts, BeginStep(a)
      PROVE  TypeOK'
  <2>1. UNCHANGED <<lock, app, seen, ui, owner, snapshot, step, reported,
        disk, samePlan, calls, changed, abandoned, evidence>>
    BY <1>7 DEF BeginStep, appVars, callVars, diskVars, Dies
  <2>2. phase' \in [Attempts -> {"absent", "refused"} \cup Alive \cup Ended]
    BY <1>7 DEF BeginStep, Dies, TypeOK, Alive, Ended
  <2>3. begun' \in [Attempts -> 0..Steps]
    <3>1. ServiceOK(a) /\ step[a] \in 0..Steps
      BY DEF ServiceState, TypeOK
    <3>2. begun[a] + 1 \in 0..Steps
      BY <1>7, <3>1, SessionAssumption DEF BeginStep, ServiceOK
    <3> QED BY <1>7, <3>2 DEF BeginStep, TypeOK
  <2>4. exit' \in [Attempts -> {-1, 0, 1, 101, 137}]
    BY <1>7 DEF BeginStep, Dies, TypeOK
  <2> QED BY <2>1, <2>2, <2>3, <2>4 DEF TypeOK
<1>8. ASSUME NEW a \in Attempts, EndStep(a)
      PROVE  TypeOK'
  <2>1. UNCHANGED <<lock, app, seen, ui, owner, snapshot, begun, disk,
        samePlan, calls, changed, abandoned, evidence>>
    BY <1>8 DEF EndStep, appVars, callVars, diskVars, Dies
  <2>2. phase' \in [Attempts -> {"absent", "refused"} \cup Alive \cup Ended]
    BY <1>8 DEF EndStep, Dies, TypeOK, Alive, Ended
  <2>3. step' \in [Attempts -> 0..Steps]
    <3>1. ServiceOK(a) /\ begun[a] \in 0..Steps /\ step[a] \in 0..Steps
      BY DEF ServiceState, TypeOK
    <3>2. step[a] + 1 \in 0..Steps
      BY <1>8, <3>1, SessionAssumption DEF EndStep, ServiceOK
    <3> QED BY <1>8, <3>2 DEF EndStep, TypeOK
  <2>4. reported' \in [Attempts -> {"none", "failed", "completed"}]
    BY <1>8 DEF EndStep, Dies, TypeOK
  <2>5. exit' \in [Attempts -> {-1, 0, 1, 101, 137}]
    BY <1>8 DEF EndStep, Dies, TypeOK
  <2> QED BY <2>1, <2>2, <2>3, <2>4, <2>5 DEF TypeOK
<1>9. ASSUME NEW a \in Attempts, FinishSteps(a)
      PROVE  TypeOK'
  <2>1. UNCHANGED <<lock, app, seen, ui, owner, snapshot, step, begun,
        reported, exit, disk, samePlan, calls, changed, abandoned, evidence>>
    BY <1>9 DEF FinishSteps, appVars, callVars, diskVars
  <2>2. phase' \in [Attempts -> {"absent", "refused"} \cup Alive \cup Ended]
    BY <1>9 DEF FinishSteps, TypeOK, Alive, Ended
  <2> QED BY <2>1, <2>2 DEF TypeOK
<1>10. ASSUME NEW a \in Attempts, EndUnwind(a)
      PROVE  TypeOK'
  <2>1. UNCHANGED <<lock, app, seen, ui, owner, snapshot, step, begun, disk,
        samePlan, calls, changed, abandoned, evidence>>
    BY <1>10 DEF EndUnwind, appVars, callVars, diskVars, Dies
  <2>2. phase' \in [Attempts -> {"absent", "refused"} \cup Alive \cup Ended]
    BY <1>10 DEF EndUnwind, Dies, TypeOK, Alive, Ended
  <2>3. reported' \in [Attempts -> {"none", "failed", "completed"}]
    BY <1>10 DEF EndUnwind, Dies, TypeOK
  <2>4. exit' \in [Attempts -> {-1, 0, 1, 101, 137}]
    BY <1>10 DEF EndUnwind, Dies, TypeOK
  <2> QED BY <2>1, <2>2, <2>3, <2>4 DEF TypeOK
<1>11. ASSUME NEW a \in Attempts, Exit(a)
      PROVE  TypeOK'
  <2>1. UNCHANGED <<lock, app, seen, ui, owner, snapshot, step, begun,
        reported, disk, samePlan, calls, changed, abandoned, evidence>>
    BY <1>11 DEF Exit, appVars, callVars, diskVars
  <2>2. phase' \in [Attempts -> {"absent", "refused"} \cup Alive \cup Ended]
    BY <1>11 DEF Exit, TypeOK, Alive, Ended
  <2>3. exit' \in [Attempts -> {-1, 0, 1, 101, 137}]
    BY <1>11 DEF Exit, TypeOK
  <2> QED BY <2>1, <2>2, <2>3 DEF TypeOK
<1>12. ASSUME NEW a \in Attempts, KillService(a)
      PROVE  TypeOK'
  <2>1. UNCHANGED <<lock, app, seen, ui, owner, snapshot, step, begun,
        reported, disk, samePlan, calls, changed, abandoned, evidence>>
    BY <1>12 DEF KillService, appVars, callVars, diskVars, Dies
  <2>2. phase' \in [Attempts -> {"absent", "refused"} \cup Alive \cup Ended]
    BY <1>12 DEF KillService, Dies, TypeOK, Alive, Ended
  <2>3. exit' \in [Attempts -> {-1, 0, 1, 101, 137}]
    BY <1>12 DEF KillService, Dies, TypeOK
  <2> QED BY <2>1, <2>2, <2>3 DEF TypeOK
<1>13. CASE UNCHANGED vars
  BY <1>13 DEF TypeOK, Alive, Ended, Attempts, vars, appVars, callVars,
    serviceVars, diskVars
<1> QED BY <1>1, <1>2, <1>3, <1>5, <1>6, <1>7, <1>8, <1>9, <1>10, <1>11,
      <1>12, <1>13, <1>14, <1>15, <1>16 DEF Next, ServiceStep

(* A service that moves was alive, and changes nothing of the others or of *)
(* the windows.                                                            *)
LEMMA ServiceMoves ==
  ASSUME TypeOK, NEW a \in Attempts, ServiceStep(a) \/ KillService(a)
  PROVE  /\ UNCHANGED <<lock, app, seen, ui, owner, calls, abandoned, samePlan, evidence>>
         /\ phase[a] \in Alive /\ phase'[a] \in Alive \cup Ended
         /\ \A b \in Attempts : phase'[b] = "absent" <=> phase[b] = "absent"
         /\ \A b \in Attempts : b # a =>
              /\ phase'[b] = phase[b] /\ snapshot'[b] = snapshot[b]
              /\ step'[b] = step[b] /\ begun'[b] = begun[b]
              /\ reported'[b] = reported[b] /\ exit'[b] = exit[b]
<1>1. CASE Discover(a)
  BY <1>1 DEF Discover, TypeOK, Alive, Ended, appVars, callVars, diskVars
<1>2. CASE Revalidate(a)
  BY <1>2 DEF Revalidate, Dies, TypeOK, Alive, Ended, appVars, callVars, diskVars
<1>3. CASE BeginStep(a)
  BY <1>3 DEF BeginStep, Dies, TypeOK, Alive, Ended, appVars, callVars, diskVars
<1>4. CASE EndStep(a)
  BY <1>4 DEF EndStep, Dies, TypeOK, Alive, Ended, appVars, callVars, diskVars
<1>5. CASE FinishSteps(a)
  BY <1>5 DEF FinishSteps, TypeOK, Alive, Ended, appVars, callVars, diskVars
<1>6. CASE EndUnwind(a)
  BY <1>6 DEF EndUnwind, Dies, TypeOK, Alive, Ended, appVars, callVars, diskVars
<1>7. CASE Exit(a)
  BY <1>7 DEF Exit, TypeOK, Alive, Ended, appVars, callVars, diskVars
<1>8. CASE KillService(a)
  BY <1>8 DEF KillService, Dies, TypeOK, Alive, Ended, appVars, callVars, diskVars
<1>9. CASE Change(a)
  BY <1>9 DEF Change, TypeOK, Alive, Ended, appVars, callVars
<1> QED BY <1>1, <1>2, <1>3, <1>4, <1>5, <1>6, <1>7, <1>8, <1>9 DEF ServiceStep

(* Every step keeps what a service did in line with where it is.           *)
LEMMA ServiceStateStep ==
  ASSUME TypeOK, ServiceState, [Next]_vars
  PROVE  ServiceState'
<1>1. ASSUME NEW a \in Attempts, ServiceStep(a) \/ KillService(a)
      PROVE  ServiceState'
  <2>1. ServiceOK(a)
    BY DEF ServiceState
  <2>2. CASE Discover(a)
    <3>1. ServiceOK(a)'
      BY <2>1, <2>2, SessionAssumption DEF TypeOK, ServiceOK, Unstarted, Alive,
        Ended, Discover
    <3> QED BY <3>1, <1>1, ServiceMoves DEF ServiceState, ServiceOK
  <2>3. CASE Revalidate(a)
    <3>1. ServiceOK(a)'
      BY <2>1, <2>3, SessionAssumption DEF TypeOK, ServiceOK, Unstarted, Alive,
        Ended, Revalidate, Dies
    <3> QED BY <3>1, <1>1, ServiceMoves DEF ServiceState, ServiceOK
  <2>4. CASE BeginStep(a)
    <3>1. ServiceOK(a)'
      BY <2>1, <2>4, SessionAssumption DEF TypeOK, ServiceOK, Unstarted, Alive,
        Ended, BeginStep, Dies
    <3> QED BY <3>1, <1>1, ServiceMoves DEF ServiceState, ServiceOK
  <2>5. CASE EndStep(a)
    <3>1. ServiceOK(a)'
      BY <2>1, <2>5, SessionAssumption DEF TypeOK, ServiceOK, Unstarted, Alive,
        Ended, EndStep, Dies
    <3> QED BY <3>1, <1>1, ServiceMoves DEF ServiceState, ServiceOK
  <2>6. CASE FinishSteps(a)
    <3>1. ServiceOK(a)'
      BY <2>1, <2>6, SessionAssumption DEF TypeOK, ServiceOK, Unstarted, Alive,
        Ended, FinishSteps
    <3> QED BY <3>1, <1>1, ServiceMoves DEF ServiceState, ServiceOK
  <2>7. CASE EndUnwind(a)
    <3>1. ServiceOK(a)'
      BY <2>1, <2>7, SessionAssumption DEF TypeOK, ServiceOK, Unstarted, Alive,
        Ended, EndUnwind, Dies
    <3> QED BY <3>1, <1>1, ServiceMoves DEF ServiceState, ServiceOK
  <2>8. CASE Exit(a)
    <3>1. ServiceOK(a)'
      BY <2>1, <2>8, SessionAssumption DEF TypeOK, ServiceOK, Unstarted, Alive,
        Ended, Exit
    <3> QED BY <3>1, <1>1, ServiceMoves DEF ServiceState, ServiceOK
  <2>9. CASE KillService(a)
    <3>1. ServiceOK(a)'
      BY <2>1, <2>9, SessionAssumption DEF TypeOK, ServiceOK, Unstarted, Alive,
        Ended, KillService, Dies
    <3> QED BY <3>1, <1>1, ServiceMoves DEF ServiceState, ServiceOK
  <2>10. CASE Change(a)
    <3>1. ServiceOK(a)'
      BY <2>1, <2>10, SessionAssumption DEF TypeOK, ServiceOK, Unstarted, Alive,
        Ended, Change
    <3> QED BY <3>1, <1>1, ServiceMoves DEF ServiceState, ServiceOK
  <2> QED BY <1>1, <2>2, <2>3, <2>4, <2>5, <2>6, <2>7, <2>8, <2>9, <2>10 DEF
        ServiceStep
<1>2. ASSUME NEW w \in Windows, NEW a \in Attempts, StartExecution(w, a)
      PROVE  ServiceState'
  BY <1>2 DEF ServiceState, ServiceOK, StartExecution, TypeOK, Unstarted, Ended, Alive
<1>3. CASE UNCHANGED serviceVars
  BY <1>3 DEF ServiceState, ServiceOK, serviceVars
<1> QED
  BY <1>1, <1>2, <1>3
  DEF Next, Launch, CloseWindow, ServiceReturns, GivesUp, Returns, vars

(* Every step keeps windows, lock and numbering in line.                   *)
LEMMA WindowStep ==
  ASSUME TypeOK, WindowState, [Next]_vars
  PROVE  WindowState'
<1>1. ASSUME NEW a \in Attempts, ServiceStep(a) \/ KillService(a)
      PROVE  WindowState'
  BY <1>1, ServiceMoves DEF WindowState
<1>2. ASSUME NEW w \in Windows, Launch(w)
      PROVE  WindowState'
  <2>1. UNCHANGED <<owner, phase>>
    BY <1>2 DEF Launch, IsNext, callVars, serviceVars
  <2>2. \A v \in Windows : app'[v] = "running" <=> lock' = v
    BY <1>2, SessionAssumption DEF Launch, IsNext, WindowState, TypeOK
  <2>3. \A a \in Attempts : owner[a] # NoWindow => app'[owner[a]] \in {"running", "gone"}
    BY <1>2 DEF Launch, IsNext, WindowState, TypeOK
  <2> QED BY <2>1, <2>2, <2>3 DEF WindowState
<1>3. ASSUME NEW w \in Windows, CloseWindow(w)
      PROVE  WindowState'
  <2>1. UNCHANGED <<owner, phase>>
    BY <1>3 DEF CloseWindow, serviceVars
  <2>2. \A v \in Windows : app'[v] = "running" <=> lock' = v
    BY <1>3, SessionAssumption DEF CloseWindow, WindowState, TypeOK
  <2>3. \A a \in Attempts : owner[a] # NoWindow => app'[owner[a]] \in {"running", "gone"}
    BY <1>3 DEF CloseWindow, WindowState, TypeOK
  <2> QED BY <2>1, <2>2, <2>3 DEF WindowState
<1>4. ASSUME NEW w \in Windows, NEW a \in Attempts, StartExecution(w, a)
      PROVE  WindowState'
  <2>1. UNCHANGED <<app, lock>>
    BY <1>4 DEF StartExecution, appVars
  <2>2. /\ owner' = [owner EXCEPT ![a] = w]
        /\ \A b \in Attempts : b # a => phase'[b] = phase[b]
        /\ phase'[a] # "absent" /\ app[w] = "running"
        /\ \A b \in Attempts : b < a => phase[b] # "absent"
        /\ phase[a] = "absent"
    BY <1>4 DEF StartExecution, TypeOK
  <2>3. \A b, c \in Attempts : b < c /\ phase'[c] # "absent" => phase'[b] # "absent"
    BY <2>2 DEF WindowState, Attempts
  <2>4. \A b \in Attempts : phase'[b] = "absent" <=> owner'[b] = NoWindow
    BY <2>2, SessionAssumption DEF WindowState, TypeOK
  <2>5. \A b \in Attempts : owner'[b] # NoWindow => app[owner'[b]] \in {"running", "gone"}
    BY <2>2 DEF WindowState, TypeOK
  <2> QED BY <2>1, <2>3, <2>4, <2>5 DEF WindowState
<1>5. CASE UNCHANGED <<lock, app, owner, phase>>
  BY <1>5 DEF WindowState
<1> QED
  BY <1>1, <1>2, <1>3, <1>4, <1>5
  DEF Next, ServiceReturns, GivesUp, Returns, vars, appVars, callVars, serviceVars

(* No step leaves two services read, or one that nobody gave up unread     *)
(* beside its open window.                                                 *)
LEMMA AttendedStep ==
  ASSUME TypeOK, WindowState, AttendedState, [Next]_vars
  PROVE  AttendedState'
<1>0. /\ \A a \in Attempts :
           phase[a] \in Alive \/ a \in calls => owner[a] \in Windows /\ phase[a] # "absent"
      /\ calls \subseteq Attempts
  BY DEF WindowState, AttendedState, TypeOK, Alive
<1>1. ASSUME NEW a \in Attempts, ServiceStep(a) \/ KillService(a)
      PROVE  AttendedState'
  <2>1. \A b \in Attempts : phase'[b] \in Alive => phase[b] \in Alive
    BY <1>1, ServiceMoves
  <2> QED BY <1>1, <2>1, ServiceMoves DEF AttendedState
<1>2. ASSUME NEW w \in Windows, Launch(w)
      PROVE  AttendedState'
  <2>1. /\ UNCHANGED <<owner, phase, ui, calls, abandoned>>
        /\ app[w] = "absent" /\ \A v \in Windows : v # w => app'[v] = app[v]
    BY <1>2 DEF Launch, IsNext, callVars, serviceVars, TypeOK
  <2>2. \A a \in Attempts : owner[a] \in Windows => owner[a] # w
    BY <2>1, SessionAssumption DEF WindowState
  <2>3. \A a \in Attempts : owner[a] \in Windows => app'[owner[a]] = app[owner[a]]
    BY <2>1, <2>2
  <2> QED BY <1>0, <2>1, <2>3 DEF AttendedState
<1>3. ASSUME NEW w \in Windows, CloseWindow(w)
      PROVE  AttendedState'
  <2>1. /\ UNCHANGED <<owner, phase, ui, abandoned>>
        /\ app'[w] = "gone" /\ \A v \in Windows : v # w => app'[v] = app[v]
        /\ calls' = {a \in calls : owner[a] # w}
    BY <1>3 DEF CloseWindow, serviceVars, TypeOK
  <2> QED BY <1>0, <2>1 DEF AttendedState
<1>4. ASSUME NEW w \in Windows, NEW a \in Attempts, StartExecution(w, a)
      PROVE  AttendedState'
  <2>1. /\ UNCHANGED <<app, abandoned>>
        /\ owner' = [owner EXCEPT ![a] = w]
        /\ \A b \in Attempts : b # a => phase'[b] = phase[b]
        /\ \/ /\ phase'[a] = "preparing" /\ ui'[w] = "installing"
              /\ calls' = calls \cup {a}
           \/ phase'[a] = "refused" /\ calls' = calls
        /\ app[w] = "running" /\ ui[w] # "installing"
    BY <1>4 DEF StartExecution, appVars, TypeOK
  <2>2. calls = {}
    <3> SUFFICES ASSUME NEW b \in calls PROVE FALSE
      OBVIOUS
    <3>1. owner[b] = w
      BY <1>0, <2>1 DEF AttendedState, WindowState
    <3> QED BY <2>1, <3>1 DEF AttendedState
  <2>3. owner'[a] = w /\ w # NoWindow /\ \A b \in Attempts : b # a => owner'[b] = owner[b]
    BY <2>1, SessionAssumption DEF TypeOK
  <2>4. \A b \in calls' : b = a /\ ui'[w] = "installing"
    BY <2>1, <2>2
  <2>5. \A b \in Attempts : phase'[b] \in Alive /\ app'[owner'[b]] = "running"
          => b \in calls' \cup abandoned'
    <3>1. ASSUME NEW b \in Attempts, phase'[b] \in Alive, app'[owner'[b]] = "running", b # a
          PROVE  b \in calls' \cup abandoned'
      BY <2>1, <2>3, <3>1 DEF AttendedState
    <3>2. phase'[a] \in Alive => a \in calls'
      BY <2>1 DEF Alive
    <3> QED BY <3>1, <3>2
  <2> QED BY <2>1, <2>3, <2>4, <2>5 DEF AttendedState
<1>5. ASSUME NEW w \in Windows, NEW a \in Attempts, NEW verdict, Returns(w, a, verdict),
             \A b \in Attempts : phase[b] \in Alive => b # a \/ a \in abandoned',
             abandoned \subseteq abandoned'
      PROVE  AttendedState'
  <2>1. /\ UNCHANGED <<app, owner, phase>>
        /\ calls' = {} /\ calls = {a}
    BY <1>5 DEF Returns, appVars, serviceVars, AttendedState
  <2> QED BY <1>5, <2>1 DEF AttendedState
<1>6. ASSUME NEW w \in Windows, NEW a \in Attempts, ServiceReturns(w, a)
      PROVE  AttendedState'
  <2>1. \A b \in Attempts : phase[b] \in Alive => b # a
    BY <1>6 DEF ServiceReturns, Alive, Ended
  <2> QED BY <1>5, <1>6, <2>1 DEF ServiceReturns
<1>7. ASSUME NEW w \in Windows, NEW a \in Attempts, GivesUp(w, a)
      PROVE  AttendedState'
  BY <1>5, <1>7 DEF GivesUp
<1>8. CASE UNCHANGED vars
  BY <1>8 DEF AttendedState, vars, appVars, callVars, serviceVars
<1> QED BY <1>1, <1>2, <1>3, <1>4, <1>6, <1>7, <1>8 DEF Next

(* What an attempt has done by itself, and that it was started.            *)
LEMMA BegunStarted ==
  ASSUME TypeOK, ServiceState, WindowState
  PROVE  \A a \in Attempts :
           /\ begun[a] > 0 => phase[a] # "absent"
           /\ phase[a] \in Unstarted => begun[a] = 0
           /\ phase[a] \in {"running", "changing"} => begun[a] > 0
           /\ phase[a] # "absent" => owner[a] \in Windows
  BY DEF TypeOK, ServiceState, ServiceOK, WindowState, Unstarted

(* No step makes a disk younger, or leaves a change that the next attempt  *)
(* of its window would not discover.                                       *)
LEMMA DiskStep ==
  ASSUME TypeOK, ServiceState, WindowState, AttendedState, DiskState, [Next]_vars
  PROVE  DiskState'
<1>0. /\ changed \subseteq Attempts /\ disk \in Nat
      /\ \A w \in Windows : seen[w] \in Nat
      /\ \A a \in changed : owner[a] \in Windows /\ phase[a] # "absent"
  BY BegunStarted DEF DiskState, TypeOK, Unstarted
<1>1. ASSUME NEW a \in Attempts, Change(a)
      PROVE  DiskState'
  <2>1. /\ UNCHANGED <<seen, owner, snapshot, abandoned>>
        /\ \A b \in Attempts : b # a => phase'[b] = phase[b]
        /\ phase[a] = "running" /\ phase'[a] = "changing"
        /\ disk' = disk + 1 /\ changed' = changed \cup {a}
    BY <1>1 DEF Change, appVars, callVars, TypeOK
  <2>2. \A w \in Windows : seen'[w] < disk'
    BY <1>0, <2>1 DEF DiskState
  <2>3. \A b \in changed' : phase'[b] \notin Unstarted /\ seen'[owner'[b]] < disk'
    BY <1>0, <2>1, <2>2, BegunStarted DEF DiskState, Unstarted
  <2>4. \A b \in Attempts : /\ phase'[b] # "absent" => phase[b] # "absent"
                            /\ phase'[b] \in Alive => phase[b] \in Alive
                            /\ phase'[b] = "discovered" => phase[b] = "discovered" /\ b # a
    BY <2>1 DEF Alive
  <2>5. \A b, c \in Attempts :
          b < c /\ owner'[b] = owner'[c] /\ b \in changed' \ abandoned' /\ phase'[c] = "discovered"
            => seen'[owner'[c]] < snapshot'[c]
    <3> SUFFICES ASSUME NEW b \in Attempts, NEW c \in Attempts, b < c, owner[b] = owner[c],
                        b \in changed' \ abandoned, phase[c] = "discovered"
                 PROVE  seen[owner[c]] < snapshot[c]
      BY <2>1, <2>4
    <3>1. b # a
      BY <2>1 DEF DiskState, Alive
    <3> QED BY <2>1, <3>1 DEF DiskState
  <2> QED BY <1>0, <2>1, <2>2, <2>3, <2>4, <2>5 DEF DiskState
<1>2. ASSUME NEW a \in Attempts, Discover(a)
      PROVE  DiskState'
  <2>1. /\ UNCHANGED <<seen, owner, disk, changed, abandoned>>
        /\ \A b \in Attempts : b # a => phase'[b] = phase[b] /\ snapshot'[b] = snapshot[b]
        /\ phase[a] = "preparing" /\ phase'[a] = "discovered" /\ snapshot'[a] = disk
    BY <1>2 DEF Discover, appVars, callVars, diskVars, TypeOK
  <2>2. \A b \in changed : b # a /\ phase'[b] \notin Unstarted
    BY <2>1, <1>0 DEF DiskState, Unstarted
  <2>3. \A b \in Attempts : /\ phase'[b] # "absent" => phase[b] # "absent"
                            /\ phase'[b] \in Alive => phase[b] \in Alive
    BY <2>1 DEF Alive
  <2>4. \A b, c \in Attempts :
          b < c /\ owner'[b] = owner'[c] /\ b \in changed' \ abandoned' /\ phase'[c] = "discovered"
            => seen'[owner'[c]] < snapshot'[c]
    BY <2>1 DEF DiskState
  <2> QED BY <2>1, <2>2, <2>3, <2>4 DEF DiskState
<1>3. ASSUME NEW a \in Attempts, ServiceStep(a) \/ KillService(a), ~Change(a), ~Discover(a)
      PROVE  DiskState'
  <2>1. /\ UNCHANGED <<disk, changed, snapshot>>
        /\ phase'[a] # "discovered"
        /\ phase'[a] \in Unstarted => phase[a] \in Unstarted
    BY <1>3
    DEF ServiceStep, Revalidate, BeginStep, EndStep, FinishSteps, EndUnwind, Exit, KillService,
        Dies, diskVars, TypeOK, Unstarted
  <2>2. /\ UNCHANGED <<seen, owner, abandoned>>
        /\ phase[a] \in Alive /\ phase[a] # "absent"
        /\ \A b \in Attempts : b # a => phase'[b] = phase[b]
    BY <1>3, ServiceMoves DEF Alive
  <2>3. \A b \in changed : phase'[b] \notin Unstarted
    BY <1>0, <2>1, <2>2 DEF DiskState
  <2> QED BY <2>1, <2>2, <2>3 DEF DiskState
<1>4. ASSUME NEW w \in Windows, Launch(w)
      PROVE  DiskState'
  <2>1. /\ UNCHANGED <<owner, phase, snapshot, disk, changed, abandoned>>
        /\ \A v \in Windows : seen'[v] = seen[v] \/ (v = w /\ seen'[v] = disk)
        /\ app[w] = "absent"
    BY <1>4 DEF Launch, IsNext, callVars, serviceVars, diskVars, TypeOK
  <2>2. \A a \in Attempts : owner[a] # w
    BY <2>1, SessionAssumption DEF WindowState
  <2>3. \A a \in Attempts : phase[a] # "absent" => seen'[owner[a]] = seen[owner[a]]
    BY <2>1, <2>2, BegunStarted
  <2>4. \A v \in Windows : seen'[v] <= disk'
    BY <1>0, <2>1 DEF DiskState
  <2> QED BY <1>0, <2>1, <2>3, <2>4 DEF DiskState
<1>5. ASSUME NEW w \in Windows, NEW a \in Attempts, StartExecution(w, a)
      PROVE  DiskState'
  <2>1. /\ UNCHANGED <<seen, snapshot, disk, changed, abandoned>>
        /\ owner' = [owner EXCEPT ![a] = w]
        /\ \A b \in Attempts : b # a => phase'[b] = phase[b] /\ owner'[b] = owner[b]
        /\ owner'[a] = w
        /\ phase'[a] \in {"preparing", "refused"} /\ phase[a] = "absent"
        /\ app[w] = "running" /\ ui[w] # "installing"
    BY <1>5 DEF StartExecution, appVars, diskVars, TypeOK
  <2>2. a \notin changed
    BY <1>0, <2>1
  <2>3. \A b \in Attempts : phase[b] \in Alive /\ owner[b] = w => b \in abandoned
    BY <2>1 DEF AttendedState
  <2>4. \A b \in Attempts : a < b => phase'[b] = "absent"
    BY <2>1 DEF WindowState, Attempts
  <2>5. \A b \in changed : b # a /\ b \in Attempts
    BY <1>0, <2>2
  <2>6. \A b, c \in Attempts :
          b < c /\ owner'[b] = owner'[c] /\ phase'[c] # "absent" /\ phase'[b] \in Alive
            => b \in abandoned'
    <3> SUFFICES ASSUME NEW b \in Attempts, NEW c \in Attempts, b < c, owner'[b] = owner'[c],
                        phase'[c] # "absent", phase'[b] \in Alive
                 PROVE  b \in abandoned
      BY <2>1
    <3>1. b # a
      BY <2>4
    <3>2. CASE c = a
      BY <2>1, <2>3, <3>1, <3>2
    <3>3. CASE c # a
      BY <2>1, <3>1, <3>3 DEF DiskState
    <3> QED BY <3>2, <3>3
  <2>7. \A b \in changed' : phase'[b] \notin Unstarted /\ seen'[owner'[b]] < disk'
    BY <2>1, <2>5 DEF DiskState
  <2>8. \A b, c \in Attempts :
          b < c /\ owner'[b] = owner'[c] /\ b \in changed' \ abandoned' /\ phase'[c] = "discovered"
            => seen'[owner'[c]] < snapshot'[c]
    <3> SUFFICES ASSUME NEW b \in Attempts, NEW c \in Attempts, b < c, owner'[b] = owner'[c],
                        b \in changed \ abandoned, phase'[c] = "discovered"
                 PROVE  seen[owner'[c]] < snapshot[c]
      BY <2>1
    <3>1. b # a /\ c # a
      BY <2>1, <2>5
    <3> QED BY <2>1, <3>1 DEF DiskState
  <2> QED BY <2>1, <2>6, <2>7, <2>8 DEF DiskState
<1>6. CASE UNCHANGED <<seen, owner, phase, snapshot, disk, changed>> /\ abandoned \subseteq abandoned'
  BY <1>6 DEF DiskState
<1> QED
  BY <1>1, <1>2, <1>3, <1>4, <1>5, <1>6
  DEF Next, CloseWindow, ServiceReturns, GivesUp, Returns, vars, appVars, callVars, serviceVars,
      diskVars

(* The revalidation stops a retry on a disk that its window wrote.         *)
LEMMA RetryStep ==
  ASSUME TypeOK, ServiceState, WindowState, AttendedState, DiskState, RetryState, [Next]_vars
  PROVE  RetryState'
<1>1. ASSUME NEW a \in Attempts, Revalidate(a)
      PROVE  RetryState'
  <2>1. /\ UNCHANGED <<owner, begun, samePlan, changed, abandoned>>
        /\ \A b \in Attempts : b # a => phase'[b] = phase[b]
        /\ begun[a] = 0
        /\ phase'[a] = "between" => Agrees(a) /\ phase[a] = "discovered"
    BY <1>1, BegunStarted DEF Revalidate, Dies, callVars, diskVars, TypeOK, Unstarted
  <2>2. ASSUME NEW b \in Attempts, b < a, owner[b] = owner[a], b \in changed \ abandoned,
               phase'[a] = "between"
        PROVE  samePlan
    <3>1. seen[owner[a]] < snapshot[a] /\ Agrees(a)
      BY <2>1, <2>2 DEF DiskState
    <3>2. seen[owner[a]] \in Nat /\ snapshot[a] \in Nat
      BY <2>1, <2>2, BegunStarted DEF TypeOK
    <3> QED BY <3>1, <3>2 DEF Agrees
  <2> QED BY <2>1, <2>2 DEF RetryState
<1>2. ASSUME NEW a \in Attempts, BeginStep(a)
      PROVE  RetryState'
  <2>1. /\ UNCHANGED <<owner, samePlan, changed, abandoned>>
        /\ \A b \in Attempts : b # a => phase'[b] = phase[b] /\ begun'[b] = begun[b]
        /\ phase[a] = "between" /\ phase'[a] # "between"
    BY <1>2 DEF BeginStep, Dies, callVars, diskVars, TypeOK
  <2> QED BY <2>1 DEF RetryState
<1>3. ASSUME NEW a \in Attempts, EndStep(a)
      PROVE  RetryState'
  <2>1. /\ UNCHANGED <<owner, samePlan, begun, changed, abandoned>>
        /\ \A b \in Attempts : b # a => phase'[b] = phase[b]
        /\ begun[a] > 0
    BY <1>3, BegunStarted DEF EndStep, Dies, callVars, diskVars, TypeOK
  <2> QED BY <2>1 DEF RetryState
<1>4. ASSUME NEW a \in Attempts, Change(a)
      PROVE  RetryState'
  <2>1. /\ UNCHANGED <<owner, samePlan, begun, abandoned>>
        /\ \A b \in Attempts : b # a => phase'[b] = phase[b]
        /\ phase[a] = "running" /\ phase'[a] = "changing"
        /\ changed' = changed \cup {a}
    BY <1>4 DEF Change, callVars, TypeOK
  <2>2. ASSUME NEW b \in Attempts, a < b, owner[a] = owner[b],
               begun[b] > 0 \/ phase[b] = "between"
        PROVE  a \in abandoned
    <3>1. phase[b] # "absent" /\ phase[a] \in Alive
      BY <2>1, <2>2, BegunStarted DEF Alive
    <3> QED BY <2>2, <3>1 DEF DiskState
  <2>3. \A b \in Attempts : phase'[b] = "between" => phase[b] = "between"
    BY <2>1
  <2> QED BY <2>1, <2>2, <2>3 DEF RetryState
<1>5. ASSUME NEW a \in Attempts,
             Discover(a) \/ FinishSteps(a) \/ EndUnwind(a) \/ Exit(a) \/ KillService(a)
      PROVE  RetryState'
  <2>1. /\ UNCHANGED <<owner, samePlan, begun, changed, abandoned>>
        /\ \A b \in Attempts : b # a => phase'[b] = phase[b]
        /\ phase'[a] # "between"
    BY <1>5 DEF Discover, FinishSteps, EndUnwind, Exit, KillService, Dies, callVars, diskVars,
                TypeOK
  <2> QED BY <2>1 DEF RetryState
<1>6. ASSUME NEW w \in Windows, NEW a \in Attempts, StartExecution(w, a)
      PROVE  RetryState'
  <2>1. /\ UNCHANGED <<begun, samePlan, changed, abandoned>>
        /\ \A b \in Attempts : b # a => phase'[b] = phase[b] /\ owner'[b] = owner[b]
        /\ phase'[a] # "between" /\ phase[a] = "absent"
        /\ begun[a] = 0
    BY <1>6, BegunStarted DEF StartExecution, diskVars, TypeOK, Unstarted
  <2>2. a \notin changed
    BY <2>1 DEF DiskState, Unstarted
  <2> QED BY <2>1, <2>2 DEF RetryState
<1>7. CASE UNCHANGED <<owner, phase, begun, samePlan, changed>> /\ abandoned \subseteq abandoned'
  BY <1>7 DEF RetryState
<1> QED
  BY <1>1, <1>2, <1>3, <1>4, <1>5, <1>6, <1>7
  DEF Next, ServiceStep, Launch, CloseWindow, ServiceReturns, GivesUp, Returns, vars, callVars,
      serviceVars, diskVars

(* Evidence and success are only given for a service that completed, and   *)
(* such a service does not change any more.                                *)
LEMMA EvidenceStep ==
  ASSUME TypeOK, ServiceState, WindowState, EvidenceState, [Next]_vars
  PROVE  EvidenceState'
<1>0. \A a \in Attempts : exit[a] = 0 =>
        /\ reported[a] = "completed" /\ step[a] = Steps
        /\ phase[a] \notin Alive /\ phase[a] # "absent"
  BY DEF ServiceState, ServiceOK, Alive
<1>1. ASSUME NEW a \in Attempts, ServiceStep(a) \/ KillService(a)
      PROVE  EvidenceState'
  <2>1. \A b \in Attempts : exit[b] = 0 =>
          step'[b] = step[b] /\ reported'[b] = reported[b] /\ exit'[b] = exit[b]
    BY <1>0, <1>1, ServiceMoves
  <2>2. UNCHANGED <<evidence, ui, owner>>
    BY <1>1, ServiceMoves
  <2> QED BY <2>1, <2>2 DEF EvidenceState, EvidenceIsTruthful
<1>2. ASSUME NEW w \in Windows, NEW a \in Attempts, StartExecution(w, a)
      PROVE  EvidenceState'
  <2>1. /\ UNCHANGED <<evidence, step, reported, exit>>
        /\ \A v \in Windows : ui'[v] = "completed" => ui[v] = "completed"
        /\ \A b \in Attempts : b # a => owner'[b] = owner[b]
        /\ phase[a] = "absent"
    BY <1>2 DEF StartExecution, TypeOK
  <2>2. exit[a] # 0
    BY <1>0, <2>1
  <2> QED BY <2>1, <2>2 DEF EvidenceState, EvidenceIsTruthful
<1>3. ASSUME NEW w \in Windows, NEW a \in Attempts, ServiceReturns(w, a)
      PROVE  EvidenceState'
  <2>1. UNCHANGED <<owner, step, reported, exit>> /\ owner[a] = w
    BY <1>3 DEF ServiceReturns, Returns, serviceVars
  <2>2. evidence'.passed => evidence' = evidence \/ (evidence'.attempt = a /\ exit[a] = 0)
    <3>1. CASE evidence' = [attempt |-> a, passed |-> Passed(a)]
      <4>1. evidence'.attempt = a /\ evidence'.passed = Passed(a)
        BY <3>1
      <4>2. Passed(a) => exit[a] = 0
        BY DEF Passed
      <4> QED BY <4>1, <4>2
    <3> QED BY <1>3, <3>1 DEF ServiceReturns
  <2>3. \A v \in Windows :
          ui'[v] = "completed" => ui[v] = "completed" \/ (v = w /\ exit[a] = 0)
    BY <1>3 DEF ServiceReturns, Returns, Verdict, TypeOK
  <2> QED BY <1>0, <2>1, <2>2, <2>3 DEF EvidenceState, EvidenceIsTruthful
<1>5. ASSUME NEW w \in Windows, NEW a \in Attempts, GivesUp(w, a)
      PROVE  EvidenceState'
  <2>1. /\ UNCHANGED <<evidence, owner, step, reported, exit>>
        /\ \A v \in Windows : ui'[v] = "completed" => ui[v] = "completed"
    BY <1>5 DEF GivesUp, Returns, serviceVars, TypeOK
  <2> QED BY <2>1 DEF EvidenceState, EvidenceIsTruthful
<1>4. CASE UNCHANGED <<ui, owner, serviceVars, evidence>>
  BY <1>4 DEF EvidenceState, EvidenceIsTruthful, serviceVars
<1> QED
  BY <1>1, <1>2, <1>3, <1>4, <1>5
  DEF Next, Launch, CloseWindow, callVars, vars

-----------------------------------------------------------------------------
IInv ==
  /\ TypeOK /\ ServiceState /\ WindowState /\ AttendedState
  /\ DiskState /\ RetryState /\ EvidenceState

LEMMA Inductive == Spec => []IInv
<1>1. Init => IInv
  <2> SUFFICES ASSUME Init PROVE IInv
    OBVIOUS
  <2>1. WindowState
    BY SessionAssumption DEF Init, WindowState
  <2>2. AttendedState
    BY SessionAssumption DEF Init, AttendedState, Alive
  <2>3. DiskState
    BY SessionAssumption DEF Init, DiskState, Attempts, Unstarted, Alive
  <2>4. RetryState /\ EvidenceState
    BY DEF Init, RetryState, EvidenceState, EvidenceIsTruthful
  <2> QED BY <2>1, <2>2, <2>3, <2>4, ServiceInit DEF IInv
<1>2. IInv /\ [Next]_vars => IInv'
  BY TypeStep, ServiceStateStep, WindowStep, AttendedStep, DiskStep, RetryStep,
     EvidenceStep DEF IInv
<1> QED BY <1>1, <1>2, PTL DEF Spec

(* Every variable keeps its type, and no service enters more operations    *)
(* than there are.                                                         *)
THEOREM SessionTypes == Spec => []TypeOK
<1>1. IInv => TypeOK BY DEF IInv
<1> QED BY <1>1, Inductive, PTL

(* At most one service that is alive is read by anybody, and one of an     *)
(* open window that its execute_plan did not give up on is waited for,     *)
(* whatever windows are opened, closed and reopened (lyra-install-lock,    *)
(* execute_plan).                                                          *)
THEOREM AttendedServiceHolds == Spec => []OneAttendedService
<1>1. IInv => OneAttendedService
  BY DEF IInv, AttendedState, OneAttendedService, Working, Reader
<1> QED BY <1>1, Inductive, PTL

(* The release evidence and a window's success stand for a service that    *)
(* did every operation, said so and exited with 0 (execute_plan's          *)
(* judgement).                                                             *)
THEOREM EvidenceHolds == Spec => []EvidenceIsTruthful
<1>1. IInv => EvidenceIsTruthful BY DEF IInv, EvidenceState
<1> QED BY <1>1, Inductive, PTL

(* A window that wrote to the disk does not write again from the plan it   *)
(* had, unless that plan is still the one the disk yields (the             *)
(* revalidation in execute).                                               *)
THEOREM StaleRetryHolds == Spec => []StaleRetryNeverWrites
<1>1. IInv => StaleRetryNeverWrites
  BY DEF IInv, RetryState, StaleRetryNeverWrites
<1> QED BY <1>1, Inductive, PTL

-----------------------------------------------------------------------------
(* What the transaction of a service sees of a step of another one, or of  *)
(* a window: nothing.                                                      *)
LEMMA OthersAreInvisible ==
  ASSUME NEW a \in Attempts,
         step'[a] = step[a], exit'[a] = exit[a],
         phase'[a] = phase[a] \/ (phase[a] \in Unstarted /\ phase'[a] \in Unstarted)
  PROVE  UNCHANGED Service(a)!transactionVars
<1>1. TransactionPhase(a)' = TransactionPhase(a)
  BY DEF TransactionPhase, Unstarted
<1>2. TransactionResult(a)' = TransactionResult(a)
  BY DEF TransactionResult
<1> QED BY <1>1, <1>2 DEF Service!transactionVars

(* A step of a service is one of its transaction, or invisible: Revalidate *)
(* accepts or refuses, EndStep advances or turns back, Exit ends, and a    *)
(* death at any point is a crash.                                          *)
LEMMA ServiceAdvances ==
  ASSUME TypeOK, ServiceState, NEW a \in Attempts, ServiceStep(a) \/ KillService(a)
  PROVE  [Service(a)!TransactionNext]_(Service(a)!transactionVars)
<1>1. ServiceOK(a)
  BY DEF ServiceState
<1>2. /\ phase[a] \in Alive /\ exit[a] = -1 /\ TransactionPhase(a) # "ended"
      /\ TransactionResult(a) = "none"
  BY <1>1, ServiceMoves
     DEF ServiceOK, Alive, Ended, TransactionPhase, TransactionResult
<1>3. ASSUME phase'[a] = "dead", exit'[a] \in {101, 137}, step'[a] = step[a]
      PROVE  Service(a)!Crash
  <2>1. TransactionPhase(a)' = "ended" /\ TransactionResult(a)' = "crashed"
    BY <1>3 DEF TransactionPhase, TransactionResult
  <2> QED BY <1>2, <1>3, <2>1 DEF Service!Crash
<1>4. ASSUME phase'[a] = phase[a] \/ (phase[a] \in Unstarted /\ phase'[a] \in Unstarted),
             step'[a] = step[a], exit'[a] = exit[a]
      PROVE  UNCHANGED Service(a)!transactionVars
  BY <1>4, OthersAreInvisible
<1>5. CASE Discover(a)
  BY <1>4, <1>5 DEF Discover, TypeOK, Unstarted
<1>6. CASE Revalidate(a)
  <2>1. CASE phase'[a] = "between" /\ exit' = exit /\ step' = step
    BY <1>2, <1>6, <2>1
       DEF Revalidate, Service!Accept, Service!TransactionNext, TransactionPhase, TransactionResult
  <2>2. CASE phase'[a] = "exited" /\ exit'[a] = 1 /\ step' = step
    BY <1>2, <1>6, <2>2
       DEF Revalidate, Service!Refuse, Service!TransactionNext, TransactionPhase, TransactionResult
  <2>3. CASE phase'[a] = "dead" /\ exit'[a] = 101 /\ step' = step
    BY <1>3, <2>3 DEF Service!TransactionNext
  <2> QED BY <1>6, <2>1, <2>2, <2>3 DEF Revalidate, Dies, TypeOK
<1>7. CASE BeginStep(a)
  <2>1. CASE phase'[a] = "running" /\ exit' = exit /\ step' = step
    BY <1>2, <1>7, <2>1
       DEF BeginStep, Service!transactionVars, TransactionPhase, TransactionResult
  <2>2. CASE phase'[a] = "dead" /\ exit'[a] = 101 /\ step' = step
    BY <1>3, <2>2 DEF Service!TransactionNext
  <2> QED BY <1>7, <2>1, <2>2 DEF BeginStep, Dies, TypeOK
<1>8. CASE EndStep(a)
  <2>1. phase[a] \in {"running", "changing"} /\ step[a] < Steps /\ step[a] \in Int
    BY <1>1, <1>8, SessionAssumption DEF EndStep, ServiceOK, TypeOK
  <2>2. CASE phase'[a] = "between" /\ exit' = exit /\ step'[a] = step[a] + 1
    BY <1>2, <2>1, <2>2
       DEF Service!Advance, Service!TransactionNext, TransactionPhase, TransactionResult
  <2>3. CASE phase'[a] = "unwinding" /\ exit' = exit /\ step' = step
    BY <1>2, <2>1, <2>3
       DEF Service!TurnBack, Service!TransactionNext, TransactionPhase, TransactionResult
  <2>4. CASE phase'[a] = "dead" /\ exit'[a] = 101 /\ step' = step
    BY <1>3, <2>4 DEF Service!TransactionNext
  <2> QED BY <1>8, <2>2, <2>3, <2>4 DEF EndStep, Dies, TypeOK
<1>9. CASE FinishSteps(a)
  <2>1. phase[a] = "between" /\ phase'[a] = "unwinding" /\ exit' = exit /\ step' = step
    BY <1>9 DEF FinishSteps, TypeOK
  <2> QED
    BY <1>2, <2>1
       DEF Service!TurnBack, Service!TransactionNext, TransactionPhase, TransactionResult
<1>10. CASE EndUnwind(a)
  <2>1. CASE phase'[a] = "exiting" /\ exit' = exit /\ step' = step
    BY <1>2, <1>10, <2>1
       DEF EndUnwind, Service!transactionVars, TransactionPhase, TransactionResult
  <2>2. CASE phase'[a] = "dead" /\ exit'[a] = 101 /\ step' = step
    BY <1>3, <2>2 DEF Service!TransactionNext
  <2> QED BY <1>10, <2>1, <2>2 DEF EndUnwind, Dies, TypeOK
<1>11. CASE Exit(a)
  <2>1. /\ phase[a] = "exiting" /\ phase'[a] = "exited" /\ step' = step
        /\ exit'[a] = IF reported[a] = "completed" THEN 0 ELSE 1
    BY <1>11 DEF Exit, TypeOK
  <2>2. reported[a] = "completed" => step[a] = Steps
    BY <1>1 DEF ServiceOK
  <2>3. /\ TransactionPhase(a) = "releasing" /\ TransactionPhase(a)' = "ended"
        /\ TransactionResult(a)' \in {"completed", "failed"}
        /\ TransactionResult(a)' = "completed" => step[a] = Steps
    BY <2>1, <2>2 DEF TransactionPhase, TransactionResult
  <2> QED BY <2>1, <2>3 DEF Service!End, Service!TransactionNext
<1>12. CASE KillService(a)
  <2>1. phase'[a] = "dead" /\ exit'[a] = 137 /\ step' = step
    BY <1>12 DEF KillService, Dies, TypeOK
  <2> QED BY <1>3, <2>1 DEF Service!TransactionNext
<1>13. CASE Change(a)
  <2>1. /\ phase[a] = "running" /\ phase'[a] = "changing"
        /\ exit' = exit /\ step' = step
    BY <1>13 DEF Change, TypeOK
  <2> QED BY <2>1 DEF Service!transactionVars, TransactionPhase, TransactionResult
<1> QED
  BY <1>5, <1>6, <1>7, <1>8, <1>9, <1>10, <1>11, <1>12, <1>13 DEF ServiceStep

LEMMA TransactionStep ==
  ASSUME TypeOK, ServiceState, NEW a \in Attempts, [Next]_vars
  PROVE  [Service(a)!TransactionNext]_(Service(a)!transactionVars)
<1>1. ASSUME NEW b \in Attempts, ServiceStep(b) \/ KillService(b)
      PROVE  [Service(a)!TransactionNext]_(Service(a)!transactionVars)
  <2>1. CASE b = a
    BY <1>1, <2>1, ServiceAdvances
  <2>2. CASE b # a
    <3>1. phase'[a] = phase[a] /\ step'[a] = step[a] /\ exit'[a] = exit[a]
      BY <1>1, <2>2, ServiceMoves
    <3> QED BY <3>1, OthersAreInvisible
  <2> QED BY <2>1, <2>2
<1>2. ASSUME NEW w \in Windows, NEW b \in Attempts, StartExecution(w, b)
      PROVE  UNCHANGED Service(a)!transactionVars
  <2>1. step' = step /\ exit' = exit
    BY <1>2 DEF StartExecution
  <2>2. phase'[a] = phase[a] \/ (phase[a] \in Unstarted /\ phase'[a] \in Unstarted)
    BY <1>2 DEF StartExecution, TypeOK, Unstarted
  <2> QED BY <2>1, <2>2, OthersAreInvisible
<1>3. CASE UNCHANGED serviceVars
  BY <1>3, OthersAreInvisible DEF serviceVars
<1> QED
  BY <1>1, <1>2, <1>3
  DEF Next, Launch, CloseWindow, ServiceReturns, GivesUp, Returns, vars

(* Every service is an InstallTransaction, for any number of windows and   *)
(* executions, whatever the windows and the other services do: nothing     *)
(* happens before its revalidation, no operation once it turned back, and  *)
(* it only succeeds after all of them.                                     *)
THEOREM TransactionsHold == Spec => ServicesAreTransactions
<1>1. Init => \A a \in Attempts : Service(a)!TransactionInit
  BY DEF Init, Service!TransactionInit, TransactionPhase, TransactionResult
<1>2. IInv /\ [Next]_vars =>
        [\A a \in Attempts : [Service(a)!TransactionNext]_(Service(a)!transactionVars)]_vars
  BY TransactionStep DEF IInv
<1> QED BY <1>1, <1>2, Inductive, PTL DEF Spec, ServicesAreTransactions

(* The same for one service: the refinement itself.                        *)
THEOREM EachIsATransaction ==
  ASSUME NEW a \in Attempts
  PROVE  Spec => Service(a)!TransactionSpec
<1>1. Init => Service(a)!TransactionInit
  BY DEF Init, Service!TransactionInit, TransactionPhase, TransactionResult
<1>2. IInv /\ [Next]_vars => [Service(a)!TransactionNext]_(Service(a)!transactionVars)
  BY TransactionStep DEF IInv
<1> QED BY <1>1, <1>2, Inductive, PTL DEF Spec, Service!TransactionSpec
=============================================================================
