-------------------------- MODULE TransactionProofs --------------------------
(***************************************************************************)
(* The privileged service implements the transaction it promises: every    *)
(* behaviour of ExecutionEngine, seen through its refinement mapping, is a *)
(* behaviour of InstallTransaction.                                        *)
(***************************************************************************)
EXTENDS ExecutionEngineProofs

(* The mapping, read off the program counter and the exit status.          *)
MappedPhase ==
  /\ pc \in Preparing => Phase = "preparing"
  /\ pc \in {"looping", "performing"} => Phase = "working"
  /\ pc = "unwinding" => Phase = "releasing"
  /\ pc \in Stopped => Phase = "ended"

MappedResult ==
  /\ exit = -1 => Result = "none"
  /\ exit = 0 => Result = "completed"
  /\ exit \in {101, 137} => Result = "crashed"
  /\ exit \in {1, 2} =>
       Result = IF cancelled /\ ~failed /\ cleanupErrors = {} THEN "cancelled" ELSE "failed"

(* A client sees one step of the transaction, or none.                     *)
ClientStep == [Promise!TransactionNext]_(Promise!transactionVars)

(* The service starts as a transaction that has not been accepted.         *)
LEMMA StartsPreparing == Init => Promise!TransactionInit
<1> SUFFICES ASSUME Init PROVE Promise!TransactionInit
  OBVIOUS
<1>1. Phase = "preparing"
  BY Zenon DEF Init, Phase, Preparing
<1>2. Result = "none" /\ done = 0 /\ mounted \cup leaked = {}
  BY DEF Init, Result
<1>3. QED
  BY <1>1, <1>2 DEF Promise!TransactionInit

(* Every line of the service that a client can notice is a step of the     *)
(* transaction.                                                            *)
LEMMA StepsAreTransactionSteps ==
  TypeOK /\ Control /\ MountState /\ Outcome /\ [Next]_vars => ClientStep
<1> SUFFICES ASSUME TypeOK, Control, MountState, Outcome, [Next]_vars PROVE ClientStep
  OBVIOUS
<1> DEFINE held == mounted \cup leaked
<1>a. MappedPhase /\ MappedPhase'
  <2>1. MappedPhase
    BY Zenon DEF MappedPhase, Phase, Preparing, Stopped
  <2>2. MappedPhase'
    BY Zenon DEF MappedPhase, Phase, Preparing, Stopped
  <2>3. QED
    BY <2>1, <2>2
<1>b. MappedResult /\ MappedResult'
  <2>1. MappedResult
    BY DEF MappedResult, Result
  <2>2. MappedResult'
    BY DEF MappedResult, Result
  <2>3. QED
    BY <2>1, <2>2
<1>c. pc \notin Stopped => exit = -1 /\ Result = "none"
  BY <1>b DEF Outcome, MappedResult
(* The five ways a line shows.                                             *)
<1>1. CASE Phase' = Phase /\ Result' = Result /\ done' = done /\ held' = held
  BY <1>1 DEF ClientStep, Promise!transactionVars
<1>2. CASE pc \notin Stopped /\ pc' = pc /\ UNCHANGED <<exit, done, mounted, leaked>>
  <2>1. exit = -1 /\ exit' = -1
    BY <1>2, <1>c
  <2>2. Phase' = Phase
    BY <1>2 DEF Phase
  <2>3. QED
    BY <1>2, <2>1, <2>2, <1>1, <1>b DEF MappedResult
<1>3. CASE /\ pc \notin Stopped /\ pc' = "dead" /\ exit' \in {101, 137}
           /\ UNCHANGED <<done, mounted, leaked>>
  <2>1. Phase # "ended" /\ Phase' = "ended" /\ Result' = "crashed"
    BY <1>3, <1>a, <1>b DEF MappedPhase, MappedResult, TypeOK, Preparing, Working, Stopped
  <2>2. Promise!Crash
    BY <1>3, <2>1 DEF Promise!Crash
  <2>3. QED
    BY <2>2 DEF ClientStep, Promise!TransactionNext
<1>4. CASE /\ pc \in Preparing /\ pc' \in Preparing /\ exit' = exit
           /\ UNCHANGED <<done, mounted, leaked>>
  <2>1. Phase = "preparing" /\ Phase' = "preparing"
    BY <1>4, <1>a DEF MappedPhase
  <2>2. exit = -1 /\ exit' = -1
    BY <1>4, <1>c DEF Preparing, Stopped
  <2>3. QED
    BY <1>4, <2>1, <2>2, <1>1, <1>b DEF MappedResult
<1>5. CASE pc \in Preparing /\ pc' = "exited" /\ exit' \in {1, 2} /\ UNCHANGED progressVars
  <2>1. Phase = "preparing" /\ Phase' = "ended"
    BY <1>5, <1>a DEF MappedPhase, Stopped
  <2>2. ~cancelled' /\ UNCHANGED <<done, mounted, leaked>>
    BY <1>5 DEF progressVars, Control, Clean
  <2>3. Result' = "failed"
    BY <1>5, <2>2, <1>b DEF MappedResult
  <2>4. Promise!Refuse
    BY <2>1, <2>2, <2>3 DEF Promise!Refuse
  <2>5. QED
    BY <2>4 DEF ClientStep, Promise!TransactionNext
(* A line before the first operation goes on, rejects, or kills the service. *)
<1>6. CASE ReadRequest \/ ValidateConfig \/ CheckBinaries \/ Discover \/ Translate \/ Start
  <2>1. pc \in Preparing /\ UNCHANGED progressVars
    BY <1>6 DEF ReadRequest, ValidateConfig, CheckBinaries, Discover, Translate, Start, Preparing
  <2>2. \/ pc' \in Preparing /\ exit' = exit
        \/ pc' = "exited" /\ exit' \in {1, 2}
        \/ pc' = "dead" /\ exit' = 101
    BY <1>6, <1>c DEF ReadRequest, ValidateConfig, CheckBinaries, Discover, Translate, Start,
       Preparing, Stopped, Continue, Reject, Emit
  <2>3. QED
    BY <2>1, <2>2, <1>3, <1>4, <1>5 DEF progressVars, Preparing, Stopped
<1>7. CASE Revalidate
  <2>1. pc = "revalidating" /\ UNCHANGED progressVars
    BY <1>7 DEF Revalidate
  <2>2. \/ pc' = "looping" /\ exit' = exit
        \/ pc' = "exited" /\ exit' = 1
        \/ pc' = "dead" /\ exit' = 101
    BY <1>7 DEF Revalidate, Continue, Reject, Emit
  <2>3. CASE pc' = "looping" /\ exit' = exit
    <3>1. Phase = "preparing" /\ Phase' = "working"
      BY <2>1, <2>3, <1>a DEF MappedPhase, Preparing
    <3>2. exit = -1 /\ Result' = Result
      BY <2>1, <2>3, <1>b, <1>c DEF Stopped, MappedResult
    <3>3. Promise!Accept
      BY <2>1, <3>1, <3>2 DEF Promise!Accept, progressVars
    <3>4. QED
      BY <3>3 DEF ClientStep, Promise!TransactionNext
  <2>4. QED
    BY <2>1, <2>2, <2>3, <1>3, <1>5 DEF progressVars, Preparing, Stopped
<1>8. CASE BeginOperation
  <2>1. /\ pc = "looping" /\ UNCHANGED <<done, mounted, leaked>>
        /\ \/ pc' = "performing" /\ exit' = -1
           \/ pc' = "dead" /\ exit' = 101
    BY <1>8 DEF BeginOperation, Emit
  <2>2. CASE pc' = "performing" /\ exit' = -1
    BY <2>1, <2>2, <1>1, <1>a, <1>b, <1>c DEF MappedPhase, MappedResult, Stopped
  <2>3. QED
    BY <2>1, <2>2, <1>3 DEF Stopped
<1>9. CASE ObserveCancel \/ FinishLoop
  <2>1. /\ pc = "looping" /\ pc' = "unwinding" /\ exit' = exit
        /\ UNCHANGED <<done, mounted, leaked>>
    BY <1>9 DEF ObserveCancel, FinishLoop, BeginUnwind, Continue
  <2>2. Phase = "working" /\ Phase' = "releasing" /\ Result' = Result
    BY <2>1, <1>a, <1>b, <1>c DEF MappedPhase, MappedResult, Stopped
  <2>3. Promise!TurnBack
    BY <2>1, <2>2 DEF Promise!TurnBack
  <2>4. QED
    BY <2>3 DEF ClientStep, Promise!TransactionNext
<1>10. CASE PerformOk
  <2>1. /\ pc = "performing" /\ pc' = "looping" /\ exit' = exit /\ done' = done + 1
        /\ mounted' = mounted \cup ({done + 1} \cap Mounts) /\ leaked' = leaked
    BY <1>10 DEF PerformOk, Continue
  <2>2. Phase = "working" /\ Phase' = "working" /\ Result' = Result
    BY <2>1, <1>a, <1>b, <1>c DEF MappedPhase, MappedResult, Stopped
  <2>3. done < N
    BY <2>1 DEF Control
  <2>4. held' = held \/ \E r \in Mounts \cup Staging : held' = held \cup {r}
    BY <2>1
  <2>5. Promise!Advance
    BY <2>1, <2>2, <2>3, <2>4 DEF Promise!Advance
  <2>6. QED
    BY <2>5 DEF ClientStep, Promise!TransactionNext
<1>11. CASE PerformFails
  <2>1. /\ pc = "performing" /\ UNCHANGED <<done, mounted>>
        /\ leaked' \in {leaked, leaked \cup ({done + 1} \cap Staging)}
        /\ \/ pc' = "unwinding" /\ exit' = exit
           \/ pc' = "dead" /\ exit' = 101
    BY <1>11 DEF PerformFails
  <2>2. Phase = "working" /\ done < N
    BY <2>1, <1>a DEF MappedPhase, Control
  <2>3. held' = held \/ \E r \in Mounts \cup Staging : held' = held \cup {r}
    BY <2>1
  <2>4. CASE pc' = "unwinding" /\ exit' = exit
    <3>1. Phase' = "releasing" /\ Result' = Result
      BY <2>1, <2>4, <1>a, <1>b, <1>c DEF MappedPhase, MappedResult, Stopped
    <3>2. Promise!TurnBack
      BY <2>1, <2>2, <2>3, <3>1 DEF Promise!TurnBack
    <3>3. QED
      BY <3>2 DEF ClientStep, Promise!TransactionNext
  <2>5. CASE pc' = "dead" /\ exit' = 101
    <3>1. Phase' = "ended" /\ Result' = "crashed"
      BY <2>5, <1>a, <1>b DEF MappedPhase, MappedResult, Stopped
    <3>2. Promise!Crash
      BY <2>1, <2>2, <2>3, <3>1 DEF Promise!Crash
    <3>3. QED
      BY <3>2 DEF ClientStep, Promise!TransactionNext
  <2>6. QED
    BY <2>1, <2>4, <2>5
<1>12. CASE UndoNothing
  BY <1>12, <1>2 DEF UndoNothing, Stopped
<1>13. CASE UndoUnmounts
  <2>1. /\ pc = "unwinding" /\ UNCHANGED <<pc, exit, done, leaked>>
        /\ undoing > 0 /\ undoing \in Mounts /\ mounted' = mounted \ {undoing}
    BY <1>13 DEF UndoUnmounts
  <2>2. undoing \in mounted
    BY <2>1 DEF MountState, TypeOK
  <2>3. undoing \notin leaked
    BY <2>1, ConstantsAssumption DEF TypeOK
  <2>4. held' = held \ {undoing} /\ undoing \in held
    BY <2>1, <2>2, <2>3
  <2>5. Phase = "releasing" /\ Phase' = "releasing" /\ Result' = Result
    BY <2>1, <1>a, <1>b, <1>c DEF MappedPhase, MappedResult, Stopped
  <2>6. Promise!Release
    BY <2>1, <2>4, <2>5 DEF Promise!Release
  <2>7. QED
    BY <2>6 DEF ClientStep, Promise!TransactionNext
<1>14. CASE UndoFails
  <2>1. /\ pc = "unwinding" /\ UNCHANGED <<done, mounted, leaked>>
        /\ \/ pc' = "unwinding" /\ exit' = -1
           \/ pc' = "dead" /\ exit' = 101
    BY <1>14 DEF UndoFails, Emit
  <2>2. CASE pc' = "unwinding" /\ exit' = -1
    BY <2>1, <2>2, <1>2, <1>c DEF Stopped
  <2>3. QED
    BY <2>1, <2>2, <1>3 DEF Stopped
<1>15. CASE Conclude
  <2>1. pc = "unwinding" /\ undoing = 0 /\ UNCHANGED progressVars
    BY <1>15 DEF Conclude
  <2>2. \/ pc' = "exited" /\ exit' = 1
        \/ pc' = "exited" /\ exit' = 0 /\ ~failed /\ cleanupErrors = {} /\ ~cancelled
        \/ pc' = "dead" /\ exit' = 101
    BY <1>15 DEF Conclude, Emit
  <2>3. ~failed /\ cleanupErrors = {} => held = {}
    <3>1. cleanupErrors = {} => mounted = {}
      BY <2>1 DEF MountState, TypeOK
    <3>2. ~failed => leaked = {}
      BY DEF Control
    <3>3. QED
      BY <3>1, <3>2
  <2>4. UNCHANGED <<done, mounted, leaked, failed, cancelled, cleanupErrors>>
    BY <2>1 DEF progressVars
  <2>5. Phase = "releasing" /\ (pc' = "exited" => Phase' = "ended")
    BY <2>1, <1>a DEF MappedPhase, Stopped
  <2>6. CASE pc' = "exited" /\ exit' = 0 /\ ~failed /\ cleanupErrors = {} /\ ~cancelled
    <3>1. Result' = "completed" /\ done = N
      BY <2>1, <2>6, <1>b DEF MappedResult, Control
    <3>2. Promise!End
      BY <2>3, <2>4, <2>5, <2>6, <3>1 DEF Promise!End
    <3>3. QED
      BY <3>2 DEF ClientStep, Promise!TransactionNext
  <2>7. CASE pc' = "exited" /\ exit' = 1
    <3>1. Result' = IF cancelled /\ ~failed /\ cleanupErrors = {} THEN "cancelled" ELSE "failed"
      BY <2>4, <2>7, <1>b DEF MappedResult
    <3>2. cancelled => done < N
      BY <2>1 DEF Control
    <3>3. Promise!End
      BY <2>3, <2>4, <2>5, <2>7, <3>1, <3>2 DEF Promise!End
    <3>4. QED
      BY <3>3 DEF ClientStep, Promise!TransactionNext
  <2>8. QED
    BY <2>1, <2>2, <2>4, <2>6, <2>7, <1>3 DEF Stopped
<1>16. CASE ReceiveCancel \/ ReaderGone
  <2>1. pc \notin Stopped /\ UNCHANGED <<pc, exit, done, mounted, leaked>>
    BY <1>16 DEF ReceiveCancel, ReaderGone, Preparing, Working, Stopped, progressVars
  <2>2. QED
    BY <2>1, <1>2
<1>17. CASE Killed
  BY <1>17, <1>3 DEF Killed, progressVars
<1>18. CASE UNCHANGED vars \/ Ended
  <2>1. UNCHANGED vars
    BY <1>18 DEF Ended
  <2>2. Phase' = Phase
    BY <2>1 DEF Phase, vars
  <2>3. Result' = Result
    BY <2>1 DEF Result, vars
  <2>4. QED
    BY <2>1, <2>2, <2>3, <1>1 DEF vars
<1>19. QED
  BY <1>6, <1>7, <1>8, <1>9, <1>10, <1>11, <1>12, <1>13, <1>14, <1>15, <1>16, <1>17, <1>18
     DEF Next, Service

(* The refinement: what the client was promised is what the service does.  *)
THEOREM ServiceIsTransaction == Spec => Transaction
<1>1. Init => Promise!TransactionInit
  BY StartsPreparing
<1>2. TypeOK /\ Control /\ MountState /\ Outcome /\ [Next]_vars
        => [Promise!TransactionNext]_(Promise!transactionVars)
  BY StepsAreTransactionSteps DEF ClientStep
<1>3. QED
  BY <1>1, <1>2, TypeCorrect, MountsCorrect, OutcomeCorrect, PTL
     DEF Spec, Transaction, Promise!TransactionSpec
=============================================================================
