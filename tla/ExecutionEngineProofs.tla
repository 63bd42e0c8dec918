------------------------ MODULE ExecutionEngineProofs ------------------------
(***************************************************************************)
(* The safety properties of the privileged service, for any number of      *)
(* operations, any nesting of mounts and any plan.  The invariant is built *)
(* in three layers, each proved with the help of the ones below it:        *)
(* Control (where the main thread is and what it has done), MountState     *)
(* (what is mounted where) and Stream (what has been written to stdout).   *)
(***************************************************************************)
EXTENDS ExecutionEngine, TLAPS

Clean == ~failed /\ ~cancelled /\ cleanupErrors = {} /\ leaked = {}

(* The request was accepted by every check that precedes an operation.     *)
Accepted ==
  /\ request \in Requests /\ snapshot \in Disks
  /\ request.plan \in Executable
  /\ Confirmed

Control ==
  /\ pc \in Preparing => begun = 0 /\ done = 0 /\ undoing = 0 /\ mounted = {} /\ Clean
  /\ pc \in Preparing \ {"reading"} => request \in Requests
  /\ pc \in {"translating", "starting", "revalidating"} => snapshot \in Disks
  /\ pc \in {"starting", "revalidating"} => request.plan \in Executable
  /\ pc \in Working \/ begun > 0 => Accepted
  /\ pc = "looping" => begun = done /\ Clean
  /\ pc = "performing" => begun = done + 1 /\ done < N /\ Clean
  /\ done <= begun
  /\ failed => begun = done + 1
  /\ leaked \subseteq {begun}
  /\ leaked # {} => failed
  /\ pc = "unwinding" =>
       /\ undoing <= done
       /\ cancelled => done < N /\ ~failed
       /\ ~failed => begun = done
       /\ ~failed /\ ~cancelled => done = N

(* build() returns a finite sequence; stated apart so that leaves can cite  *)
(* it without the other assumptions on the constants.                      *)
LEMMA NatN == N \in Nat
  BY ConstantsAssumption

(* Every reachable state is well typed, and the counters of the loop and of *)
(* the unwind agree with where the main thread is (execute, unwind).       *)
THEOREM TypeCorrect == Spec => [](TypeOK /\ Control)
<1> USE NatN
<1> DEFINE TC == TypeOK /\ Control
<1>1. Init => TC
  <2> SUFFICES ASSUME Init PROVE TC
    OBVIOUS
  <2> USE DEF Init
  <2>1. events \in Seq(EventType)
    OBVIOUS
  <2>2. TypeOK
    <3>1. pc \in Preparing \cup Working \cup Stopped /\ exit \in {-1, 0, 1, 2, 101, 137}
      BY DEF Preparing, Working, Stopped
    <3>2. cancelAt \in -1..N /\ begun \in 0..N /\ done \in 0..N /\ undoing \in 0..N
      OBVIOUS
    <3>3. QED
      BY <2>1, <3>1, <3>2, Zenon DEF TypeOK
  <2>3. Control
    BY DEF Control, Clean, Preparing, Working, Stopped
  <2>4. QED
    BY <2>2, <2>3
<1>2. TC /\ [Next]_vars => TC'
  <2> SUFFICES ASSUME TC, [Next]_vars PROVE TC'
    OBVIOUS
  <2>20. CASE UNCHANGED vars \/ Ended
    <3>1. UNCHANGED vars
      BY <2>20 DEF Ended
    <3>2. TypeOK'
      BY <3>1 DEF TypeOK, vars
    <3>3. Control'
      BY <3>1 DEF Control, Accepted, Confirmed, Clean, vars
    <3>4. QED
      BY <3>2, <3>3
  <2>18. CASE ReaderGone
    <3>1. TypeOK'
      <4>1. listening' \in BOOLEAN
        BY <2>18 DEF ReaderGone
      <4>2. UNCHANGED <<pc, cancel, request, snapshot, begun, done, undoing, mounted, leaked,
                        failed, cancelled, cleanupErrors, events, exit, cancelAt>>
        BY <2>18 DEF ReaderGone, progressVars
      <4>3. QED
        BY <4>1, <4>2 DEF TypeOK
    <3>2. Control'
      BY <2>18 DEF ReaderGone, Control, Accepted, Confirmed, Clean, progressVars
    <3>3. QED
      BY <3>1, <3>2
  <2> USE DEF TypeOK, Control, Clean, Preparing, Working, Stopped, Continue, Reject, Emit,
              inputVars, progressVars, Accepted, Confirmed
  <2>0. \A k \in Kinds, op \in 0..N : Append(events, Event(k, op)) \in Seq(EventType)
    BY DEF Event, EventType
  <2>1. CASE ReadRequest
    <3>1. TypeOK'
      BY <2>1 DEF ReadRequest
    <3>2. Control'
      BY <2>1 DEF ReadRequest
    <3>3. QED
      BY <3>1, <3>2
  <2>2. CASE ValidateConfig
    <3>1. TypeOK'
      BY <2>0, <2>2 DEF ValidateConfig, Kinds
    <3>2. Control'
      BY <2>0, <2>2 DEF ValidateConfig, Kinds
    <3>3. QED
      BY <3>1, <3>2
  <2>3. CASE CheckBinaries
    <3>1. TypeOK'
      BY <2>0, <2>3 DEF CheckBinaries, Kinds
    <3>2. Control'
      BY <2>0, <2>3 DEF CheckBinaries, Kinds
    <3>3. QED
      BY <3>1, <3>2
  <2>4. CASE Discover
    <3>1. TypeOK'
      BY <2>0, <2>4 DEF Discover, Kinds
    <3>2. Control'
      BY <2>0, <2>4 DEF Discover, Kinds
    <3>3. QED
      BY <3>1, <3>2
  <2>5. CASE Translate
    <3>1. TypeOK'
      BY <2>0, <2>5 DEF Translate, Kinds
    <3>2. Control'
      BY <2>0, <2>5 DEF Translate, Kinds
    <3>3. QED
      BY <3>1, <3>2
  <2>6. CASE Start
    <3>1. TypeOK'
      BY <2>0, <2>6 DEF Start, Kinds
    <3>2. Control'
      BY <2>0, <2>6 DEF Start, Kinds
    <3>3. QED
      BY <3>1, <3>2
  <2>7. CASE Revalidate
    <3>1. TypeOK'
      BY <2>0, <2>7 DEF Revalidate, Kinds
    <3>2. Control'
      BY <2>0, <2>7 DEF Revalidate, Kinds
    <3>3. QED
      BY <3>1, <3>2
  <2>8. CASE BeginOperation
    <3>1. TypeOK'
      BY <2>0, <2>8 DEF BeginOperation, Kinds
    <3>2. Control'
      BY <2>0, <2>8 DEF BeginOperation, Kinds
    <3>3. QED
      BY <3>1, <3>2
  <2>9. CASE ObserveCancel
    <3>1. TypeOK'
      BY <2>9 DEF ObserveCancel, BeginUnwind
    <3>2. Control'
      BY <2>9 DEF ObserveCancel, BeginUnwind
    <3>3. QED
      BY <3>1, <3>2
  <2>10. CASE FinishLoop
    <3>1. TypeOK'
      BY <2>10 DEF FinishLoop, BeginUnwind
    <3>2. Control'
      BY <2>10 DEF FinishLoop, BeginUnwind
    <3>3. QED
      BY <3>1, <3>2
  <2>11. CASE PerformOk
    <3>1. TypeOK'
      BY <2>11 DEF PerformOk
    <3>2. Control'
      BY <2>11 DEF PerformOk
    <3>3. QED
      BY <3>1, <3>2
  <2>12. CASE PerformFails
    <3>1. events' \in Seq(EventType)
      <4>1. Append(events, Event("Failed", done + 1)) \in Seq(EventType)
        BY <2>0, <2>12 DEF PerformFails, Kinds
      <4>2. QED
        BY <4>1, <2>12 DEF PerformFails
    <3>4. leaked' \subseteq Staging
      BY <2>12 DEF PerformFails
    <3>5. TypeOK'
      BY <3>1, <3>4, <2>12 DEF PerformFails
    <3>2. Control'
      BY <2>12 DEF PerformFails
    <3>3. QED
      BY <3>5, <3>2
  <2>13. CASE UndoNothing
    <3>1. TypeOK'
      BY <2>13 DEF UndoNothing
    <3>2. Control'
      BY <2>13 DEF UndoNothing
    <3>3. QED
      BY <3>1, <3>2
  <2>14. CASE UndoUnmounts
    <3>4. undoing > 0 /\ undoing' = undoing - 1 /\ mounted' = mounted \ {undoing}
      BY <2>14 DEF UndoUnmounts
    <3>6. undoing' \in 0..N
      BY <3>4
    <3>7. mounted' \subseteq Mounts
      BY <3>4
    <3>5. UNCHANGED <<pc, listening, cancel, request, snapshot, begun, done, leaked, failed,
                      cancelled, cleanupErrors, events, exit, cancelAt>>
      BY <2>14 DEF UndoUnmounts
    <3>1. TypeOK'
      BY <3>5, <3>6, <3>7
    <3>2. Control'
      BY <3>4, <3>5, <2>14 DEF UndoUnmounts
    <3>3. QED
      BY <3>1, <3>2
  <2>15. CASE UndoFails
    <3>4. events' \in Seq(EventType)
      BY <2>0, <2>15 DEF UndoFails, Kinds
    <3>5. pc' \in {"unwinding", "dead"} /\ exit' \in {-1, 101}
      BY <2>15 DEF UndoFails
    <3>6. undoing' \in 0..N /\ cleanupErrors' \subseteq Mounts
      BY <2>15 DEF UndoFails
    <3>7. UNCHANGED <<listening, cancel, request, snapshot, begun, done, mounted, leaked,
                      failed, cancelled, cancelAt>>
      BY <2>15 DEF UndoFails
    <3>1. TypeOK'
      BY <3>4, <3>5, <3>6, <3>7
    <3>2. Control'
      BY <2>0, <2>15 DEF UndoFails, Kinds
    <3>3. QED
      BY <3>1, <3>2
  <2>16. CASE Conclude
    <3>4. events' \in Seq(EventType)
      BY <2>0, <2>16 DEF Conclude, Kinds
    <3>5. pc' \in {"exited", "dead"} /\ exit' \in {0, 1, 101}
      BY <2>16 DEF Conclude
    <3>6. UNCHANGED <<inputVars, progressVars>>
      BY <2>16 DEF Conclude
    <3>1. TypeOK'
      BY <3>4, <3>5, <3>6
    <3>2. Control'
      BY <2>0, <2>16 DEF Conclude, Kinds
    <3>3. QED
      BY <3>1, <3>2
  <2>17. CASE ReceiveCancel
    BY <2>17 DEF ReceiveCancel
  <2>19. CASE Killed
    BY <2>19 DEF Killed
  <2>21. QED
    BY <2>1, <2>2, <2>3, <2>4, <2>5, <2>6, <2>7, <2>8, <2>9, <2>10, <2>11, <2>12, <2>13,
       <2>14, <2>15, <2>16, <2>17, <2>18, <2>19, <2>20 DEF Next, Service
<1>3. QED
  BY <1>1, <1>2, PTL DEF Spec

-----------------------------------------------------------------------------
(* What is mounted where.  While the loop runs every mount of a completed  *)
(* operation is in place; while the unwind runs those it has yet to visit  *)
(* are, and of the visited ones only those whose umount failed.            *)
MountState ==
  /\ pc \in {"looping", "performing"} => mounted = Mounts \cap (1..done)
  /\ mounted \subseteq 1..done
  /\ pc = "unwinding" => Mounts \cap (1..undoing) \subseteq mounted
  /\ pc = "unwinding" => \A m \in mounted : m > undoing => m \in cleanupErrors
  /\ pc = "exited" => mounted \subseteq cleanupErrors
  /\ MountsNest

(* What lies under a mount point was mounted later: plan_to_operations      *)
(* sorts the mounts by depth.                                              *)
LEMMA NestedLater == \A m \in Mounts : \A c \in Under[m] : c \in Mounts /\ m < c /\ m \in 1..N
  BY ConstantsAssumption

(* Parents before children: the three facts about mounts follow from the   *)
(* order of the sequence and from what umount refuses.                     *)
THEOREM MountsCorrect == Spec => []MountState
<1> USE NatN
<1>1. Init => MountState
  BY NestedLater DEF Init, MountState, MountsNest
<1>2. MountState /\ TypeOK /\ Control /\ [Next]_vars => MountState'
  <2> SUFFICES ASSUME MountState, TypeOK, Control, [Next]_vars PROVE MountState'
    OBVIOUS
  <2>1. CASE UNCHANGED <<pc, done, undoing, mounted, cleanupErrors>>
    BY <2>1 DEF MountState, MountsNest
  <2>2. CASE UNCHANGED <<done, mounted, cleanupErrors>> /\ pc \in Preparing
             /\ pc' # "unwinding"
    <3>1. done = 0 /\ mounted = {}
      BY <2>2 DEF Control
    <3>2. done' = 0 /\ mounted' = {}
      BY <3>1, <2>2
    <3>3. MountsNest'
      BY <3>2 DEF MountsNest
    <3>4. QED
      BY <2>2, <3>2, <3>3 DEF MountState
  <2>3. CASE UNCHANGED <<done, mounted, cleanupErrors>> /\ pc' = "dead"
    BY <2>3 DEF MountState, MountsNest
  <2>4. CASE BeginOperation
    <3>1. CASE ~listening
      BY <2>3, <2>4, <3>1 DEF BeginOperation, Emit
    <3>2. CASE listening
      BY <2>4, <3>2 DEF BeginOperation, Emit, MountState, MountsNest
    <3>3. QED
      BY <3>1, <3>2 DEF TypeOK
  <2>5. CASE ObserveCancel \/ FinishLoop
    <3>1. UNCHANGED <<done, mounted, cleanupErrors>> /\ undoing' = done
          /\ pc = "looping" /\ pc' = "unwinding"
      BY <2>5 DEF ObserveCancel, FinishLoop, BeginUnwind, Continue
    <3>2. QED
      BY <3>1 DEF MountState, MountsNest, TypeOK
  <2>6. CASE PerformOk
    <3>1. /\ pc = "performing" /\ pc' = "looping" /\ done' = done + 1
          /\ mounted' = mounted \cup ({done + 1} \cap Mounts)
      BY <2>6 DEF PerformOk, Continue
    <3>2. mounted' = Mounts \cap (1..done')
      BY <3>1 DEF MountState, TypeOK
    <3>3. done' \in Nat
      BY <3>1 DEF TypeOK
    <3>4. MountsNest'
      <4> SUFFICES ASSUME NEW m \in Mounts, NEW c \in Under[m], c \in mounted'
                   PROVE  m \in mounted'
        BY DEF MountsNest
      <4>1. m < c /\ m \in 1..N
        BY NestedLater
      <4>2. c \in 1..done'
        BY <3>2
      <4>3. QED
        BY <3>2, <3>3, <4>1, <4>2
    <3>5. QED
      BY <3>1, <3>2, <3>4 DEF MountState
  <2>7. CASE PerformFails
    <3>1. CASE pc' = "dead"
      BY <2>3, <2>7, <3>1 DEF PerformFails
    <3>2. CASE pc' # "dead"
      <4>1. UNCHANGED <<done, mounted, cleanupErrors>> /\ undoing' = done
            /\ pc = "performing" /\ pc' = "unwinding"
        BY <2>7, <3>2 DEF PerformFails
      <4>2. QED
        BY <4>1 DEF MountState, MountsNest, TypeOK
    <3>3. QED
      BY <3>1, <3>2
  <2>8. CASE UndoNothing
    BY <2>8 DEF UndoNothing, MountState, MountsNest, TypeOK
  <2>9. CASE UndoUnmounts
    <3>1. /\ pc = "unwinding" /\ pc' = "unwinding" /\ UNCHANGED <<done, cleanupErrors>>
          /\ undoing \in Mounts /\ Under[undoing] \cap mounted = {}
          /\ mounted' = mounted \ {undoing} /\ undoing' = undoing - 1
      BY <2>9 DEF UndoUnmounts, Busy
    <3>2. MountsNest'
      BY <3>1 DEF MountsNest, MountState
    <3>3. QED
      BY <3>1, <3>2 DEF MountState, TypeOK
  <2>10. CASE UndoFails
    <3>1. CASE ~listening
      BY <2>3, <2>10, <3>1 DEF UndoFails, Emit
    <3>2. CASE listening
      <4>1. /\ pc = "unwinding" /\ pc' = "unwinding" /\ UNCHANGED <<done, mounted>>
            /\ undoing' = undoing - 1 /\ cleanupErrors' = cleanupErrors \cup {undoing}
        BY <2>10, <3>2 DEF UndoFails, Emit
      <4>2. QED
        BY <4>1 DEF MountState, MountsNest, TypeOK
    <3>3. QED
      BY <3>1, <3>2 DEF TypeOK
  <2>11. CASE Conclude
    <3>1. /\ pc = "unwinding" /\ undoing = 0 /\ pc' \in {"exited", "dead"}
          /\ UNCHANGED <<done, mounted, cleanupErrors>>
      BY <2>11 DEF Conclude, Emit, progressVars
    <3>2. mounted \subseteq cleanupErrors
      BY <3>1 DEF MountState, TypeOK
    <3>3. QED
      BY <3>1, <3>2 DEF MountState, MountsNest
  <2>12. CASE ReadRequest \/ ValidateConfig \/ CheckBinaries \/ Discover \/ Translate
              \/ Start \/ Revalidate
    <3>1. UNCHANGED <<done, mounted, cleanupErrors>> /\ pc \in Preparing
      BY <2>12 DEF ReadRequest, ValidateConfig, CheckBinaries, Discover, Translate, Start,
         Revalidate, Preparing, progressVars
    <3>2. pc' # "unwinding"
      BY <2>12 DEF ReadRequest, ValidateConfig, CheckBinaries, Discover, Translate, Start,
         Revalidate, Continue, Reject, Emit
    <3>3. QED
      BY <2>2, <3>1, <3>2
  <2>13. CASE ReceiveCancel \/ ReaderGone \/ Ended \/ UNCHANGED vars
    BY <2>1, <2>13 DEF ReceiveCancel, ReaderGone, Ended, vars, progressVars
  <2>14. CASE Killed
    BY <2>3, <2>14 DEF Killed, progressVars
  <2>15. QED
    BY <2>4, <2>5, <2>6, <2>7, <2>8, <2>9, <2>10, <2>11, <2>12, <2>13, <2>14 DEF Next, Service
<1>3. QED
  BY <1>1, <1>2, TypeCorrect, PTL DEF Spec

(* A mount never outlives the mounts it lies under, at any length of the   *)
(* sequence and any nesting (MountSubvolume, MountEsp, BindMount).         *)
THEOREM NestingHolds == Spec => []MountsNest
<1>1. MountState => MountsNest
  BY DEF MountState
<1>2. QED
  BY <1>1, MountsCorrect, PTL

(* Reverse order alone never meets a busy mount point.                     *)
THEOREM UnwindOrderHolds == Spec => []OrderNeverBlocksUnwind
<1>1. TypeOK /\ Control /\ MountState => OrderNeverBlocksUnwind
  <2> SUFFICES ASSUME TypeOK, MountState, pc = "unwinding", undoing \in Mounts,
                      cleanupErrors = {}
               PROVE  Under[undoing] \cap mounted = {}
    BY DEF OrderNeverBlocksUnwind, Busy
  <2>1. \A c \in Under[undoing] : undoing < c
    BY NestedLater
  <2>2. \A c \in mounted : ~(undoing < c)
    BY DEF MountState
  <2>3. \A c \in Under[undoing] : ~(c \in mounted)
    BY <2>1, <2>2
  <2>4. QED
    BY <2>3
<1>2. QED
  BY <1>1, TypeCorrect, MountsCorrect, PTL

(* No operation is ever entered on an unconfirmed plan.                    *)
THEOREM WritesHold == Spec => []WritesAreConfirmed
<1>1. TypeOK /\ Control => WritesAreConfirmed
  <2> SUFFICES ASSUME TypeOK, Control, begun > 0
               PROVE  request # NoRequest /\ snapshot # NoDisk /\ Confirmed
                      /\ request.plan \in Executable
    BY DEF WritesAreConfirmed
  <2>1. Accepted
    BY DEF Control
  <2>2. request # NoRequest /\ snapshot # NoDisk
    BY <2>1, ConstantsAssumption, NoRequestAssumption DEF Accepted
  <2>3. QED
    BY <2>1, <2>2 DEF Accepted
<1>2. QED
  BY <1>1, TypeCorrect, PTL

-----------------------------------------------------------------------------
(* What has been written to stdout, as the set of the events sent: most of *)
(* the properties do not depend on their order.                            *)
Sent == {events[i] : i \in DOMAIN events}

Terminal == {"Failed", "Completed"}

SentState ==
  /\ pc \notin Stopped /\ ~failed => \A e \in Sent : e.kind \notin Terminal
  /\ failed => \A e \in Sent : /\ e.kind # "Completed"
                               /\ e.kind = "Failed" => e.op = begun
  /\ failed /\ pc \in {"unwinding", "exited"} => Event("Failed", begun) \in Sent
  /\ \A m \in cleanupErrors : Event("Warning", m) \in Sent

(* The lines emit writes are typed.                                         *)
LEMMA Events == \A k \in Kinds, op \in 0..N :
                  /\ Event(k, op) \in EventType
                  /\ Event(k, op).kind = k
                  /\ Event(k, op).op = op
  BY DEF Event, EventType

(* The five kinds of ExecutionEvent, usable without expanding Kinds.        *)
LEMMA KindsListed == {"Started", "Step", "Warning", "Failed", "Completed"} \subseteq Kinds
  BY DEF Kinds

(* emit adds exactly one line to what the frontend has been sent.           *)
LEMMA SentAppend ==
  ASSUME NEW e \in EventType, events \in Seq(EventType), events' = Append(events, e)
  PROVE  Sent' = Sent \cup {e}
<1>1. /\ DOMAIN events' = 1..(Len(events) + 1) /\ DOMAIN events = 1..Len(events)
      /\ Len(events) \in Nat
      /\ \A i \in 1..Len(events) : events'[i] = events[i]
      /\ events'[Len(events) + 1] = e
  OBVIOUS
<1>2. \A i \in DOMAIN events' : i \in DOMAIN events \/ i = Len(events) + 1
  BY <1>1
<1>3. DOMAIN events \subseteq DOMAIN events' /\ Len(events) + 1 \in DOMAIN events'
  BY <1>1
<1>4. Sent' \subseteq Sent \cup {e}
  BY <1>1, <1>2 DEF Sent
<1>5. Sent \subseteq Sent' /\ e \in Sent'
  BY <1>1, <1>3 DEF Sent
<1>6. QED
  BY <1>4, <1>5

(* A step that writes no line sends nothing.                                *)
LEMMA SentSame == UNCHANGED events => Sent' = Sent
  BY DEF Sent

(* What Emit does, once the event is known to be one of the protocol's.    *)
LEMMA EmitSends ==
  ASSUME TypeOK, NEW k \in Kinds, NEW op \in 0..N, NEW next, NEW status,
         Emit(Event(k, op), next, status)
  PROVE  \/ listening /\ Sent' = Sent \cup {Event(k, op)} /\ pc' = next /\ exit' = status
         \/ ~listening /\ Sent' = Sent /\ pc' = "dead" /\ exit' = 101
<1>1. CASE listening
  <2>1. events' = Append(events, Event(k, op)) /\ pc' = next /\ exit' = status
    BY <1>1 DEF Emit
  <2>2. events \in Seq(EventType) /\ Event(k, op) \in EventType
    BY Events DEF TypeOK
  <2>3. QED
    BY <1>1, <2>1, <2>2, SentAppend
<1>2. CASE ~listening
  BY <1>2, SentSame DEF Emit
<1>3. QED
  BY <1>1, <1>2 DEF TypeOK

(* What has been sent corresponds to where the run is: which operations     *)
(* were announced, which undos warned, and whether a terminal event left.  *)
THEOREM SentCorrect == Spec => []SentState
<1> USE NatN
<1>1. Init => SentState
  BY DEF Init, SentState, Sent
<1>2. SentState /\ TypeOK /\ Control /\ [Next]_vars => SentState'
  <2> SUFFICES ASSUME SentState, TypeOK, Control, [Next]_vars PROVE SentState'
    OBVIOUS
  <2>0. /\ 0 \in 0..N
        /\ \A n \in {begun, done, undoing} : n \in 0..N
        /\ done < N => done + 1 \in 0..N
    BY DEF TypeOK
  <2>1. CASE /\ UNCHANGED events /\ UNCHANGED <<failed, begun, cleanupErrors>>
             /\ \/ pc' = pc
                \/ pc \notin Stopped /\ pc' # "exited" /\ (pc = "unwinding" \/ ~failed)
                \/ pc' = "dead"
    <3>1. Sent' = Sent
      BY <2>1, SentSame
    <3>2. QED
      BY <2>1, <3>1 DEF SentState, Stopped
  <2>2. ASSUME pc \in Preparing, UNCHANGED <<failed, begun, cleanupErrors>>,
               \/ UNCHANGED events /\ pc' \notin {"exited"}
               \/ Reject
               \/ Emit(Event("Started", 0), "revalidating", -1)
        PROVE  SentState'
    <3>1. ~failed /\ cleanupErrors = {} /\ pc \notin Stopped
      BY <2>2 DEF Control, Clean, Preparing, Stopped
    <3>2. CASE UNCHANGED events /\ pc' \notin {"exited"}
      BY <2>1, <2>2, <3>1, <3>2
    <3>3. CASE Reject
      <4>1. \/ pc' = "exited"
            \/ pc' = "dead"
        BY <3>3, <2>0, KindsListed, EmitSends DEF Reject
      <4>2. QED
        BY <2>2, <3>1, <4>1 DEF SentState, Stopped
    <3>4. CASE Emit(Event("Started", 0), "revalidating", -1)
      <4>1. Sent' = Sent \cup {Event("Started", 0)} \/ Sent' = Sent
        BY <3>4, <2>0, KindsListed, EmitSends
      <4>2. Event("Started", 0).kind \notin Terminal
        BY <2>0, KindsListed, Events DEF Terminal
      <4>3. QED
        BY <2>2, <3>1, <4>1, <4>2 DEF SentState, Stopped
    <3>5. QED
      BY <2>2, <3>2, <3>3, <3>4
  <2>3. CASE BeginOperation
    <3>1. /\ pc = "looping" /\ ~failed /\ cleanupErrors = {} /\ done < N
          /\ UNCHANGED <<failed, cleanupErrors>>
      BY <2>3 DEF BeginOperation, Control, Clean
    <3>2. Emit(Event("Step", done + 1), "performing", -1)
      BY <2>3 DEF BeginOperation
    <3>3. Sent' = Sent \cup {Event("Step", done + 1)} \/ Sent' = Sent
      BY <3>1, <3>2, <2>0, KindsListed, EmitSends
    <3>4. Event("Step", done + 1).kind \notin Terminal
      BY <3>1, <2>0, KindsListed, Events DEF Terminal
    <3>5. QED
      BY <3>1, <3>3, <3>4 DEF SentState, Stopped
  <2>4. CASE ObserveCancel \/ FinishLoop
    BY <2>1, <2>4 DEF ObserveCancel, FinishLoop, BeginUnwind, Continue, Stopped, Control, Clean
  <2>5. CASE PerformOk
    BY <2>1, <2>5 DEF PerformOk, Continue, Stopped, Control, Clean
  <2>6. CASE PerformFails
    <3>1. /\ pc = "performing" /\ ~failed /\ cleanupErrors = {} /\ done < N
          /\ begun = done + 1 /\ failed' /\ UNCHANGED <<begun, cleanupErrors>>
      BY <2>6 DEF PerformFails, Control, Clean
    <3>2. Event("Failed", done + 1) \in EventType /\ Event("Failed", done + 1).op = begun
          /\ Event("Failed", done + 1).kind = "Failed"
      BY <3>1, <2>0, KindsListed, Events
    <3>3. CASE listening
      <4>1. events' = Append(events, Event("Failed", done + 1))
        BY <2>6, <3>3 DEF PerformFails
      <4>2. events \in Seq(EventType)
        BY DEF TypeOK
      <4>3. Sent' = Sent \cup {Event("Failed", begun)}
        BY <3>1, <3>2, <4>1, <4>2, SentAppend
      <4>4. QED
        BY <3>1, <3>2, <4>3 DEF SentState, Stopped, Terminal
    <3>4. CASE ~listening
      <4>1. pc' = "dead" /\ Sent' = Sent
        BY <2>6, <3>4, SentSame DEF PerformFails
      <4>2. QED
        BY <3>1, <4>1 DEF SentState, Stopped, Terminal
    <3>5. QED
      BY <3>3, <3>4 DEF TypeOK
  <2>7. CASE UndoNothing \/ UndoUnmounts
    BY <2>1, <2>7 DEF UndoNothing, UndoUnmounts
  <2>8. CASE UndoFails
    <3>1. pc = "unwinding" /\ UNCHANGED <<begun, failed>>
      BY <2>8 DEF UndoFails
    <3>2. Emit(Event("Warning", undoing), "unwinding", -1)
      BY <2>8 DEF UndoFails
    <3>3. Event("Warning", undoing).kind = "Warning"
      BY <2>0, KindsListed, Events
    <3>4. \/ /\ listening /\ Sent' = Sent \cup {Event("Warning", undoing)} /\ pc' = "unwinding"
             /\ cleanupErrors' = cleanupErrors \cup {undoing}
          \/ /\ ~listening /\ Sent' = Sent /\ pc' = "dead"
             /\ cleanupErrors' = cleanupErrors
      BY <2>8, <3>2, <2>0, KindsListed, EmitSends DEF UndoFails
    <3>5. QED
      BY <3>1, <3>3, <3>4 DEF SentState, Stopped, Terminal
  <2>9. CASE Conclude
    <3>1. pc = "unwinding" /\ UNCHANGED <<begun, failed, cleanupErrors>>
      BY <2>9 DEF Conclude, progressVars
    <3>2. CASE UNCHANGED events /\ pc' = "exited"
      <4>1. Sent' = Sent
        BY <3>2, SentSame
      <4>2. QED
        BY <3>1, <3>2, <4>1 DEF SentState, Stopped
    <3>3. CASE ~failed /\ Emit(Event("Failed", 0), "exited", 1)
      <4>1. /\ pc' \in {"exited", "dead"}
            /\ Sent' = Sent \cup {Event("Failed", 0)} \/ Sent' = Sent
        BY <3>3, <2>0, KindsListed, EmitSends
      <4>2. QED
        BY <3>1, <3>3, <4>1 DEF SentState, Stopped
    <3>4. CASE ~failed /\ Emit(Event("Completed", 0), "exited", 0)
      <4>1. /\ pc' \in {"exited", "dead"}
            /\ Sent' = Sent \cup {Event("Completed", 0)} \/ Sent' = Sent
        BY <3>4, <2>0, KindsListed, EmitSends
      <4>2. QED
        BY <3>1, <3>4, <4>1 DEF SentState, Stopped
    <3>5. QED
      BY <2>9, <3>2, <3>3, <3>4 DEF Conclude
  <2>10. CASE ReadRequest
    <3>1. /\ UNCHANGED <<events, failed, begun, cleanupErrors>>
          /\ ~failed /\ ~failed' /\ cleanupErrors = {} /\ pc \notin Stopped
      BY <2>10 DEF ReadRequest, Continue, Control, Clean, Preparing, Stopped, progressVars
    <3>2. Sent' = Sent
      BY <3>1, SentSame
    <3>3. QED
      BY <3>1, <3>2 DEF SentState
  <2>11. CASE ValidateConfig \/ CheckBinaries \/ Discover \/ Translate \/ Revalidate \/ Start
    <3>1. pc \in Preparing /\ UNCHANGED <<failed, begun, cleanupErrors>>
      BY <2>11 DEF ValidateConfig, CheckBinaries, Discover, Translate, Revalidate, Start,
         Preparing, progressVars
    <3>2. \/ UNCHANGED events /\ pc' \notin {"exited"}
          \/ Reject
          \/ Emit(Event("Started", 0), "revalidating", -1)
      BY <2>11 DEF ValidateConfig, CheckBinaries, Discover, Translate, Revalidate, Start,
         Continue
    <3>3. QED
      BY <2>2, <3>1, <3>2
  <2>12. CASE ReceiveCancel \/ ReaderGone \/ Ended \/ UNCHANGED vars
    <3>1. UNCHANGED <<pc, events, failed, begun, cleanupErrors>>
      BY <2>12 DEF ReceiveCancel, ReaderGone, Ended, vars, progressVars
    <3>2. Sent' = Sent
      BY <3>1, SentSame
    <3>3. QED
      BY <3>1, <3>2 DEF SentState
  <2>13. CASE Killed
    BY <2>1, <2>13 DEF Killed, progressVars
  <2>14. QED
    BY <2>3, <2>4, <2>5, <2>6, <2>7, <2>8, <2>9, <2>10, <2>11, <2>12, <2>13 DEF Next, Service
<1>3. QED
  BY <1>1, <1>2, TypeCorrect, PTL DEF Spec

-----------------------------------------------------------------------------
(* How the run ended, and what the last event says of it.                  *)
SentKind(kind) == \E e \in Sent : e.kind = kind

Outcome ==
  /\ pc \notin Stopped => exit = -1
  /\ pc = "exited" => exit \in {0, 1, 2}
  /\ pc = "dead" => exit \in {101, 137}
  /\ SentKind("Completed") => pc = "exited" /\ exit = 0 /\ done = N /\ mounted = {} /\ Clean
  /\ exit = 0 => SentKind("Completed")
  /\ exit = 1 => SentKind("Failed") \/ (cancelled /\ mounted = {} /\ leaked = {})
  /\ exit = 2 => mounted = {} /\ leaked = {}
  /\ cancel => begun = cancelAt

(* A kind was emitted exactly when a sent event has it.                     *)
LEMMA SentKinds ==
  /\ \A kind : Emitted(kind) <=> SentKind(kind)
  /\ \A kind, op : EmittedAbout(kind, op) <=> Event(kind, op) \in Sent
  BY DEF Emitted, EmittedAbout, SentKind, Sent

(* The inductive invariant of the result: how execute's last branch relates *)
(* status, terminal event, cancellation and what is still mounted.         *)
THEOREM OutcomeCorrect == Spec => []Outcome
<1> USE NatN
<1>1. Init => Outcome
  BY DEF Init, Outcome, SentKind, Sent, Stopped
<1>2. Outcome /\ SentState /\ MountState /\ TypeOK /\ Control /\ [Next]_vars => Outcome'
  <2> SUFFICES ASSUME Outcome, SentState, MountState, TypeOK, Control, [Next]_vars
               PROVE  Outcome'
    OBVIOUS
  <2>0. /\ 0 \in 0..N
        /\ \A n \in {begun, done, undoing} : n \in 0..N
        /\ done < N => done + 1 \in 0..N
    BY DEF TypeOK
  <2>1. CASE UNCHANGED <<pc, exit, events, done, mounted, leaked, failed, cancelled,
                         cleanupErrors, begun, cancel, cancelAt>>
    <3>1. Sent' = Sent
      BY <2>1, SentSame
    <3>2. QED
      BY <2>1, <3>1 DEF Outcome, SentKind, Clean
  <2>2. CASE Ended \/ UNCHANGED vars \/ ReaderGone
    BY <2>1, <2>2 DEF Ended, ReaderGone, vars, progressVars
  <2>3. ASSUME pc \notin Stopped PROVE ~SentKind("Completed") /\ exit = -1
    BY <2>3 DEF Outcome
  (* A step that stays among the running states writes no terminal event.  *)
  <2>4. ASSUME pc \notin Stopped, pc' \notin Stopped, exit' = exit,
               Sent' = Sent \/ \E k \in {"Started", "Step", "Warning", "Failed"}, op \in 0..N :
                                  Sent' = Sent \cup {Event(k, op)},
               cancel' => begun' = cancelAt'
        PROVE  Outcome'
    <3>1. \A k \in {"Started", "Step", "Warning", "Failed"}, op \in 0..N :
            Event(k, op).kind # "Completed"
      BY Events, KindsListed
    <3>2. ~SentKind("Completed")'
      BY <2>3, <2>4, <3>1 DEF SentKind
    <3>3. QED
      BY <2>3, <2>4, <3>2 DEF Outcome, Stopped
  (* A step on which the process dies writes nothing.                      *)
  <2>5. ASSUME pc \notin Stopped, pc' = "dead", exit' \in {101, 137}, UNCHANGED events,
               UNCHANGED <<cancel, cancelAt, begun>>
        PROVE  Outcome'
    <3>1. Sent' = Sent
      BY <2>5, SentSame
    <3>2. ~SentKind("Completed")'
      BY <2>3, <2>5, <3>1 DEF SentKind
    <3>3. QED
      BY <2>5, <3>2 DEF Outcome, Stopped
  <2>6. ASSUME pc \notin Stopped, Reject, UNCHANGED <<cancel, cancelAt, begun>>
        PROVE  Outcome'
    <3>1. CASE listening
      <4>1. /\ Sent' = Sent \cup {Event("Failed", 0)} /\ pc' = "exited" /\ exit' = 1
        BY <2>6, <3>1, <2>0, KindsListed, EmitSends DEF Reject
      <4>2. Event("Failed", 0).kind = "Failed"
        BY <2>0, KindsListed, Events
      <4>3. SentKind("Failed")' /\ ~SentKind("Completed")'
        BY <2>3, <2>6, <4>1, <4>2 DEF SentKind
      <4>4. QED
        BY <2>6, <4>1, <4>3 DEF Outcome, Stopped
    <3>2. CASE ~listening
      BY <2>5, <2>6, <3>2 DEF Reject, Emit
    <3>3. QED
      BY <3>1, <3>2 DEF TypeOK
  <2>7. CASE ReadRequest
    <3>1. pc \notin Stopped /\ UNCHANGED <<events, cancel, cancelAt, begun, mounted, leaked>>
          /\ mounted = {} /\ leaked = {}
      BY <2>7 DEF ReadRequest, Continue, progressVars, Control, Clean, Preparing, Stopped
    <3>2. Sent' = Sent
      BY <3>1, SentSame
    <3>3. \/ pc' = "validating" /\ exit' = exit
          \/ pc' = "exited" /\ exit' = 2
      BY <2>7 DEF ReadRequest, Continue
    <3>4. ~SentKind("Completed")' /\ exit = -1
      BY <2>3, <3>1, <3>2 DEF SentKind
    <3>5. QED
      BY <3>1, <3>3, <3>4 DEF Outcome, Stopped
  <2>8. CASE ValidateConfig \/ CheckBinaries \/ Discover \/ Translate \/ Revalidate
    <3>1. pc \notin Stopped /\ UNCHANGED <<cancel, cancelAt, begun>>
      BY <2>8 DEF ValidateConfig, CheckBinaries, Discover, Translate, Revalidate, inputVars,
         progressVars, Stopped
    <3>2. Reject \/ (pc' \notin Stopped /\ exit' = exit /\ UNCHANGED events)
      BY <2>8 DEF ValidateConfig, CheckBinaries, Discover, Translate, Revalidate, Continue,
         Stopped
    <3>3. UNCHANGED events => Sent' = Sent
      BY SentSame
    <3>4. QED
      BY <2>4, <2>6, <3>1, <3>2, <3>3 DEF Outcome
  <2>9. CASE Start
    <3>1. pc \notin Stopped /\ UNCHANGED <<cancel, cancelAt, begun>>
          /\ Emit(Event("Started", 0), "revalidating", -1)
      BY <2>9 DEF Start, inputVars, progressVars, Stopped
    <3>2. \/ Sent' = Sent \cup {Event("Started", 0)} /\ pc' = "revalidating" /\ exit' = -1
          \/ UNCHANGED events /\ pc' = "dead" /\ exit' = 101
      BY <3>1, <2>0, KindsListed, EmitSends DEF Emit
    <3>3. QED
      BY <2>0, <2>3, <2>4, <2>5, <3>1, <3>2 DEF Outcome, Stopped
  <2>10. CASE BeginOperation
    <3>1. /\ pc \notin Stopped /\ UNCHANGED <<cancel, cancelAt>> /\ done < N /\ ~cancel
          /\ Emit(Event("Step", done + 1), "performing", -1)
          /\ ~listening => begun' = begun
      BY <2>10 DEF BeginOperation, inputVars, Stopped
    <3>2. \/ Sent' = Sent \cup {Event("Step", done + 1)} /\ pc' = "performing" /\ exit' = -1
          \/ UNCHANGED events /\ pc' = "dead" /\ exit' = 101 /\ begun' = begun
      BY <3>1, <2>0, KindsListed, EmitSends DEF Emit
    <3>3. QED
      BY <2>0, <2>3, <2>4, <2>5, <3>1, <3>2 DEF Stopped
  <2>11. CASE ObserveCancel \/ FinishLoop \/ PerformOk \/ UndoNothing \/ UndoUnmounts
    <3>1. /\ pc \notin Stopped /\ pc' \notin Stopped
          /\ UNCHANGED <<cancel, cancelAt, begun>> /\ UNCHANGED <<events, exit>>
      BY <2>11 DEF ObserveCancel, FinishLoop, PerformOk, UndoNothing, UndoUnmounts, BeginUnwind,
         Continue, inputVars, Stopped
    <3>2. Sent' = Sent
      BY <3>1, SentSame
    <3>3. QED
      BY <2>4, <3>1, <3>2 DEF Outcome
  <2>12. CASE PerformFails
    <3>1. pc \notin Stopped /\ UNCHANGED <<cancel, cancelAt, begun>> /\ done + 1 \in 0..N
      BY <2>0, <2>12 DEF PerformFails, inputVars, Stopped, Control
    <3>2. \/ UNCHANGED events /\ pc' = "dead" /\ exit' = 101
          \/ events' = Append(events, Event("Failed", done + 1)) /\ pc' = "unwinding"
             /\ exit' = exit
      BY <2>12 DEF PerformFails
    <3>3. events \in Seq(EventType) /\ Event("Failed", done + 1) \in EventType
      BY <3>1, Events, KindsListed DEF TypeOK
    <3>4. events' = Append(events, Event("Failed", done + 1)) =>
            Sent' = Sent \cup {Event("Failed", done + 1)}
      BY <3>3, SentAppend
    <3>5. QED
      BY <2>4, <2>5, <3>1, <3>2, <3>4 DEF Outcome, Stopped
  <2>13. CASE UndoFails
    <3>1. /\ pc \notin Stopped /\ UNCHANGED <<cancel, cancelAt, begun>>
          /\ Emit(Event("Warning", undoing), "unwinding", -1)
      BY <2>13 DEF UndoFails, inputVars, Stopped
    <3>2. \/ Sent' = Sent \cup {Event("Warning", undoing)} /\ pc' = "unwinding" /\ exit' = -1
          \/ UNCHANGED events /\ pc' = "dead" /\ exit' = 101
      BY <3>1, <2>0, KindsListed, EmitSends DEF Emit
    <3>3. QED
      BY <2>0, <2>3, <2>4, <2>5, <3>1, <3>2 DEF Outcome, Stopped
  <2>14. CASE Conclude
    <3>1. /\ pc = "unwinding" /\ undoing = 0 /\ pc \notin Stopped
          /\ UNCHANGED <<cancel, cancelAt, begun>>
          /\ UNCHANGED <<done, mounted, leaked, failed, cancelled, cleanupErrors>>
      BY <2>14 DEF Conclude, inputVars, progressVars, Stopped
    <3>2. ~failed => leaked = {}
      BY DEF Control
    <3>3. cleanupErrors = {} => mounted = {}
      BY <3>1 DEF MountState, TypeOK
    <3>4. CASE failed /\ pc' = "exited" /\ exit' = 1 /\ UNCHANGED events
      <4>1. Sent' = Sent
        BY <3>4, SentSame
      <4>2. Event("Failed", begun) \in Sent /\ Event("Failed", begun).kind = "Failed"
        BY <2>0, <3>1, <3>4, Events, KindsListed DEF SentState
      <4>3. SentKind("Failed")' /\ ~SentKind("Completed")'
        BY <2>3, <3>1, <4>1, <4>2 DEF SentKind
      <4>4. QED
        BY <3>1, <3>4, <4>3 DEF Outcome, Stopped
    <3>5. CASE Emit(Event("Failed", 0), "exited", 1)
      BY <2>6, <3>1, <3>5 DEF Reject
    <3>6. CASE /\ ~failed /\ cleanupErrors = {} /\ cancelled
               /\ pc' = "exited" /\ exit' = 1 /\ UNCHANGED events
      <4>1. Sent' = Sent
        BY <3>6, SentSame
      <4>2. ~SentKind("Completed")'
        BY <2>3, <3>1, <4>1 DEF SentKind
      <4>3. QED
        BY <3>1, <3>2, <3>3, <3>6, <4>2 DEF Outcome, Stopped
    <3>7. CASE /\ ~failed /\ cleanupErrors = {} /\ ~cancelled
               /\ Emit(Event("Completed", 0), "exited", 0)
      <4>1. done = N /\ mounted = {} /\ Clean
        BY <3>1, <3>2, <3>3, <3>7 DEF Control, Clean
      <4>2. \/ Sent' = Sent \cup {Event("Completed", 0)} /\ pc' = "exited" /\ exit' = 0
            \/ UNCHANGED events /\ pc' = "dead" /\ exit' = 101
        BY <3>7, <2>0, KindsListed, EmitSends DEF Emit
      <4>3. CASE Sent' = Sent \cup {Event("Completed", 0)} /\ pc' = "exited" /\ exit' = 0
        <5>1. Event("Completed", 0).kind = "Completed"
          BY <2>0, KindsListed, Events
        <5>2. SentKind("Completed")'
          BY <4>3, <5>1 DEF SentKind
        <5>3. (done = N /\ mounted = {} /\ Clean)'
          BY <3>1, <4>1 DEF Clean
        <5>4. QED
          BY <3>1, <4>3, <5>2, <5>3 DEF Outcome, Stopped
      <4>4. QED
        BY <2>5, <3>1, <4>2, <4>3
    <3>8. QED
      BY <2>14, <3>4, <3>5, <3>6, <3>7 DEF Conclude
  <2>15. CASE ReceiveCancel
    <3>1. /\ pc \notin Stopped /\ UNCHANGED <<pc, exit, events>>
          /\ begun' = begun /\ cancelAt' = begun
      BY <2>15 DEF ReceiveCancel, progressVars, Preparing, Working, Stopped
    <3>2. Sent' = Sent
      BY <3>1, SentSame
    <3>3. QED
      BY <2>4, <3>1, <3>2
  <2>16. CASE Killed
    <3>1. pc \notin Stopped /\ pc' = "dead" /\ exit' = 137 /\ UNCHANGED events
          /\ UNCHANGED <<cancel, cancelAt, begun>>
      BY <2>16 DEF Killed, inputVars, progressVars
    <3>2. QED
      BY <2>5, <3>1
  <2>17. QED
    BY <2>2, <2>7, <2>8, <2>9, <2>10, <2>11, <2>12, <2>13, <2>14, <2>15, <2>16 DEF Next, Service
<1>3. QED
  BY <1>1, <1>2, TypeCorrect, MountsCorrect, SentCorrect, PTL DEF Spec

(* A published Completed means the whole sequence ran and nothing is left. *)
THEOREM CompletionHolds == Spec => []CompletedIsClean
<1>1. Outcome => CompletedIsClean
  BY SentKinds DEF Outcome, CompletedIsClean, Clean
<1>2. QED
  BY <1>1, OutcomeCorrect, PTL

(* After a cancellation no operation is entered, and unless the last one   *)
(* was already running the run does not end in Completed.                  *)
THEOREM CancellationHolds == Spec => []CancelIsHonoured
<1>1. TypeOK /\ Control /\ Outcome => CancelIsHonoured
  <2> SUFFICES ASSUME TypeOK, Control, Outcome, cancel
               PROVE  begun = cancelAt /\ (cancelAt < N => ~Emitted("Completed"))
    BY DEF CancelIsHonoured
  <2>1. begun = cancelAt
    BY DEF Outcome
  <2>2. Emitted("Completed") => done = N
    BY SentKinds DEF Outcome
  <2>3. done <= begun
    BY DEF Control
  <2>4. QED
    BY <2>1, <2>2, <2>3, NatN DEF TypeOK
<1>2. QED
  BY <1>1, TypeCorrect, OutcomeCorrect, PTL

(* The exit status agrees with what was written.                           *)
THEOREM StatusHolds == Spec => []StatusAgreesWithEvents
<1>1. Outcome => StatusAgreesWithEvents
  BY SentKinds DEF Outcome, StatusAgreesWithEvents
<1>2. QED
  BY <1>1, OutcomeCorrect, PTL

(* The failure of an operation is never replaced by that of the cleanup.   *)
THEOREM PrimaryFailureHolds == Spec => []FailureStaysPrimary
<1>1. Control /\ SentState => FailureStaysPrimary
  BY DEF Control, SentState, Sent, FailureStaysPrimary
<1>2. QED
  BY <1>1, TypeCorrect, SentCorrect, PTL

(* A service that exits has named everything it leaves mounted.            *)
THEOREM ReportingHolds == Spec => []LeaksAreReported
<1>1. TypeOK /\ Control /\ MountState /\ SentState /\ Outcome => LeaksAreReported
  <2> SUFFICES ASSUME TypeOK, Control, MountState, SentState, Outcome, pc = "exited"
               PROVE  /\ \A m \in mounted : EmittedAbout("Warning", m)
                      /\ \A s \in leaked : EmittedAbout("Failed", s)
                      /\ mounted \cup leaked # {} => exit = 1 /\ Emitted("Failed")
    BY DEF LeaksAreReported
  <2>1. \A m \in mounted : EmittedAbout("Warning", m)
    BY SentKinds DEF MountState, SentState
  <2>2. \A s \in leaked : s = begun /\ failed
    BY DEF Control
  <2>3. \A s \in leaked : EmittedAbout("Failed", s)
    BY <2>2, SentKinds DEF SentState
  <2>4. mounted \cup leaked # {} => exit = 1 /\ Emitted("Failed")
    BY SentKinds DEF Outcome, Clean
  <2>5. QED
    BY <2>1, <2>3, <2>4
<1>2. QED
  BY <1>1, TypeCorrect, MountsCorrect, SentCorrect, OutcomeCorrect, PTL

-----------------------------------------------------------------------------
(* The order of the stream.                                                *)
LEMMA OrderKept ==
  ASSUME OneTerminalEvent, events \in Seq(EventType),
         NEW e \in EventType, events' = Append(events, e),
         \/ \A x \in Sent : x.kind \notin Terminal
         \/ e.kind = "Warning" /\ \A x \in Sent : x.kind # "Completed"
  PROVE  OneTerminalEvent'
<1>1. /\ DOMAIN events' = 1..(Len(events) + 1) /\ DOMAIN events = 1..Len(events)
      /\ Len(events) \in Nat
      /\ \A i \in 1..Len(events) : events'[i] = events[i]
      /\ events'[Len(events) + 1] = e
  OBVIOUS
<1> SUFFICES ASSUME NEW i \in DOMAIN events', NEW j \in DOMAIN events', i < j,
                    events'[i].kind \in {"Failed", "Completed"}
             PROVE  events'[i].kind = "Failed" /\ events'[j].kind = "Warning"
  BY DEF OneTerminalEvent
<1>2. i \in DOMAIN events /\ events'[i] = events[i] /\ events[i] \in Sent
  BY <1>1 DEF Sent
<1>3. CASE j \in DOMAIN events
  BY <1>1, <1>2, <1>3 DEF OneTerminalEvent
<1>4. CASE j = Len(events) + 1
  BY <1>1, <1>2, <1>4 DEF Terminal
<1>5. QED
  BY <1>1, <1>3, <1>4

(* One terminal event, and after it only the warnings of the unwind.       *)
THEOREM StreamHolds == Spec => []OneTerminalEvent
<1> USE NatN
<1>1. Init => OneTerminalEvent
  BY DEF Init, OneTerminalEvent
<1>2. OneTerminalEvent /\ SentState /\ Outcome /\ TypeOK /\ Control /\ [Next]_vars
        => OneTerminalEvent'
  <2> SUFFICES ASSUME OneTerminalEvent, SentState, Outcome, TypeOK, Control, [Next]_vars
               PROVE  OneTerminalEvent'
    OBVIOUS
  <2>0. events \in Seq(EventType) /\ 0 \in 0..N /\ undoing \in 0..N
    BY DEF TypeOK
  <2>1. ASSUME UNCHANGED events PROVE OneTerminalEvent'
    BY <2>1 DEF OneTerminalEvent
  <2>2. ASSUME NEW k \in Kinds, NEW op \in 0..N, NEW next, NEW status, pc \notin Stopped,
               ~failed \/ k = "Warning", Emit(Event(k, op), next, status)
        PROVE  OneTerminalEvent'
    <3>1. Event(k, op) \in EventType /\ Event(k, op).kind = k
      BY Events
    <3>2. \/ \A x \in Sent : x.kind \notin Terminal
          \/ k = "Warning" /\ \A x \in Sent : x.kind # "Completed"
      BY <2>2 DEF SentState
    <3>3. UNCHANGED events \/ events' = Append(events, Event(k, op))
      BY <2>2 DEF Emit
    <3>4. QED
      BY <2>0, <2>1, <3>1, <3>2, <3>3, OrderKept
  <2>3. ASSUME pc \notin Stopped, ~failed, Reject PROVE OneTerminalEvent'
    BY <2>0, <2>2, <2>3, KindsListed DEF Reject
  <2>4. CASE ValidateConfig \/ CheckBinaries \/ Discover \/ Translate \/ Revalidate
    <3>1. pc \notin Stopped /\ ~failed /\ (Reject \/ UNCHANGED events)
      BY <2>4 DEF ValidateConfig, CheckBinaries, Discover, Translate, Revalidate, Continue,
         Control, Clean, Preparing, Stopped
    <3>2. QED
      BY <2>1, <2>3, <3>1
  <2>5. CASE Start
    <3>1. pc \notin Stopped /\ ~failed /\ Emit(Event("Started", 0), "revalidating", -1)
      BY <2>5 DEF Start, Control, Clean, Preparing, Stopped
    <3>2. QED
      BY <2>0, <2>2, <3>1, KindsListed
  <2>6. CASE BeginOperation
    <3>1. /\ pc \notin Stopped /\ ~failed /\ done + 1 \in 0..N
          /\ Emit(Event("Step", done + 1), "performing", -1)
      BY <2>6 DEF BeginOperation, Control, Clean, Stopped, TypeOK
    <3>2. QED
      BY <2>2, <3>1, KindsListed
  <2>7. CASE PerformFails
    <3>1. pc \notin Stopped /\ ~failed /\ done + 1 \in 0..N
      BY <2>7 DEF PerformFails, Control, Clean, Stopped, TypeOK
    <3>2. UNCHANGED events \/ events' = Append(events, Event("Failed", done + 1))
      BY <2>7 DEF PerformFails
    <3>3. Event("Failed", done + 1) \in EventType
      BY <3>1, Events, KindsListed
    <3>4. \A x \in Sent : x.kind \notin Terminal
      BY <3>1 DEF SentState
    <3>5. QED
      BY <2>0, <2>1, <3>2, <3>3, <3>4, OrderKept
  <2>8. CASE UndoFails
    <3>1. pc \notin Stopped /\ Emit(Event("Warning", undoing), "unwinding", -1)
      BY <2>8 DEF UndoFails, Stopped
    <3>2. QED
      BY <2>0, <2>2, <3>1, KindsListed
  <2>9. CASE Conclude
    <3>1. /\ pc \notin Stopped
          /\ \/ UNCHANGED events
             \/ ~failed /\ Reject
             \/ ~failed /\ Emit(Event("Completed", 0), "exited", 0)
      BY <2>9 DEF Conclude, Reject, Stopped
    <3>2. QED
      BY <2>0, <2>1, <2>2, <2>3, <3>1, KindsListed
  <2>10. CASE \/ ReadRequest \/ ObserveCancel \/ FinishLoop \/ PerformOk \/ UndoNothing
              \/ UndoUnmounts \/ ReceiveCancel \/ ReaderGone \/ Killed \/ Ended
              \/ UNCHANGED vars
    <3>1. UNCHANGED events
      BY <2>10 DEF ReadRequest, ObserveCancel, FinishLoop, PerformOk, UndoNothing, UndoUnmounts,
         ReceiveCancel, ReaderGone, Killed, Ended, BeginUnwind, Continue, vars
    <3>2. QED
      BY <2>1, <3>1
  <2>11. QED
    BY <2>4, <2>5, <2>6, <2>7, <2>8, <2>9, <2>10 DEF Next, Service
<1>3. QED
  BY <1>1, <1>2, TypeCorrect, SentCorrect, OutcomeCorrect, PTL DEF Spec

(* The four together: what the service says is what happened.              *)
THEOREM VerdictHolds == Spec => []VerdictIsHonest
<1>1. OneTerminalEvent /\ CompletedIsClean /\ FailureStaysPrimary /\ StatusAgreesWithEvents
        => VerdictIsHonest
  BY DEF VerdictIsHonest
<1>2. QED
  BY <1>1, StreamHolds, CompletionHolds, PrimaryFailureHolds, StatusHolds, PTL
=============================================================================
