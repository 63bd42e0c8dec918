--------------------------- MODULE ExecutionEngine ---------------------------
(***************************************************************************)
(* The privileged installer service: lyra-installer-service (main.rs) from *)
(* the request line on stdin to its exit status, with the execution engine *)
(* (engine.rs: revalidate, run the operations in order, unwind in reverse) *)
(* inside it.  An operation is its position in the sequence build()        *)
(* returned; what matters of it here is whether its undo is an umount,     *)
(* which other mounts lie under its mount point, and whether it holds a    *)
(* temporary mount of its own while it runs.                               *)
(***************************************************************************)
EXTENDS Integers, Sequences

CONSTANTS
  N,           \* number of operations build() returned, SyncAndFinish included
  Mounts,      \* the positions whose undo is an umount (MountSubvolume, MountEsp, BindMount...)
  Under,       \* Under[m]: the mounts whose mount point lies below m's
  Staging,     \* the positions that mount a staging path while they run (CreateSubvolumes)
  Plans,       \* install plans
  Blocked,     \* what PlanBuilder answers when the choice is not possible
  Disks,       \* storage states the discovery may report
  PlanOf,      \* PlanOf[d]: PlanBuilder::build of the request's choice on snapshot d
  Executable,  \* the plans build() can translate (whole disk, no RAID or LVM)
  NoRequest,   \* an empty or malformed first line
  NoDisk       \* no snapshot taken, or the discovery failed

(* plan_to_operations sorts the mounts by depth, so whatever is mounted    *)
(* under a mount point comes later in the sequence.                        *)
ASSUME ConstantsAssumption ==
  /\ N \in Nat
  /\ Mounts \subseteq 1..N
  /\ Under \in [Mounts -> SUBSET Mounts]
  /\ \A m \in Mounts : \A c \in Under[m] : m < c
  /\ Staging \subseteq (1..N) \ Mounts
  /\ PlanOf \in [Disks -> Plans \cup {Blocked}]
  /\ Blocked \notin Plans
  /\ Executable \subseteq Plans
  /\ NoDisk \notin Disks

Requests == [config : BOOLEAN, schema : BOOLEAN, plan : Plans]

ASSUME NoRequestAssumption == NoRequest \notin Requests

VARIABLES
  pc,          \* where the main thread is
  listening,   \* the frontend still holds the read end of stdout
  cancel,      \* the AtomicBool the control thread sets
  request,     \* the request line that was read
  snapshot,    \* the storage state read by this process
  begun,       \* operations whose perform was entered
  done,        \* operations in `completed`: 1..done
  undoing,     \* the unwind still has to visit 1..undoing
  mounted,     \* mounts of completed operations that are still in place
  leaked,      \* operations whose staging mount is still in place
  failed,      \* the loop ended with a failing operation
  cancelled,   \* the loop ended because of `cancel`
  cleanupErrors, \* operations whose undo failed
  events,      \* the lines written to stdout
  exit,        \* exit status, -1 while running
  cancelAt     \* history: `begun` when the cancellation was stored, -1 before

vars == <<pc, listening, cancel, request, snapshot, begun, done, undoing, mounted,
          leaked, failed, cancelled, cleanupErrors, events, exit, cancelAt>>

progressVars == <<begun, done, undoing, mounted, leaked, failed, cancelled, cleanupErrors>>
inputVars == <<request, snapshot, cancel, cancelAt, listening>>

-----------------------------------------------------------------------------
Preparing == {"reading", "validating", "preflight", "discovering", "translating",
              "starting", "revalidating"}
Working == {"looping", "performing", "unwinding"}
Stopped == {"exited", "dead"}

Event(kind, op) == [kind |-> kind, op |-> op]   \* op 0: not about one operation
Kinds == {"Started", "Step", "Warning", "Failed", "Completed"}
EventType == [kind : Kinds, op : 0..N]

TypeOK ==
  /\ pc \in Preparing \cup Working \cup Stopped
  /\ listening \in BOOLEAN
  /\ cancel \in BOOLEAN
  /\ request \in Requests \cup {NoRequest}
  /\ snapshot \in Disks \cup {NoDisk}
  /\ begun \in 0..N
  /\ done \in 0..N
  /\ undoing \in 0..N
  /\ mounted \subseteq Mounts
  /\ leaked \subseteq Staging
  /\ failed \in BOOLEAN
  /\ cancelled \in BOOLEAN
  /\ cleanupErrors \subseteq Mounts
  /\ events \in Seq(EventType)
  /\ exit \in {-1, 0, 1, 2, 101, 137}
  /\ cancelAt \in -1..N

Init ==
  /\ pc = "reading"
  /\ listening = TRUE
  /\ cancel = FALSE
  /\ request = NoRequest
  /\ snapshot = NoDisk
  /\ begun = 0 /\ done = 0 /\ undoing = 0
  /\ mounted = {} /\ leaked = {}
  /\ failed = FALSE /\ cancelled = FALSE
  /\ cleanupErrors = {}
  /\ events = <<>>
  /\ exit = -1
  /\ cancelAt = -1

-----------------------------------------------------------------------------
(* emit is println!, which panics once nobody reads the pipe: the process  *)
(* ends there, with status 101 and without unwinding anything.             *)
Emit(event, next, status) ==
  \/ /\ listening
     /\ events' = Append(events, event)
     /\ pc' = next
     /\ exit' = status
  \/ /\ ~listening
     /\ pc' = "dead"
     /\ exit' = 101
     /\ UNCHANGED events

Continue(next) == pc' = next /\ UNCHANGED <<events, exit>>

(* Every rejection before the first operation emits Failed and exits 1.    *)
Reject == Emit(Event("Failed", 0), "exited", 1)

ReadRequest ==
  /\ pc = "reading"
  /\ \/ /\ request' \in Requests
        /\ Continue("validating")
     \/ /\ request' = NoRequest
        /\ pc' = "exited" /\ exit' = 2
        /\ UNCHANGED events
  /\ UNCHANGED <<snapshot, cancel, cancelAt, listening, progressVars>>

ValidateConfig ==
  /\ pc = "validating"
  /\ IF request.config THEN Continue("preflight") ELSE Reject
  /\ UNCHANGED <<inputVars, progressVars>>

(* The binaries of the allow-list may be missing from the live image.      *)
CheckBinaries ==
  /\ pc = "preflight"
  /\ Continue("discovering") \/ Reject
  /\ UNCHANGED <<inputVars, progressVars>>

Discover ==
  /\ pc = "discovering"
  /\ \/ snapshot' \in Disks /\ Continue("translating")
     \/ snapshot' = NoDisk /\ Reject
  /\ UNCHANGED <<request, cancel, cancelAt, listening, progressVars>>

Translate ==
  /\ pc = "translating"
  /\ IF request.plan \in Executable THEN Continue("starting") ELSE Reject
  /\ UNCHANGED <<inputVars, progressVars>>

Start ==
  /\ pc = "starting"
  /\ Emit(Event("Started", 0), "revalidating", -1)
  /\ UNCHANGED <<inputVars, progressVars>>

Confirmed == request.schema /\ request.config /\ PlanOf[snapshot] = request.plan

(* Slip: the plan rebuilt by this process is not compared with the request. *)
RevalidateWithoutComparing ==
  /\ pc = "revalidating"
  /\ IF request.schema /\ request.config THEN Continue("looping") ELSE Reject
  /\ UNCHANGED <<inputVars, progressVars>>

Revalidate ==
  /\ pc = "revalidating"
  /\ IF Confirmed THEN Continue("looping") ELSE Reject
  /\ UNCHANGED <<inputVars, progressVars>>

(* Slip: the unwind starts one operation short.                            *)
BeginUnwindOneShort ==
  /\ undoing' = IF done = 0 THEN 0 ELSE done - 1
  /\ Continue("unwinding")

BeginUnwind ==
  /\ undoing' = done
  /\ Continue("unwinding")

(* Slips: one operation too many; the loop never looks at `cancel`.        *)
BeginOperationPastTheEnd ==
  /\ pc = "looping"
  /\ done <= N
  /\ ~cancel
  /\ Continue("performing")
  /\ begun' = begun + 1
  /\ UNCHANGED <<inputVars, done, undoing, mounted, leaked, failed, cancelled, cleanupErrors>>

BeginOperationDeaf ==
  /\ pc = "looping"
  /\ done < N
  /\ Emit(Event("Step", done + 1), "performing", -1)
  /\ begun' = IF listening THEN begun + 1 ELSE begun
  /\ UNCHANGED <<inputVars, done, undoing, mounted, leaked, failed, cancelled, cleanupErrors>>

(* The loop head: cancellation is only looked at here, before announcing   *)
(* the next operation.                                                     *)
BeginOperation ==
  /\ pc = "looping"
  /\ done < N
  /\ ~cancel
  /\ Emit(Event("Step", done + 1), "performing", -1)
  /\ begun' = IF listening THEN begun + 1 ELSE begun
  /\ UNCHANGED <<inputVars, done, undoing, mounted, leaked, failed, cancelled, cleanupErrors>>

ObserveCancel ==
  /\ pc = "looping"
  /\ done < N
  /\ cancel
  /\ cancelled' = TRUE
  /\ BeginUnwind
  /\ UNCHANGED <<inputVars, begun, done, mounted, leaked, failed, cleanupErrors>>

(* Slip: a cancellation that arrived during the last operation is taken    *)
(* into account after the loop.                                            *)
FinishLoopLookingAgain ==
  /\ pc = "looping"
  /\ done = N
  /\ cancelled' = cancel
  /\ BeginUnwind
  /\ UNCHANGED <<inputVars, begun, done, mounted, leaked, failed, cleanupErrors>>

FinishLoop ==
  /\ pc = "looping"
  /\ done = N
  /\ BeginUnwind
  /\ UNCHANGED <<inputVars, begun, done, mounted, leaked, failed, cancelled, cleanupErrors>>

PerformOk ==
  /\ pc = "performing"
  /\ done' = done + 1
  /\ mounted' = mounted \cup ({done + 1} \cap Mounts)
  /\ Continue("looping")
  /\ UNCHANGED <<inputVars, begun, undoing, leaked, failed, cancelled, cleanupErrors>>

(* perform compensates its own partial work, except that the umount of a   *)
(* staging path may itself fail.  The operation is not in `completed`.     *)
PerformFails ==
  /\ pc = "performing"
  /\ failed' = TRUE
  /\ leaked' \in {leaked, leaked \cup ({done + 1} \cap Staging)}
  /\ \/ /\ listening
        /\ events' = Append(events, Event("Failed", done + 1))
        /\ undoing' = done
        /\ pc' = "unwinding"
        /\ UNCHANGED exit
     \/ /\ ~listening
        /\ pc' = "dead" /\ exit' = 101
        /\ UNCHANGED <<events, undoing>>
  /\ UNCHANGED <<inputVars, begun, done, mounted, cancelled, cleanupErrors>>

(* unwind visits `completed` backwards.  The default undo does nothing.    *)
UndoNothing ==
  /\ pc = "unwinding"
  /\ undoing > 0 /\ undoing \notin Mounts
  /\ undoing' = undoing - 1
  /\ UNCHANGED <<pc, events, exit, inputVars, begun, done, mounted, leaked, failed,
                 cancelled, cleanupErrors>>

Busy(m) == Under[m] \cap mounted # {}

(* Slip: umount --lazy detaches a mount point that is still in use.        *)
UndoUnmountsLazily ==
  /\ pc = "unwinding"
  /\ undoing > 0 /\ undoing \in Mounts
  /\ mounted' = mounted \ {undoing}
  /\ undoing' = undoing - 1
  /\ UNCHANGED <<pc, events, exit, inputVars, begun, done, leaked, failed,
                 cancelled, cleanupErrors>>

UndoUnmounts ==
  /\ pc = "unwinding"
  /\ undoing > 0 /\ undoing \in Mounts
  /\ ~Busy(undoing)
  /\ mounted' = mounted \ {undoing}
  /\ undoing' = undoing - 1
  /\ UNCHANGED <<pc, events, exit, inputVars, begun, done, leaked, failed,
                 cancelled, cleanupErrors>>

(* Slip: a failing undo is counted but not announced.                      *)
UndoFailsSilently ==
  /\ pc = "unwinding"
  /\ undoing > 0 /\ undoing \in Mounts
  /\ cleanupErrors' = cleanupErrors \cup {undoing}
  /\ undoing' = undoing - 1
  /\ UNCHANGED <<pc, events, exit, inputVars, begun, done, mounted, leaked, failed, cancelled>>

(* umount refuses a mount point with another mount under it, and may fail  *)
(* for any other user of the file system.  The unwind goes on.             *)
UndoFails ==
  /\ pc = "unwinding"
  /\ undoing > 0 /\ undoing \in Mounts
  /\ Emit(Event("Warning", undoing), "unwinding", -1)
  /\ cleanupErrors' = IF listening THEN cleanupErrors \cup {undoing} ELSE cleanupErrors
  /\ undoing' = IF listening THEN undoing - 1 ELSE undoing
  /\ UNCHANGED <<inputVars, begun, done, mounted, leaked, failed, cancelled>>

(* Slips: a cancelled run exits 0; the end waits for the target to be      *)
(* free.                                                                   *)
ConcludeCancelledAsSuccess ==
  /\ pc = "unwinding"
  /\ undoing = 0
  /\ \/ /\ failed \/ cancelled
        /\ pc' = "exited" /\ exit' = IF failed THEN 1 ELSE 0
        /\ UNCHANGED events
     \/ /\ ~failed /\ cleanupErrors # {} /\ ~cancelled
        /\ Emit(Event("Failed", 0), "exited", 1)
     \/ /\ ~failed /\ cleanupErrors = {} /\ ~cancelled
        /\ Emit(Event("Completed", 0), "exited", 0)
  /\ UNCHANGED <<inputVars, progressVars>>

ConcludeWhenFree ==
  /\ pc = "unwinding"
  /\ undoing = 0
  /\ mounted = {}
  /\ \/ /\ failed \/ cancelled
        /\ pc' = "exited" /\ exit' = 1
        /\ UNCHANGED events
     \/ /\ ~failed /\ ~cancelled
        /\ Emit(Event("Completed", 0), "exited", 0)
  /\ UNCHANGED <<inputVars, progressVars>>

Conclude ==
  /\ pc = "unwinding"
  /\ undoing = 0
  /\ \/ /\ failed
        /\ pc' = "exited" /\ exit' = 1
        /\ UNCHANGED events
     \/ /\ ~failed /\ cleanupErrors # {}
        /\ Emit(Event("Failed", 0), "exited", 1)
     \/ /\ ~failed /\ cleanupErrors = {} /\ cancelled
        /\ pc' = "exited" /\ exit' = 1
        /\ UNCHANGED events
     \/ /\ ~failed /\ cleanupErrors = {} /\ ~cancelled
        /\ Emit(Event("Completed", 0), "exited", 0)
  /\ UNCHANGED <<inputVars, progressVars>>

-----------------------------------------------------------------------------
(* The control thread, spawned after the binaries were checked, runs until *)
(* the process exits.                                                      *)
ReceiveCancel ==
  /\ pc \in (Preparing \cup Working) \ {"reading", "validating", "preflight"}
  /\ ~cancel
  /\ cancel' = TRUE
  /\ cancelAt' = begun
  /\ UNCHANGED <<pc, events, exit, request, snapshot, listening, progressVars>>

(* The frontend process ends and its end of the pipe closes.               *)
ReaderGone ==
  /\ listening
  /\ pc \notin Stopped
  /\ listening' = FALSE
  /\ UNCHANGED <<pc, events, exit, request, snapshot, cancel, cancelAt, progressVars>>

(* SIGKILL, out of memory.                                                 *)
Killed ==
  /\ pc \notin Stopped
  /\ pc' = "dead" /\ exit' = 137
  /\ UNCHANGED <<events, inputVars, progressVars>>

Service ==
  \/ ReadRequest \/ ValidateConfig \/ CheckBinaries \/ Discover \/ Translate
  \/ Start \/ Revalidate
  \/ BeginOperation \/ ObserveCancel \/ FinishLoop
  \/ PerformOk \/ PerformFails
  \/ UndoNothing \/ UndoUnmounts \/ UndoFails \/ Conclude

(* The process is over: nothing changes any more.                          *)
Ended == pc \in Stopped /\ UNCHANGED vars

Next == Service \/ ReceiveCancel \/ ReaderGone \/ Killed \/ Ended

Spec == Init /\ [][Next]_vars

(* The main thread is scheduled and the commands it waits for end; nothing *)
(* is assumed of the client, of the frontend or of the kernel's OOM killer.*)
FairSpec == Spec /\ WF_vars(Service)

-----------------------------------------------------------------------------
Emitted(kind) == \E i \in DOMAIN events : events[i].kind = kind
EmittedAbout(kind, op) == \E i \in DOMAIN events : events[i] = Event(kind, op)

(* At most one terminal event is written, and only the warnings of the     *)
(* unwind may follow a Failed (execute, unwind and main's early exits).    *)
OneTerminalEvent ==
  \A i, j \in DOMAIN events :
    (i < j /\ events[i].kind \in {"Failed", "Completed"}) =>
      events[i].kind = "Failed" /\ events[j].kind = "Warning"

(* Completed is only written after the whole sequence and the unwind, with *)
(* nothing left mounted (execute's last branch).                           *)
CompletedIsClean ==
  Emitted("Completed") => done = N /\ mounted = {} /\ leaked = {} /\ ~cancelled

(* A mount is never in place without the mounts it lies under: acquired    *)
(* parents first, released children first, and a parent that failed to     *)
(* unmount stays although the unwind goes on.                              *)
MountsNest ==
  \A m \in Mounts : \A c \in Under[m] : c \in mounted => m \in mounted

(* As long as no umount failed for a reason of its own, the order of the   *)
(* unwind never meets a busy mount point.                                  *)
OrderNeverBlocksUnwind ==
  (pc = "unwinding" /\ undoing \in Mounts /\ cleanupErrors = {}) => ~Busy(undoing)

(* A service that reached its own exit names whatever it left mounted: a   *)
(* Warning per mount, the Failed event of the operation whose staging      *)
(* umount failed, and an unsuccessful status.                              *)
LeaksAreReported ==
  pc = "exited" =>
    /\ \A m \in mounted : EmittedAbout("Warning", m)
    /\ \A s \in leaked : EmittedAbout("Failed", s)
    /\ mounted \cup leaked # {} => exit = 1 /\ Emitted("Failed")

(* When an operation failed, the only Failed event is its own: the failure *)
(* of the cleanup that follows does not replace it.                        *)
FailureStaysPrimary ==
  failed => \A i \in DOMAIN events :
              events[i].kind = "Failed" => events[i].op = begun /\ begun = done + 1

(* The exit status agrees with the stream: 0 with Completed, 1 with Failed *)
(* or with a cancellation that left nothing mounted.                       *)
StatusAgreesWithEvents ==
  pc = "exited" =>
    /\ exit = 0 <=> Emitted("Completed")
    /\ exit = 1 => Emitted("Failed") \/ (cancelled /\ mounted \cup leaked = {})

(* What the service says is what happened, whichever failures, failed      *)
(* cleanups and cancellations came together: one terminal event, the first *)
(* cause, Completed only for a clean target, and a status that agrees.     *)
VerdictIsHonest ==
  OneTerminalEvent /\ CompletedIsClean /\ FailureStaysPrimary /\ StatusAgreesWithEvents

(* No operation is entered unless the request is valid, translatable and   *)
(* equal to the plan rebuilt on the snapshot this process took.            *)
WritesAreConfirmed ==
  begun > 0 =>
    /\ request # NoRequest /\ snapshot # NoDisk
    /\ Confirmed
    /\ request.plan \in Executable

(* A cancellation lets the running operation finish, starts no other, and  *)
(* unless the last one was already running the result is not Completed.    *)
CancelIsHonoured ==
  cancel => begun = cancelAt /\ (cancelAt < N => ~Emitted("Completed"))

(* Every run of the service ends: the unwind gives each undo one attempt.  *)
EveryRunEnds == <>(pc \in Stopped)

-----------------------------------------------------------------------------
(* The refinement mapping to what a run promises.                          *)
Phase ==
  CASE pc \in Preparing -> "preparing"
    [] pc \in {"looping", "performing"} -> "working"
    [] pc = "unwinding" -> "releasing"
    [] OTHER -> "ended"

Result ==
  IF exit = -1 THEN "none"
  ELSE IF exit = 0 THEN "completed"
  ELSE IF exit \in {101, 137} THEN "crashed"
  ELSE IF cancelled /\ ~failed /\ cleanupErrors = {} THEN "cancelled"
  ELSE "failed"

Promise == INSTANCE InstallTransaction WITH
  Steps <- N, Resources <- Mounts \cup Staging,
  phase <- Phase, progress <- done, held <- mounted \cup leaked, result <- Result

(* The service implements the transaction it promises.                     *)
Transaction == Promise!TransactionSpec
=============================================================================
