------------------------------- MODULE Wizard -------------------------------
(***************************************************************************)
(* The installer's window (ui/app.js): one JavaScript thread whose async   *)
(* handlers give way at every await.  Its state is a handful of globals    *)
(* and the activations waiting for an answer of the Tauri backend; the     *)
(* answers of independent calls arrive in any order, and between the       *)
(* click and the answer the user goes on clicking.                         *)
(***************************************************************************)
EXTENDS Integers, Sequences, SequencesExt

CONSTANTS
  Disks, NoDisk,    \* the disks shown, and no selection yet
  Swaps,            \* the swap cards
  DefaultSwap,      \* swapChoice when the window opens
  Plans, NoPlan,    \* install plans, and selectedPlan === null
  PlanOf,           \* plan_install on the snapshot the window discovered; NoPlan: refused
  Configs,          \* what the forms of the pages before the storage page may hold
  AccountOk,        \* the configurations page 4's validate() lets pass
  Valid,            \* the configurations InstallConfig::validate accepts
  MaxCalls          \* bound on the waiting activations of each handler

GuidedChoices == Disks \X Swaps

ASSUME WizardAssumption ==
  /\ DefaultSwap \in Swaps
  /\ NoDisk \notin Disks
  /\ NoPlan \notin Plans
  /\ PlanOf \in [GuidedChoices -> Plans \cup {NoPlan}]
  /\ AccountOk \subseteq Configs /\ Valid \subseteq Configs
  /\ MaxCalls \in Nat \ {0}

VARIABLES
  current,            \* index of the page shown
  storageSnapshot,    \* "asked", "ready" or "failed"
  selectedDisk, swapChoice, selectedPlan,
  config,             \* contents of the form fields
  summary,            \* what page 6 displays, <<>> before it was filled in
  summaryConfigValid,
  confirmed,          \* the destructive confirmation is ticked
  consent,            \* history: what the summary displayed when it was ticked
  raced,              \* history: the form changed under a waiting Next since the summary was filled
  installEnabled,     \* the install button, as last updated
  installing, installationTerminal,
  rebootOffered,
  answered,           \* history: the terminal event execute_plan returned, or "none"
  planCalls,          \* refreshPlan waiting for plan_install
  summaryCalls,       \* next handlers waiting in updateSummary
  executions          \* executeInstallation activations

form == <<config, selectedDisk, swapChoice>>
outcome == <<installing, installationTerminal, rebootOffered, answered>>
page6 == <<summary, summaryConfigValid, confirmed, consent, raced>>
calls == <<planCalls, summaryCalls, executions>>
vars == <<current, storageSnapshot, form, selectedPlan, page6, installEnabled, outcome, calls>>

-----------------------------------------------------------------------------
AccountPage == 4
StoragePage == 5
SummaryPage == 6

choice == <<selectedDisk, swapChoice>>
FormNow == [choice |-> choice, config |-> config]
Shown == [choice : GuidedChoices, config : Configs]
Stages == {"validating", "subscribing", "running", "fitting"}
Execution == [stage : Stages, choice : GuidedChoices, config : Configs, plan : Plans \cup {NoPlan}]

TypeOK ==
  /\ current \in 0..(StoragePage + MaxCalls)
  /\ storageSnapshot \in {"asked", "ready", "failed"}
  /\ selectedDisk \in Disks \cup {NoDisk} /\ swapChoice \in Swaps
  /\ selectedPlan \in Plans \cup {NoPlan}
  /\ config \in Configs
  /\ summary \in Shown \cup {<<>>} /\ consent \in Shown \cup {<<>>}
  /\ summaryConfigValid \in BOOLEAN /\ confirmed \in BOOLEAN /\ raced \in BOOLEAN
  /\ installEnabled \in BOOLEAN
  /\ installing \in BOOLEAN /\ installationTerminal \in BOOLEAN /\ rebootOffered \in BOOLEAN
  /\ answered \in {"none", "failed", "completed"}
  /\ planCalls \in Seq(GuidedChoices) /\ summaryCalls \in Seq(Configs)
  /\ executions \in Seq(Execution)

Init ==
  /\ current = 0
  /\ storageSnapshot = "asked"
  /\ selectedDisk = NoDisk /\ swapChoice = DefaultSwap /\ selectedPlan = NoPlan
  /\ config \in Configs
  /\ summary = <<>> /\ consent = <<>>
  /\ summaryConfigValid = FALSE /\ confirmed = FALSE /\ raced = FALSE /\ installEnabled = FALSE
  /\ installing = FALSE /\ installationTerminal = FALSE /\ rebootOffered = FALSE
  /\ answered = "none"
  /\ planCalls = <<>> /\ summaryCalls = <<>> /\ executions = <<>>

-----------------------------------------------------------------------------
(* The last line of every handler that may change the install button.      *)
UpdateInstallButton ==
  installEnabled' = (/\ current' = SummaryPage /\ selectedPlan' # NoPlan
                     /\ summaryConfigValid' /\ confirmed'
                     /\ ~installing' /\ ~installationTerminal')

Show(index) == current' = index /\ UpdateInstallButton

Unlocked == ~installing /\ ~installationTerminal

(* discoverStorage is called once, when the window opens.                  *)
StorageDiscovered ==
  /\ storageSnapshot = "asked"
  /\ storageSnapshot' \in {"ready", "failed"}
  /\ UNCHANGED <<current, form, selectedPlan, page6, installEnabled, outcome, calls>>

(* The user changes what the summary may already display.                  *)
Changes ==
  /\ raced' = (raced \/ summaryCalls # <<>>)
  /\ UNCHANGED <<summary, summaryConfigValid, confirmed, consent>>

EditForm ==
  /\ current \in 1..AccountPage
  /\ config' \in Configs
  /\ Changes
  /\ UNCHANGED <<current, storageSnapshot, selectedDisk, swapChoice, selectedPlan,
                 installEnabled, outcome, calls>>

(* refreshPlan forgets the plan before it asks for another one.            *)
RefreshPlan ==
  /\ selectedPlan' = NoPlan
  /\ planCalls' = IF selectedDisk' = NoDisk THEN planCalls
                  ELSE Append(planCalls, <<selectedDisk', swapChoice'>>)

SelectDisk ==
  /\ current = StoragePage /\ storageSnapshot = "ready"
  /\ Len(planCalls) < MaxCalls
  /\ selectedDisk' \in Disks
  /\ UNCHANGED swapChoice
  /\ RefreshPlan /\ Changes
  /\ UNCHANGED <<current, storageSnapshot, config, installEnabled, outcome,
                 summaryCalls, executions>>

SelectSwap ==
  /\ current = StoragePage
  /\ Len(planCalls) < MaxCalls
  /\ swapChoice' \in Swaps
  /\ UNCHANGED selectedDisk
  /\ RefreshPlan /\ Changes
  /\ UNCHANGED <<current, storageSnapshot, config, installEnabled, outcome,
                 summaryCalls, executions>>

PlanAnswered ==
  \E i \in DOMAIN planCalls :
    /\ selectedPlan' = PlanOf[planCalls[i]]
    /\ planCalls' = RemoveAt(planCalls, i)
    /\ UNCHANGED <<current, storageSnapshot, form, page6, installEnabled, outcome,
                   summaryCalls, executions>>

-----------------------------------------------------------------------------
(* Slip: the button is still there on the last page.                       *)
NextOnAnyPage ==
  /\ Unlocked
  /\ current = AccountPage => config \in AccountOk
  /\ UNCHANGED <<storageSnapshot, form, selectedPlan, page6, outcome, calls>>
  /\ Show(current + 1)

Next1to4 ==
  /\ Unlocked
  /\ current < StoragePage
  /\ current = AccountPage => config \in AccountOk
  /\ UNCHANGED <<storageSnapshot, form, selectedPlan, page6, outcome, calls>>
  /\ Show(current + 1)

(* Slip: the confirmation of an earlier visit stays ticked.                *)
NextToSummaryStillTicked ==
  /\ Unlocked
  /\ current = StoragePage /\ selectedPlan # NoPlan
  /\ Len(summaryCalls) < MaxCalls
  /\ summary' = FormNow /\ raced' = FALSE
  /\ summaryConfigValid' = FALSE /\ rebootOffered' = FALSE
  /\ summaryCalls' = Append(summaryCalls, config)
  /\ UNCHANGED <<current, storageSnapshot, form, selectedPlan, confirmed, consent,
                 installEnabled, installing, installationTerminal, answered, planCalls, executions>>

(* The part of the next handler up to the await in updateSummary.          *)
NextToSummary ==
  /\ Unlocked
  /\ current = StoragePage /\ selectedPlan # NoPlan
  /\ Len(summaryCalls) < MaxCalls
  /\ summary' = FormNow /\ raced' = FALSE
  /\ confirmed' = FALSE /\ summaryConfigValid' = FALSE /\ rebootOffered' = FALSE
  /\ summaryCalls' = Append(summaryCalls, config)
  /\ UNCHANGED <<current, storageSnapshot, form, selectedPlan, consent, installEnabled,
                 installing, installationTerminal, answered, planCalls, executions>>

(* validate_install_config answered: show(current+1), wherever the user is *)
(* by then.                                                                *)
SummaryAnswered ==
  \E i \in DOMAIN summaryCalls :
    /\ summaryConfigValid' = (summaryConfigValid \/ summaryCalls[i] \in Valid)
    /\ summaryCalls' = RemoveAt(summaryCalls, i)
    /\ UNCHANGED <<storageSnapshot, form, selectedPlan, summary, confirmed, consent, raced,
                   outcome, planCalls, executions>>
    /\ Show(current + 1)

Back ==
  /\ Unlocked
  /\ current > 0
  /\ UNCHANGED <<storageSnapshot, form, selectedPlan, page6, outcome, calls>>
  /\ Show(current - 1)

(* Slip: the step list also goes forward to a summary filled in before.    *)
StepToReached ==
  /\ Unlocked
  /\ UNCHANGED <<storageSnapshot, form, selectedPlan, page6, outcome, calls>>
  /\ \E index \in 0..SummaryPage :
       /\ index <= current \/ (index = SummaryPage /\ summary # <<>> /\ summaryCalls = <<>>)
       /\ Show(index)

(* The step list goes back to any page up to the one shown.                *)
StepBack ==
  /\ Unlocked
  /\ UNCHANGED <<storageSnapshot, form, selectedPlan, page6, outcome, calls>>
  /\ \E index \in 0..SummaryPage : index <= current /\ Show(index)

(* Once ticked, the control is replaced by the install button.             *)
TickConfirm ==
  /\ current = SummaryPage
  /\ Unlocked /\ ~confirmed /\ summaryConfigValid
  /\ confirmed' = TRUE /\ consent' = summary
  /\ UNCHANGED <<current, storageSnapshot, form, selectedPlan, summary, summaryConfigValid,
                 raced, outcome, calls>>
  /\ UpdateInstallButton

-----------------------------------------------------------------------------
(* Slip: the handler relies on the button and does not set `installing`    *)
(* before its first await.                                                 *)
InstallClickedUnguarded ==
  /\ installEnabled
  /\ selectedDisk # NoDisk /\ selectedPlan # NoPlan
  /\ summaryConfigValid /\ confirmed /\ Len(executions) < MaxCalls
  /\ executions' = Append(executions, [stage |-> "validating", choice |-> choice,
                                       config |-> config, plan |-> NoPlan])
  /\ UNCHANGED <<current, storageSnapshot, form, selectedPlan, page6, installEnabled, outcome,
                 planCalls, summaryCalls>>

(* executeInstallation up to its first await.                              *)
InstallClicked ==
  /\ installEnabled
  /\ selectedDisk # NoDisk /\ selectedPlan # NoPlan
  /\ summaryConfigValid /\ confirmed /\ Unlocked
  /\ installing' = TRUE
  /\ rebootOffered' = FALSE
  /\ executions' = Append(executions, [stage |-> "validating", choice |-> choice,
                                       config |-> config, plan |-> NoPlan])
  /\ UNCHANGED <<current, storageSnapshot, form, selectedPlan, page6, installationTerminal,
                 answered, planCalls, summaryCalls>>
  /\ UpdateInstallButton

(* The finally block.                                                      *)
Finally(i) ==
  /\ installing' = FALSE
  /\ executions' = RemoveAt(executions, i)
  /\ UNCHANGED <<current, storageSnapshot, form, selectedPlan, page6, planCalls, summaryCalls>>
  /\ UpdateInstallButton

AtStage(i, stage) == i \in DOMAIN executions /\ executions[i].stage = stage

GoTo(i, stage) ==
  /\ executions' = [executions EXCEPT ![i].stage = stage]
  /\ UNCHANGED <<current, storageSnapshot, form, selectedPlan, page6, installEnabled, installing,
                 planCalls, summaryCalls>>

(* Slips: the second validation is skipped; its rejection leaves the       *)
(* window busy.                                                            *)
ConfigSkipped(i) ==
  /\ AtStage(i, "validating")
  /\ GoTo(i, "subscribing")
  /\ UNCHANGED <<installationTerminal, rebootOffered, answered>>

ConfigRejectedStaysBusy(i) ==
  /\ AtStage(i, "validating")
  /\ executions[i].config \in Valid
  /\ GoTo(i, "subscribing")
  /\ UNCHANGED <<installationTerminal, rebootOffered, answered>>

ConfigAnswered(i) ==
  /\ AtStage(i, "validating")
  /\ UNCHANGED <<installationTerminal, rebootOffered, answered>>
  /\ IF executions[i].config \in Valid THEN GoTo(i, "subscribing") ELSE Finally(i)

(* listen answered: selectedPlan is only read now.                         *)
Send(i) ==
  /\ AtStage(i, "subscribing")
  /\ executions' = [executions EXCEPT ![i].stage = "running", ![i].plan = selectedPlan]
  /\ UNCHANGED <<current, storageSnapshot, form, selectedPlan, page6, installEnabled, outcome,
                 planCalls, summaryCalls>>

(* execute_plan rejects a request without a plan, a service that ended     *)
(* without a terminal event, and a service that could not be started.      *)
ExecutionRejected(i) ==
  /\ AtStage(i, "running")
  /\ UNCHANGED <<installationTerminal, rebootOffered, answered>>
  /\ Finally(i)

ExecutionFailed(i) ==
  /\ AtStage(i, "running") /\ executions[i].plan # NoPlan
  /\ answered' = "failed"
  /\ installationTerminal' = TRUE
  /\ UNCHANGED rebootOffered
  /\ Finally(i)

(* The service only completes a plan it rebuilt itself from the choice.    *)
ExecutionCompleted(i) ==
  /\ AtStage(i, "running") /\ executions[i].plan # NoPlan
  /\ PlanOf[executions[i].choice] = executions[i].plan
  /\ answered' = "completed"
  /\ installationTerminal' = TRUE
  /\ rebootOffered' = TRUE
  /\ GoTo(i, "fitting")

WindowFitted(i) ==
  /\ AtStage(i, "fitting")
  /\ UNCHANGED <<installationTerminal, rebootOffered, answered>>
  /\ Finally(i)

-----------------------------------------------------------------------------
UserSteps ==
  EditForm \/ SelectDisk \/ SelectSwap \/ Next1to4 \/ NextToSummary \/ Back \/ StepBack
  \/ TickConfirm \/ InstallClicked

ExecutionSteps ==
  \E i \in DOMAIN executions :
    ConfigAnswered(i) \/ Send(i) \/ ExecutionRejected(i) \/ ExecutionFailed(i)
    \/ ExecutionCompleted(i) \/ WindowFitted(i)

Next == UserSteps \/ StorageDiscovered \/ PlanAnswered \/ SummaryAnswered \/ ExecutionSteps

Spec == Init /\ [][Next]_vars

(* Every call of the window is answered; nothing is assumed of the user.   *)
FairSpec == Spec /\ WF_vars(ExecutionSteps) /\ WF_vars(SummaryAnswered) /\ WF_vars(PlanAnswered)

-----------------------------------------------------------------------------
Running == {i \in DOMAIN executions : executions[i].stage = "running"}

(* One execution at a time, the window locked exactly while it lasts       *)
(* (executeInstallation's guard and its finally block); once a terminal    *)
(* event was returned the window sends nothing more, and it offers the     *)
(* reboot exactly when that event was Completed.                           *)
OneExecution ==
  /\ Len(executions) <= 1 /\ (installing <=> executions # <<>>)
  /\ answered # "none" => installationTerminal /\ Running = {}
  /\ rebootOffered <=> answered = "completed"

(* An execution has the confirmation of the summary on display, and what   *)
(* it read from the form at the click on Install is what was confirmed,    *)
(* whatever the user went back to in between, unless the form was changed  *)
(* while a click on Next still waited for its answer (that exception is    *)
(* RequestIsWhatWasShown).                                                 *)
ConsentIsFresh ==
  executions # <<>> =>
    /\ confirmed /\ consent = summary
    /\ \/ raced
       \/ \A i \in DOMAIN executions : /\ executions[i].choice = consent.choice
                                       /\ executions[i].config = consent.config

(* No request leaves the window with a configuration Rust rejects, even    *)
(* when an older validation answered late.                                 *)
RequestsAreValid == \A i \in Running : executions[i].config \in Valid

(* A started execution gives the window back.                              *)
InstallingEnds == installing ~> ~installing

(* installer/README.md: the final button sends what the summary displays.  *)
RequestIsWhatWasShown ==
  \A i \in Running : /\ executions[i].choice = summary.choice
                     /\ executions[i].config = summary.config

(* i18n.js: the steps are counted up to 07.                                *)
PageExists == current <= SummaryPage
=============================================================================
