----------------------------- MODULE WizardProofs -----------------------------
(***************************************************************************)
(* Proofs about Wizard, for every number of disks, swap choices, plans,    *)
(* configurations and waiting calls: whatever the order of clicks and      *)
(* answers, one execution at a time, with a confirmation of the summary on *)
(* display and a configuration Rust accepts.                               *)
(***************************************************************************)
EXTENDS Wizard, SequenceTheorems, TLAPS

(* The executions are the one that locks the window, or none.              *)
Single ==
  /\ executions = << >> \/ \E e \in Execution : executions = <<e>>
  /\ installing <=> executions # << >>

(* What a terminal event leaves behind.                                    *)
Settled ==
  /\ answered \in {"none", "failed", "completed"}
  /\ answered # "none" =>
       installationTerminal /\ (executions # << >> => executions[1].stage = "fitting")
  /\ rebootOffered <=> answered = "completed"

Consented ==
  /\ confirmed => consent = summary
  /\ executions # << >> => confirmed

(* A form that differs from the summary with no race behind it: no answer  *)
(* is on its way that could take the window past the storage page.         *)
Displayed ==
  /\ ~raced /\ summary # FormNow => summaryCalls = << >> /\ current <= StoragePage
  /\ installEnabled => current = SummaryPage

(* What an execution read at the click is what was confirmed.              *)
Faithful ==
  executions # << >> /\ ~raced =>
    executions[1].choice = consent.choice /\ executions[1].config = consent.config

Validated ==
  executions # << >> => executions[1].stage = "validating" \/ executions[1].config \in Valid

(* Without a disk there is no plan and none was asked for.                 *)
Selected == selectedDisk = NoDisk => selectedPlan = NoPlan /\ planCalls = << >>

(* Every waiting validation may move the window one page forward.          *)
Bounded ==
  /\ Len(summaryCalls) <= MaxCalls
  /\ current > StoragePage => current + Len(summaryCalls) <= StoragePage + MaxCalls

IInv ==
  /\ TypeOK /\ Single /\ Settled /\ Consented /\ Displayed /\ Faithful
  /\ Validated /\ Selected /\ Bounded

-----------------------------------------------------------------------------
(* An answered call leaves the others waiting.                             *)
LEMMA Answering ==
  ASSUME NEW S, NEW s \in Seq(S), NEW i \in DOMAIN s
  PROVE  RemoveAt(s, i) \in Seq(S) /\ Len(RemoveAt(s, i)) = Len(s) - 1
<1>1. Len(s) \in Nat /\ i \in 1..Len(s) /\ \A j \in 1..Len(s) : s[j] \in S
  BY LenProperties, ElementOfSeq
<1>2. SubSeq(s, 1, i - 1) \in Seq(S) /\ Len(SubSeq(s, 1, i - 1)) = i - 1
  BY <1>1, SubSeqProperties
<1>3. SubSeq(s, i + 1, Len(s)) \in Seq(S) /\ Len(SubSeq(s, i + 1, Len(s))) = Len(s) - i
  BY <1>1, SubSeqProperties
<1>4. /\ RemoveAt(s, i) \in Seq(S)
      /\ Len(RemoveAt(s, i)) = Len(SubSeq(s, 1, i - 1)) + Len(SubSeq(s, i + 1, Len(s)))
  BY <1>2, <1>3, ConcatProperties DEF RemoveAt
<1>5. Len(RemoveAt(s, i)) = (i - 1) + (Len(s) - i)
  BY <1>2, <1>3, <1>4
<1>6. (i - 1) + (Len(s) - i) = Len(s) - 1
  BY <1>1
<1> QED BY <1>4, <1>5, <1>6

LEMMA SingletonSequence == ASSUME NEW S, NEW e \in S PROVE <<e>> \in Seq(S)
  OBVIOUS

(* The execution that is at work, and what is left when it ends.           *)
LEMMA OneWorks ==
  ASSUME Single, NEW i \in DOMAIN executions
  PROVE  /\ i = 1 /\ executions[1] \in Execution /\ executions = <<executions[1]>>
         /\ executions # << >> /\ RemoveAt(executions, i) = << >>
<1>1. PICK e \in Execution : executions = <<e>>
  BY DEF Single
<1>2. i = 1 /\ executions[1] = e
  BY <1>1
<1>3. RemoveAt(<<e>>, 1) = << >>
  BY DEF RemoveAt
<1> QED BY <1>1, <1>2, <1>3

(* The steps in which no execution takes part.                             *)
Bystander ==
  \/ EditForm \/ SelectDisk \/ SelectSwap \/ Next1to4 \/ Back \/ StepBack
  \/ StorageDiscovered \/ PlanAnswered \/ SummaryAnswered \/ UNCHANGED vars

LEMMA BystandersKeep ==
  ASSUME Bystander
  PROVE  UNCHANGED <<summary, confirmed, consent, installing, installationTerminal,
                     rebootOffered, answered, executions>>
  BY DEF Bystander, EditForm, SelectDisk, SelectSwap, Next1to4, Back, StepBack,
         StorageDiscovered, PlanAnswered, SummaryAnswered, Changes, vars, page6, outcome, calls

(* What an execution's step does to it.                                    *)
Moved(stage) ==
  /\ executions' = <<executions'[1]>> /\ executions'[1] \in Execution
  /\ executions'[1].stage = stage /\ executions'[1].config = executions[1].config
  /\ executions'[1].choice = executions[1].choice
  /\ installing' = installing

Ended == executions' = << >> /\ installing' = FALSE

LEMMA StagesMove ==
  ASSUME TypeOK, Single, NEW i \in DOMAIN executions
  PROVE  /\ ConfigAnswered(i) =>
              /\ executions[1].stage = "validating"
              /\ (Moved("subscribing") /\ executions[1].config \in Valid) \/ Ended
              /\ UNCHANGED <<installationTerminal, rebootOffered, answered>>
         /\ Send(i) =>
              /\ executions[1].stage = "subscribing" /\ Moved("running")
              /\ UNCHANGED <<installationTerminal, rebootOffered, answered>>
         /\ ExecutionRejected(i) \/ WindowFitted(i) =>
              /\ Ended /\ UNCHANGED <<installationTerminal, rebootOffered, answered>>
         /\ ExecutionFailed(i) =>
              /\ Ended /\ executions[1].stage = "running"
              /\ answered' = "failed" /\ installationTerminal' = TRUE
              /\ rebootOffered' = rebootOffered
         /\ ExecutionCompleted(i) =>
              /\ executions[1].stage = "running" /\ Moved("fitting")
              /\ answered' = "completed" /\ installationTerminal' = TRUE
              /\ rebootOffered' = TRUE
<1>1. /\ i = 1 /\ executions[1] \in Execution /\ executions = <<executions[1]>>
      /\ RemoveAt(executions, i) = << >>
  BY OneWorks
<1>2. ASSUME NEW st \in Stages, executions' = [executions EXCEPT ![i].stage = st],
             installing' = installing
      PROVE  Moved(st)
  BY <1>1, <1>2 DEF Moved, Execution
<1>3. ASSUME executions' = [executions EXCEPT ![i].stage = "running", ![i].plan = selectedPlan],
             installing' = installing
      PROVE  Moved("running")
  BY <1>1, <1>3 DEF Moved, Execution, TypeOK, Stages
<1>4. {"validating", "subscribing", "running", "fitting"} = Stages
  BY DEF Stages
<1>5. ConfigAnswered(i) =>
        /\ executions[1].stage = "validating"
        /\ (Moved("subscribing") /\ executions[1].config \in Valid) \/ Ended
        /\ UNCHANGED <<installationTerminal, rebootOffered, answered>>
  BY <1>1, <1>2, <1>4 DEF ConfigAnswered, AtStage, GoTo, Finally, Ended
<1>6. Send(i) =>
        /\ executions[1].stage = "subscribing" /\ Moved("running")
        /\ UNCHANGED <<installationTerminal, rebootOffered, answered>>
  BY <1>1, <1>3 DEF Send, AtStage, outcome
<1>7. ExecutionRejected(i) \/ WindowFitted(i) =>
        /\ Ended /\ UNCHANGED <<installationTerminal, rebootOffered, answered>>
  BY <1>1 DEF ExecutionRejected, WindowFitted, Finally, Ended
<1>8. ExecutionFailed(i) =>
        /\ Ended /\ executions[1].stage = "running"
        /\ answered' = "failed" /\ installationTerminal' = TRUE /\ rebootOffered' = rebootOffered
  BY <1>1 DEF ExecutionFailed, AtStage, Finally, Ended
<1>9. ExecutionCompleted(i) =>
        /\ executions[1].stage = "running" /\ Moved("fitting")
        /\ answered' = "completed" /\ installationTerminal' = TRUE /\ rebootOffered' = TRUE
  BY <1>1, <1>2, <1>4 DEF ExecutionCompleted, AtStage, GoTo
<1> QED BY <1>5, <1>6, <1>7, <1>8, <1>9

-----------------------------------------------------------------------------
LEMMA Initially == ASSUME Init PROVE IInv
<1>1. TypeOK
  <2>1. /\ current \in 0..(StoragePage + MaxCalls) /\ config \in Configs
        /\ storageSnapshot \in {"asked", "ready", "failed"}
        /\ selectedDisk \in Disks \cup {NoDisk} /\ swapChoice \in Swaps
        /\ selectedPlan \in Plans \cup {NoPlan}
    BY WizardAssumption DEF Init, StoragePage
  <2>2. summary \in Shown \cup {<<>>} /\ consent \in Shown \cup {<<>>}
    BY DEF Init
  <2>3. /\ summaryConfigValid \in BOOLEAN /\ confirmed \in BOOLEAN /\ raced \in BOOLEAN
  /\ installEnabled \in BOOLEAN
        /\ installing \in BOOLEAN /\ installationTerminal \in BOOLEAN
        /\ rebootOffered \in BOOLEAN /\ answered \in {"none", "failed", "completed"}
    BY DEF Init
  <2>4. /\ planCalls \in Seq(GuidedChoices) /\ summaryCalls \in Seq(Configs)
        /\ executions \in Seq(Execution)
    BY EmptySeq DEF Init
  <2> QED BY <2>1, <2>2, <2>3, <2>4 DEF TypeOK
<1>2. Single /\ Settled /\ Consented /\ Displayed /\ Faithful /\ Validated /\ Selected
  BY DEF Init, Single, Settled, Consented, Displayed, Faithful, Validated, Selected, StoragePage
<1>3. Bounded
  BY WizardAssumption DEF Init, Bounded, StoragePage
<1> QED BY <1>1, <1>2, <1>3 DEF IInv

(* A click on Install finds the window unlocked: no execution, no event.   *)
LEMMA Clicked ==
  ASSUME TypeOK, Single, InstallClicked
  PROVE  /\ executions = << >> /\ executions' = <<executions'[1]>>
         /\ executions'[1] \in Execution /\ executions'[1].stage = "validating"
         /\ installing' = TRUE /\ installing = FALSE /\ installationTerminal = FALSE
         /\ confirmed /\ UNCHANGED <<summary, confirmed, consent, answered, installationTerminal>>
         /\ rebootOffered' = FALSE /\ raced' = raced
         /\ executions'[1].choice = choice /\ executions'[1].config = config
<1>1. installing = FALSE /\ installationTerminal = FALSE
  BY DEF InstallClicked, Unlocked, TypeOK
<1>2. executions = << >>
  BY <1>1 DEF Single
<1>3. choice \in GuidedChoices
  BY DEF InstallClicked, TypeOK, choice, GuidedChoices
<1>4. [stage |-> "validating", choice |-> choice, config |-> config, plan |-> NoPlan] \in Execution
  BY <1>3 DEF TypeOK, Execution, Stages
<1>5. executions' = <<[stage |-> "validating", choice |-> choice, config |-> config,
                       plan |-> NoPlan]>>
  BY <1>2 DEF InstallClicked
<1>6. /\ installing' = TRUE /\ rebootOffered' = FALSE /\ confirmed
      /\ UNCHANGED <<summary, confirmed, consent, raced, answered, installationTerminal>>
  BY DEF InstallClicked, page6
<1> QED BY <1>1, <1>2, <1>4, <1>5, <1>6

LEMMA SingleStep ==
  ASSUME TypeOK, Single, [Next]_vars
  PROVE  Single'
<1>1. CASE Bystander \/ NextToSummary \/ TickConfirm
  <2>1. UNCHANGED <<executions, installing>>
    BY <1>1, BystandersKeep DEF NextToSummary, TickConfirm, outcome, calls
  <2> QED BY <2>1 DEF Single
<1>2. CASE InstallClicked
  <2>1. executions' = <<executions'[1]>> /\ executions'[1] \in Execution /\ installing' = TRUE
    BY <1>2, Clicked
  <2>2. executions' # << >>
    BY <2>1
  <2> QED BY <2>1, <2>2 DEF Single
<1>3. CASE ExecutionSteps
  <2>1. PICK i \in DOMAIN executions :
          ConfigAnswered(i) \/ Send(i) \/ ExecutionRejected(i) \/ ExecutionFailed(i)
          \/ ExecutionCompleted(i) \/ WindowFitted(i)
    BY <1>3 DEF ExecutionSteps
  <2>2. executions # << >>
    BY OneWorks
  <2>3. Ended \/ \E stage \in Stages : Moved(stage)
    BY <2>1, StagesMove DEF Stages
  <2>4. CASE Ended
    BY <2>4 DEF Ended, Single
  <2>5. CASE \E stage \in Stages : Moved(stage)
    BY <2>2, <2>5 DEF Moved, Single
  <2> QED BY <2>3, <2>4, <2>5
<1> QED BY <1>1, <1>2, <1>3 DEF Next, UserSteps, Bystander

LEMMA SettledStep ==
  ASSUME TypeOK, Single, Settled, [Next]_vars
  PROVE  Settled'
<1>1. CASE Bystander \/ TickConfirm
  <2>1. UNCHANGED <<executions, answered, installationTerminal, rebootOffered>>
    BY <1>1, BystandersKeep DEF TickConfirm, outcome, calls
  <2> QED BY <2>1 DEF Settled
<1>2. CASE NextToSummary
  <2>1. /\ UNCHANGED <<executions, answered, installationTerminal>> /\ rebootOffered' = FALSE
        /\ ~installationTerminal
    BY <1>2 DEF NextToSummary, Unlocked
  <2> QED BY <2>1 DEF Settled
<1>3. CASE InstallClicked
  <2>1. answered = "none" /\ answered' = "none" /\ rebootOffered' = FALSE
    BY <1>3, Clicked DEF Settled
  <2> QED BY <2>1 DEF Settled
<1>4. CASE ExecutionSteps
  <2> PICK i \in DOMAIN executions :
          ConfigAnswered(i) \/ Send(i) \/ ExecutionRejected(i) \/ ExecutionFailed(i)
          \/ ExecutionCompleted(i) \/ WindowFitted(i)
    BY <1>4 DEF ExecutionSteps
  <2>1. executions # << >>
    BY OneWorks
  <2>2. CASE ConfigAnswered(i)
    <3>1. executions[1].stage = "validating"
          /\ UNCHANGED <<installationTerminal, rebootOffered, answered>>
      BY <2>2, StagesMove
    <3>2. answered = "none"
      BY <2>1, <3>1 DEF Settled
    <3> QED BY <3>1, <3>2 DEF Settled
  <2>3. CASE Send(i)
    <3>1. executions[1].stage = "subscribing"
          /\ UNCHANGED <<installationTerminal, rebootOffered, answered>>
      BY <2>3, StagesMove
    <3>2. answered = "none"
      BY <2>1, <3>1 DEF Settled
    <3> QED BY <3>1, <3>2 DEF Settled
  <2>4. CASE ExecutionRejected(i) \/ WindowFitted(i)
    <3>1. Ended /\ UNCHANGED <<installationTerminal, rebootOffered, answered>>
      BY <2>4, StagesMove
    <3> QED BY <3>1 DEF Ended, Settled
  <2>5. CASE ExecutionFailed(i)
    <3>1. /\ Ended /\ executions[1].stage = "running" /\ answered' = "failed"
          /\ installationTerminal' = TRUE /\ rebootOffered' = rebootOffered
      BY <2>5, StagesMove
    <3>2. answered = "none"
      BY <2>1, <3>1 DEF Settled
    <3> QED BY <3>1, <3>2 DEF Ended, Settled
  <2>6. CASE ExecutionCompleted(i)
    <3>1. /\ executions'[1].stage = "fitting" /\ answered' = "completed"
          /\ installationTerminal' = TRUE /\ rebootOffered' = TRUE
      BY <2>6, StagesMove DEF Moved
    <3> QED BY <3>1 DEF Settled
  <2> QED BY <2>2, <2>3, <2>4, <2>5, <2>6
<1> QED BY <1>1, <1>2, <1>3, <1>4 DEF Next, UserSteps, Bystander

LEMMA ConsentedStep ==
  ASSUME TypeOK, Single, Consented, [Next]_vars
  PROVE  Consented'
<1>1. CASE Bystander
  <2>1. UNCHANGED <<executions, confirmed, consent, summary>>
    BY <1>1, BystandersKeep
  <2> QED BY <2>1 DEF Consented
<1>2. CASE NextToSummary
  <2>1. confirmed' = FALSE /\ executions' = executions /\ ~installing
    BY <1>2 DEF NextToSummary, Unlocked
  <2> QED BY <2>1 DEF Single, Consented
<1>3. CASE TickConfirm
  <2>1. confirmed' = TRUE /\ consent' = summary /\ summary' = summary
    BY <1>3 DEF TickConfirm
  <2> QED BY <2>1 DEF Consented
<1>4. CASE InstallClicked
  <2>1. confirmed /\ UNCHANGED <<summary, confirmed, consent>>
    BY <1>4, Clicked
  <2> QED BY <2>1 DEF Consented
<1>5. CASE ExecutionSteps
  <2>1. executions # << >>
    BY <1>5, OneWorks DEF ExecutionSteps
  <2>2. UNCHANGED <<summary, confirmed, consent>>
    BY <1>5 DEF ExecutionSteps, ConfigAnswered, Send, ExecutionRejected, ExecutionFailed,
                ExecutionCompleted, WindowFitted, GoTo, Finally, page6
  <2> QED BY <2>1, <2>2 DEF Consented
<1> QED BY <1>1, <1>2, <1>3, <1>4, <1>5 DEF Next, UserSteps, Bystander

(* The button only follows the page shown.                                 *)
LEMMA DisplayedStep ==
  ASSUME TypeOK, Displayed, [Next]_vars
  PROVE  Displayed'
<1>0. current \in Int /\ StoragePage = 5 /\ SummaryPage = 6 /\ AccountPage = 4
  BY DEF TypeOK, StoragePage, SummaryPage, AccountPage
<1>1. CASE EditForm \/ SelectDisk \/ SelectSwap
  <2>1. /\ raced' = (raced \/ summaryCalls # << >>)
        /\ UNCHANGED <<current, installEnabled, summaryCalls>> /\ current <= StoragePage
    BY <1>0, <1>1 DEF EditForm, SelectDisk, SelectSwap, Changes, calls
  <2> QED BY <2>1 DEF Displayed
<1>2. CASE NextToSummary
  <2>1. summary' = FormNow' /\ UNCHANGED <<current, installEnabled>>
    BY <1>2 DEF NextToSummary, FormNow, choice, form
  <2> QED BY <2>1 DEF Displayed
<1>3. CASE Next1to4 \/ Back \/ StepBack
  <2>1. UNCHANGED <<raced, summary, selectedDisk, swapChoice, config, summaryCalls>>
    BY <1>3 DEF Next1to4, Back, StepBack, form, page6, calls
  <2>2. FormNow' = FormNow
    BY <2>1 DEF FormNow, choice
  <2>3. (current <= StoragePage => current' <= StoragePage) /\ UpdateInstallButton
    BY <1>0, <1>3 DEF Next1to4, Back, StepBack, Show
  <2> QED BY <2>1, <2>2, <2>3 DEF Displayed, UpdateInstallButton
<1>4. CASE SummaryAnswered
  <2>1. summaryCalls # << >>
    BY <1>4 DEF SummaryAnswered
  <2>2. UNCHANGED <<raced, summary, selectedDisk, swapChoice, config>> /\ UpdateInstallButton
    BY <1>4 DEF SummaryAnswered, form, Show
  <2>3. FormNow' = FormNow
    BY <2>2 DEF FormNow, choice
  <2>4. installEnabled' => current' = SummaryPage
    BY <2>2 DEF UpdateInstallButton
  <2>5. summary = FormNow \/ raced
    BY <2>1 DEF Displayed
  <2> QED BY <2>2, <2>3, <2>4, <2>5 DEF Displayed
<1>5. CASE TickConfirm \/ InstallClicked \/ ExecutionSteps
  <2>1. UNCHANGED <<raced, summary, selectedDisk, swapChoice, config, summaryCalls, current>>
    BY <1>5 DEF TickConfirm, InstallClicked, ExecutionSteps, ConfigAnswered, Send,
                ExecutionRejected, ExecutionFailed, ExecutionCompleted, WindowFitted, GoTo,
                Finally, form, page6, calls
  <2>2. FormNow' = FormNow
    BY <2>1 DEF FormNow, choice
  <2>3. UpdateInstallButton \/ installEnabled' = installEnabled
    BY <1>5 DEF TickConfirm, InstallClicked, ExecutionSteps, ConfigAnswered, Send,
                ExecutionRejected, ExecutionFailed, ExecutionCompleted, WindowFitted, GoTo, Finally
  <2>4. installEnabled' => current' = SummaryPage \/ installEnabled
    BY <2>3 DEF UpdateInstallButton
  <2>5. ~raced /\ summary # FormNow => summaryCalls = << >> /\ current <= StoragePage
    BY DEF Displayed
  <2>6. (~raced /\ summary # FormNow => summaryCalls = << >> /\ current <= StoragePage)'
    BY <2>1, <2>2, <2>5
  <2> QED BY <2>1, <2>4, <2>6 DEF Displayed
<1>6. CASE StorageDiscovered \/ PlanAnswered \/ UNCHANGED vars
  <2>1. UNCHANGED <<raced, summary, selectedDisk, swapChoice, config, summaryCalls, current,
                    installEnabled>>
    BY <1>6 DEF StorageDiscovered, PlanAnswered, vars, form, page6, calls
  <2>2. FormNow' = FormNow
    BY <2>1 DEF FormNow, choice
  <2> QED BY <2>1, <2>2 DEF Displayed
<1> QED BY <1>1, <1>2, <1>3, <1>4, <1>5, <1>6 DEF Next, UserSteps

LEMMA FaithfulStep ==
  ASSUME TypeOK, Single, Consented, Displayed, Faithful, [Next]_vars
  PROVE  Faithful'
<1>1. CASE Bystander
  <2>1. UNCHANGED <<executions, consent>>
    BY <1>1, BystandersKeep
  <2>2. raced => raced'
    BY <1>1 DEF Bystander, EditForm, SelectDisk, SelectSwap, Next1to4, Back, StepBack,
                StorageDiscovered, PlanAnswered, SummaryAnswered, Changes, vars, page6
  <2> QED BY <2>1, <2>2 DEF Faithful
<1>2. CASE NextToSummary \/ TickConfirm
  <2>1. ~installing /\ executions' = executions
    BY <1>2 DEF NextToSummary, TickConfirm, Unlocked, calls
  <2> QED BY <2>1 DEF Single, Faithful
<1>3. CASE InstallClicked
  <2>1. /\ raced' = raced /\ consent' = consent /\ confirmed
        /\ executions'[1].choice = choice /\ executions'[1].config = config
    BY <1>3, Clicked
  <2>2. installEnabled
    BY <1>3 DEF InstallClicked
  <2>3. current = 6 /\ StoragePage = 5
    BY <2>2 DEF Displayed, SummaryPage, StoragePage
  <2>4. raced \/ summary = FormNow
    BY <2>3 DEF Displayed
  <2>5. consent = summary
    BY <2>1 DEF Consented
  <2> QED BY <2>1, <2>4, <2>5 DEF Faithful, FormNow
<1>4. CASE ExecutionSteps
  <2> PICK i \in DOMAIN executions :
          ConfigAnswered(i) \/ Send(i) \/ ExecutionRejected(i) \/ ExecutionFailed(i)
          \/ ExecutionCompleted(i) \/ WindowFitted(i)
    BY <1>4 DEF ExecutionSteps
  <2>1. executions # << >> /\ UNCHANGED <<raced, consent>>
    BY OneWorks DEF ConfigAnswered, Send, ExecutionRejected, ExecutionFailed,
                    ExecutionCompleted, WindowFitted, GoTo, Finally, page6
  <2>2. \/ Ended
        \/ /\ executions'[1].config = executions[1].config
           /\ executions'[1].choice = executions[1].choice
    BY StagesMove DEF Moved
  <2> QED BY <2>1, <2>2 DEF Ended, Faithful
<1> QED BY <1>1, <1>2, <1>3, <1>4 DEF Next, UserSteps, Bystander

LEMMA ValidatedStep ==
  ASSUME TypeOK, Single, Validated, [Next]_vars
  PROVE  Validated'
<1>1. CASE Bystander \/ NextToSummary \/ TickConfirm
  <2>1. UNCHANGED executions
    BY <1>1, BystandersKeep DEF NextToSummary, TickConfirm, calls
  <2> QED BY <2>1 DEF Validated
<1>2. CASE InstallClicked
  BY <1>2, Clicked DEF Validated
<1>3. CASE ExecutionSteps
  <2> PICK i \in DOMAIN executions :
          ConfigAnswered(i) \/ Send(i) \/ ExecutionRejected(i) \/ ExecutionFailed(i)
          \/ ExecutionCompleted(i) \/ WindowFitted(i)
    BY <1>3 DEF ExecutionSteps
  <2>1. executions # << >>
    BY OneWorks
  <2>2. Ended \/ (executions'[1].config = executions[1].config /\ executions[1].config \in Valid)
    BY <2>1, StagesMove DEF Moved, Validated
  <2> QED BY <2>2 DEF Ended, Validated
<1> QED BY <1>1, <1>2, <1>3 DEF Next, UserSteps, Bystander

LEMMA SelectedStep ==
  ASSUME TypeOK, Selected, [Next]_vars
  PROVE  Selected'
<1>1. CASE SelectDisk \/ SelectSwap
  BY <1>1, WizardAssumption DEF SelectDisk, SelectSwap, RefreshPlan, Selected, TypeOK
<1>2. CASE PlanAnswered
  <2>1. planCalls # << >> /\ selectedDisk' = selectedDisk
    BY <1>2 DEF PlanAnswered, form
  <2> QED BY <2>1 DEF Selected
<1>3. CASE EditForm
  BY <1>3 DEF EditForm, Selected, calls
<1>4. CASE ExecutionSteps
  <2>1. UNCHANGED <<selectedDisk, selectedPlan, planCalls>>
    BY <1>4 DEF ExecutionSteps, ConfigAnswered, Send, ExecutionRejected, ExecutionFailed,
                ExecutionCompleted, WindowFitted, GoTo, Finally, form
  <2> QED BY <2>1 DEF Selected
<1>5. CASE \/ Next1to4 \/ NextToSummary \/ Back \/ StepBack \/ TickConfirm \/ InstallClicked
           \/ StorageDiscovered \/ SummaryAnswered \/ UNCHANGED vars
  <2>1. UNCHANGED <<selectedDisk, selectedPlan, planCalls>>
    BY <1>5 DEF Next1to4, NextToSummary, Back, StepBack, TickConfirm, InstallClicked,
                StorageDiscovered, SummaryAnswered, vars, form, calls
  <2> QED BY <2>1 DEF Selected
<1> QED BY <1>1, <1>2, <1>3, <1>4, <1>5 DEF Next, UserSteps

LEMMA BoundedStep ==
  ASSUME TypeOK, Bounded, [Next]_vars
  PROVE  Bounded'
<1>0. /\ current \in Int /\ Len(summaryCalls) \in Nat /\ MaxCalls \in Nat
      /\ StoragePage = 5 /\ SummaryPage = 6
  BY LenProperties, WizardAssumption DEF TypeOK, StoragePage, SummaryPage
<1>1. CASE Next1to4
  BY <1>0, <1>1 DEF Next1to4, Show, calls, Bounded
<1>2. CASE NextToSummary
  <2>1. current = StoragePage /\ current' = current /\ Len(summaryCalls) < MaxCalls
    BY <1>2 DEF NextToSummary
  <2>2. Len(summaryCalls') = Len(summaryCalls) + 1
    BY <1>2, AppendProperties DEF NextToSummary, TypeOK
  <2> QED BY <1>0, <2>1, <2>2 DEF Bounded
<1>3. CASE SummaryAnswered
  <2>1. current' = current + 1
    BY <1>3 DEF SummaryAnswered, Show
  <2>2. Len(summaryCalls') = Len(summaryCalls) - 1
    BY <1>3, Answering DEF SummaryAnswered, TypeOK
  <2> QED BY <1>0, <2>1, <2>2 DEF Bounded
<1>4. CASE Back \/ StepBack
  <2>1. current' <= current /\ current' \in Int /\ summaryCalls' = summaryCalls
    BY <1>0, <1>4 DEF Back, StepBack, Show, calls
  <2> QED BY <1>0, <2>1 DEF Bounded
<1>5. CASE ExecutionSteps
  <2>1. UNCHANGED <<current, summaryCalls>>
    BY <1>5 DEF ExecutionSteps, ConfigAnswered, Send, ExecutionRejected, ExecutionFailed,
                ExecutionCompleted, WindowFitted, GoTo, Finally
  <2> QED BY <2>1 DEF Bounded
<1>6. CASE \/ EditForm \/ SelectDisk \/ SelectSwap \/ TickConfirm \/ InstallClicked
           \/ StorageDiscovered \/ PlanAnswered \/ UNCHANGED vars
  <2>1. UNCHANGED <<current, summaryCalls>>
    BY <1>6 DEF EditForm, SelectDisk, SelectSwap, TickConfirm, InstallClicked,
                StorageDiscovered, PlanAnswered, vars, calls
  <2> QED BY <2>1 DEF Bounded
<1> QED BY <1>1, <1>2, <1>3, <1>4, <1>5, <1>6 DEF Next, UserSteps

(* Each step keeps the types, apart from the bound on the page.            *)
Typed ==
  /\ current \in Nat /\ storageSnapshot \in {"asked", "ready", "failed"}
  /\ selectedDisk \in Disks \cup {NoDisk} /\ swapChoice \in Swaps
  /\ selectedPlan \in Plans \cup {NoPlan} /\ config \in Configs
  /\ summary \in Shown \cup {<<>>} /\ consent \in Shown \cup {<<>>}
  /\ summaryConfigValid \in BOOLEAN /\ confirmed \in BOOLEAN /\ raced \in BOOLEAN
  /\ installEnabled \in BOOLEAN
  /\ installing \in BOOLEAN /\ installationTerminal \in BOOLEAN /\ rebootOffered \in BOOLEAN
  /\ answered \in {"none", "failed", "completed"}
  /\ planCalls \in Seq(GuidedChoices) /\ summaryCalls \in Seq(Configs)

(* Where the history of races comes from.                                  *)
LEMMA RacesOnlyChange ==
  ASSUME [Next]_vars
  PROVE  \/ raced' = raced
         \/ raced' = (raced \/ summaryCalls # << >>)
         \/ raced' = FALSE
<1>1. CASE EditForm \/ SelectDisk \/ SelectSwap
  BY <1>1 DEF EditForm, SelectDisk, SelectSwap, Changes
<1>2. CASE NextToSummary
  BY <1>2 DEF NextToSummary
<1>3. CASE \/ Next1to4 \/ Back \/ StepBack \/ StorageDiscovered \/ PlanAnswered \/ SummaryAnswered
           \/ TickConfirm \/ InstallClicked \/ UNCHANGED vars
  BY <1>3 DEF Next1to4, Back, StepBack, StorageDiscovered, PlanAnswered, SummaryAnswered,
              TickConfirm, InstallClicked, vars, page6
<1>4. CASE ExecutionSteps
  BY <1>4 DEF ExecutionSteps, ConfigAnswered, Send, ExecutionRejected, ExecutionFailed,
              ExecutionCompleted, WindowFitted, GoTo, Finally, page6
<1> QED BY <1>1, <1>2, <1>3, <1>4 DEF Next, UserSteps

LEMMA TypedStep ==
  ASSUME TypeOK, Single, Selected, [Next]_vars
  PROVE  Typed'
<1>0. current \in Nat /\ StoragePage = 5 /\ raced' \in BOOLEAN
  <2>1. current \in Nat /\ StoragePage = 5
    BY WizardAssumption DEF TypeOK, StoragePage
  <2>2. raced \in BOOLEAN
    BY DEF TypeOK
  <2>3. (raced \/ summaryCalls # << >>) \in BOOLEAN
    BY <2>2, Zenon
  <2>4. raced' \in BOOLEAN
    BY <2>2, <2>3, RacesOnlyChange
  <2> QED BY <2>1, <2>4
<1>1. CASE StorageDiscovered
  <2>1. UNCHANGED <<current, selectedDisk, swapChoice, selectedPlan, config,
                   summary, consent, summaryConfigValid, confirmed, installEnabled,
                   installing, installationTerminal, rebootOffered, answered,
                   planCalls, summaryCalls>>
    BY <1>1 DEF StorageDiscovered, form, page6, outcome, calls
  <2>2. storageSnapshot' \in {"asked", "ready", "failed"}
    BY <1>1 DEF StorageDiscovered, TypeOK
  <2> QED BY <1>0, <2>1, <2>2 DEF TypeOK, Typed
<1>2. CASE EditForm
  <2>1. UNCHANGED <<current, storageSnapshot, selectedDisk, swapChoice,
                   selectedPlan, summary, consent, summaryConfigValid, confirmed,
                   installEnabled, installing, installationTerminal, rebootOffered,
                   answered, planCalls, summaryCalls>>
    BY <1>2 DEF EditForm, Changes, form, page6, outcome, calls
  <2>2. config' \in Configs
    BY <1>2 DEF EditForm, TypeOK
  <2> QED BY <1>0, <2>1, <2>2 DEF TypeOK, Typed
<1>3. CASE SelectDisk
  <2>1. UNCHANGED <<current, storageSnapshot, swapChoice, config, summary, consent,
                   summaryConfigValid, confirmed, installEnabled, installing,
                   installationTerminal, rebootOffered, answered, summaryCalls>>
    BY <1>3 DEF SelectDisk, Changes, form, page6, outcome, calls
  <2>2. selectedDisk' \in Disks \cup {NoDisk}
    BY <1>3 DEF SelectDisk, TypeOK
  <2>3. selectedPlan' \in Plans \cup {NoPlan}
    BY <1>3 DEF SelectDisk, TypeOK, RefreshPlan
  <2>4. planCalls' \in Seq(GuidedChoices)
    BY <1>3, WizardAssumption, AppendProperties DEF SelectDisk, TypeOK, RefreshPlan,
           GuidedChoices
  <2> QED BY <1>0, <2>1, <2>2, <2>3, <2>4 DEF TypeOK, Typed
<1>4. CASE SelectSwap
  <2>1. UNCHANGED <<current, storageSnapshot, selectedDisk, config, summary,
                   consent, summaryConfigValid, confirmed, installEnabled,
                   installing, installationTerminal, rebootOffered, answered,
                   summaryCalls>>
    BY <1>4 DEF SelectSwap, Changes, form, page6, outcome, calls
  <2>2. swapChoice' \in Swaps
    BY <1>4 DEF SelectSwap, TypeOK
  <2>3. selectedPlan' \in Plans \cup {NoPlan}
    BY <1>4 DEF SelectSwap, TypeOK, RefreshPlan
  <2>4. planCalls' \in Seq(GuidedChoices)
    BY <1>4, WizardAssumption, AppendProperties DEF SelectSwap, TypeOK, RefreshPlan,
           GuidedChoices
  <2> QED BY <1>0, <2>1, <2>2, <2>3, <2>4 DEF TypeOK, Typed
<1>5. CASE PlanAnswered
  <2>1. UNCHANGED <<current, storageSnapshot, selectedDisk, swapChoice, config,
                   summary, consent, summaryConfigValid, confirmed, installEnabled,
                   installing, installationTerminal, rebootOffered, answered,
                   summaryCalls>>
    BY <1>5 DEF PlanAnswered, form, page6, outcome, calls
  <2>2. selectedPlan' \in Plans \cup {NoPlan}
    BY <1>5, WizardAssumption, ElementOfSeq, LenProperties DEF PlanAnswered, TypeOK
  <2>3. planCalls' \in Seq(GuidedChoices)
    BY <1>5, Answering DEF PlanAnswered, TypeOK
  <2> QED BY <1>0, <2>1, <2>2, <2>3 DEF TypeOK, Typed
<1>6. CASE SummaryAnswered
  <2>1. UNCHANGED <<storageSnapshot, selectedDisk, swapChoice, selectedPlan, config,
                   summary, consent, confirmed, installing, installationTerminal,
                   rebootOffered, answered, planCalls>>
    BY <1>6 DEF SummaryAnswered, form, page6, outcome, calls
  <2>2. summaryConfigValid' \in BOOLEAN
    BY <1>6 DEF SummaryAnswered, TypeOK
  <2>3. summaryCalls' \in Seq(Configs)
    BY <1>6, Answering DEF SummaryAnswered, TypeOK
  <2>4. current' \in Nat
    BY <1>6 DEF SummaryAnswered, TypeOK, Show
  <2>5. installEnabled' \in BOOLEAN
    BY <1>6 DEF SummaryAnswered, TypeOK, Show, UpdateInstallButton
  <2> QED BY <1>0, <2>1, <2>2, <2>3, <2>4, <2>5 DEF TypeOK, Typed
<1>7. CASE Next1to4
  <2>1. UNCHANGED <<storageSnapshot, selectedDisk, swapChoice, selectedPlan, config,
                   summary, consent, summaryConfigValid, confirmed, installing,
                   installationTerminal, rebootOffered, answered, planCalls,
                   summaryCalls>>
    BY <1>7 DEF Next1to4, form, page6, outcome, calls
  <2>2. current' \in Nat
    BY <1>7 DEF Next1to4, TypeOK, Show
  <2>3. installEnabled' \in BOOLEAN
    BY <1>7 DEF Next1to4, TypeOK, Show, UpdateInstallButton
  <2> QED BY <1>0, <2>1, <2>2, <2>3 DEF TypeOK, Typed
<1>8. CASE NextToSummary
  <2>1. UNCHANGED <<current, storageSnapshot, selectedDisk, swapChoice,
                   selectedPlan, config, consent, installEnabled, installing,
                   installationTerminal, answered, planCalls>>
    BY <1>8 DEF NextToSummary, form, page6, outcome, calls
  <2>2. summary' \in Shown \cup {<<>>}
    BY <1>8 DEF NextToSummary, TypeOK, Selected, Shown, GuidedChoices, choice, FormNow
  <2>3. confirmed' \in BOOLEAN
    BY <1>8 DEF NextToSummary, TypeOK
  <2>4. summaryConfigValid' \in BOOLEAN
    BY <1>8 DEF NextToSummary, TypeOK
  <2>5. rebootOffered' \in BOOLEAN
    BY <1>8 DEF NextToSummary, TypeOK
  <2>6. summaryCalls' \in Seq(Configs)
    BY <1>8, AppendProperties DEF NextToSummary, TypeOK
  <2> QED BY <1>0, <2>1, <2>2, <2>3, <2>4, <2>5, <2>6 DEF TypeOK, Typed
<1>9. CASE Back
  <2>1. UNCHANGED <<storageSnapshot, selectedDisk, swapChoice, selectedPlan, config,
                   summary, consent, summaryConfigValid, confirmed, installing,
                   installationTerminal, rebootOffered, answered, planCalls,
                   summaryCalls>>
    BY <1>9 DEF Back, form, page6, outcome, calls
  <2>2. current' \in Nat
    BY <1>9 DEF Back, TypeOK, Show
  <2>3. installEnabled' \in BOOLEAN
    BY <1>9 DEF Back, TypeOK, Show, UpdateInstallButton
  <2> QED BY <1>0, <2>1, <2>2, <2>3 DEF TypeOK, Typed
<1>10. CASE StepBack
  <2>1. UNCHANGED <<storageSnapshot, selectedDisk, swapChoice, selectedPlan, config,
                   summary, consent, summaryConfigValid, confirmed, installing,
                   installationTerminal, rebootOffered, answered, planCalls,
                   summaryCalls>>
    BY <1>10 DEF StepBack, form, page6, outcome, calls
  <2>2. current' \in Nat
    BY <1>10 DEF StepBack, TypeOK, Show, SummaryPage
  <2>3. installEnabled' \in BOOLEAN
    BY <1>10 DEF StepBack, TypeOK, Show, UpdateInstallButton
  <2> QED BY <1>0, <2>1, <2>2, <2>3 DEF TypeOK, Typed
<1>11. CASE TickConfirm
  <2>1. UNCHANGED <<current, storageSnapshot, selectedDisk, swapChoice,
                   selectedPlan, config, summary, summaryConfigValid, installing,
                   installationTerminal, rebootOffered, answered, planCalls,
                   summaryCalls>>
    BY <1>11 DEF TickConfirm, form, page6, outcome, calls
  <2>2. confirmed' \in BOOLEAN
    BY <1>11 DEF TickConfirm, TypeOK
  <2>3. consent' \in Shown \cup {<<>>}
    BY <1>11 DEF TickConfirm, TypeOK
  <2>4. installEnabled' \in BOOLEAN
    BY <1>11 DEF TickConfirm, TypeOK, Show, UpdateInstallButton
  <2> QED BY <1>0, <2>1, <2>2, <2>3, <2>4 DEF TypeOK, Typed
<1>12. CASE InstallClicked
  <2>1. UNCHANGED <<current, storageSnapshot, selectedDisk, swapChoice, selectedPlan, config,
                   summary, consent, summaryConfigValid, confirmed, answered, planCalls,
                   summaryCalls, installationTerminal>>
    BY <1>12 DEF InstallClicked, form, page6
  <2>2. installing' \in BOOLEAN /\ rebootOffered' \in BOOLEAN
    BY <1>12 DEF InstallClicked
  <2>3. installEnabled' \in BOOLEAN
    BY <1>12 DEF InstallClicked, UpdateInstallButton
  <2> QED BY <1>0, <2>1, <2>2, <2>3 DEF TypeOK, Typed
<1>13. CASE ExecutionSteps
  <2> PICK i \in DOMAIN executions :
          ConfigAnswered(i) \/ Send(i) \/ ExecutionRejected(i) \/ ExecutionFailed(i)
          \/ ExecutionCompleted(i) \/ WindowFitted(i)
    BY <1>13 DEF ExecutionSteps
  <2>1. UNCHANGED <<current, storageSnapshot, selectedDisk, swapChoice, selectedPlan, config,
                   summary, consent, summaryConfigValid, confirmed, planCalls, summaryCalls>>
    BY DEF ConfigAnswered, Send, ExecutionRejected, ExecutionFailed, ExecutionCompleted,
           WindowFitted, GoTo, Finally, form, page6
  <2>2. installEnabled' \in BOOLEAN
    BY DEF ConfigAnswered, Send, ExecutionRejected, ExecutionFailed, ExecutionCompleted,
           WindowFitted, GoTo, Finally, UpdateInstallButton, TypeOK
  <2>3. installing' \in BOOLEAN
    BY DEF ConfigAnswered, Send, ExecutionRejected, ExecutionFailed, ExecutionCompleted,
           WindowFitted, GoTo, Finally, outcome, TypeOK
  <2>4. /\ installationTerminal' \in BOOLEAN /\ rebootOffered' \in BOOLEAN
        /\ answered' \in {"none", "failed", "completed"}
    BY DEF ConfigAnswered, Send, ExecutionRejected, ExecutionFailed, ExecutionCompleted,
           WindowFitted, outcome, TypeOK
  <2> QED BY <1>0, <2>1, <2>2, <2>3, <2>4 DEF TypeOK, Typed
<1>14. CASE UNCHANGED vars
  BY <1>0, <1>14 DEF vars, form, page6, outcome, calls, TypeOK, Typed
<1> QED BY <1>1, <1>2, <1>3, <1>4, <1>5, <1>6, <1>7, <1>8, <1>9, <1>10, <1>11,
    <1>12, <1>13, <1>14 DEF Next, UserSteps

LEMMA TypeOKStep ==
  ASSUME TypeOK, Single, Selected, [Next]_vars, Single', Bounded'
  PROVE  TypeOK'
<1>1. Typed'
  BY TypedStep
<1>2. current' \in 0..(StoragePage + MaxCalls)
  <2>1. Len(summaryCalls') \in Nat
    BY <1>1, LenProperties DEF Typed
  <2> QED BY <1>1, <2>1, WizardAssumption DEF Typed, Bounded, StoragePage
<1>3. executions' \in Seq(Execution)
  BY EmptySeq, SingletonSequence DEF Single
<1> QED BY <1>1, <1>2, <1>3 DEF Typed, TypeOK

-----------------------------------------------------------------------------
THEOREM Invariance == Spec => []IInv
<1>1. Init => IInv
  BY Initially
<1>2. IInv /\ [Next]_vars => IInv'
  <2> SUFFICES ASSUME IInv, [Next]_vars PROVE IInv'
    OBVIOUS
  <2> USE DEF IInv
  <2>1. Single' /\ Settled' /\ Consented' /\ Displayed' /\ Faithful'
    BY SingleStep, SettledStep, ConsentedStep, DisplayedStep, FaithfulStep
  <2>2. Validated' /\ Selected' /\ Bounded'
    BY ValidatedStep, SelectedStep, BoundedStep
  <2> QED BY <2>1, <2>2, TypeOKStep
<1> QED BY <1>1, <1>2, PTL DEF Spec

(* Every variable keeps its type; late answers to Next take the window at  *)
(* most one page past the storage page for each call that may wait.        *)
THEOREM WizardTypes == Spec => []TypeOK
<1>1. IInv => TypeOK
  BY DEF IInv
<1> QED BY <1>1, Invariance, PTL

(* One execution at a time, nothing sent after a terminal event, and the   *)
(* reboot offered for Completed only.                                      *)
THEOREM OneExecutionHolds == Spec => []OneExecution
<1>1. IInv => OneExecution
  <2> SUFFICES ASSUME IInv PROVE OneExecution
    OBVIOUS
  <2>1. Len(executions) <= 1 /\ DOMAIN executions \subseteq {1}
    <3>1. CASE executions = << >>
      BY <3>1
    <3>2. CASE \E e \in Execution : executions = <<e>>
      BY <3>2
    <3> QED BY <3>1, <3>2 DEF IInv, Single
  <2>2. answered # "none" => installationTerminal /\ Running = {}
    BY <2>1, OneWorks DEF IInv, Settled, Running
  <2>3. (installing <=> executions # << >>) /\ (rebootOffered <=> answered = "completed")
    BY DEF IInv, Single, Settled
  <2> QED BY <2>1, <2>2, <2>3 DEF OneExecution
<1> QED BY <1>1, Invariance, PTL

(* Every execution has the confirmation of the summary on display, and     *)
(* what it read from the form is what was confirmed, unless the form was   *)
(* changed while a click on Next waited for its answer.                    *)
THEOREM ConsentHolds == Spec => []ConsentIsFresh
<1>1. IInv => ConsentIsFresh
  <2> SUFFICES ASSUME IInv, executions # << >>, ~raced
               PROVE  \A i \in DOMAIN executions : /\ executions[i].choice = consent.choice
                                                   /\ executions[i].config = consent.config
    BY DEF IInv, Consented, ConsentIsFresh
  <2>1. \A i \in DOMAIN executions : i = 1
    BY OneWorks DEF IInv
  <2> QED BY <2>1 DEF IInv, Faithful
<1> QED BY <1>1, Invariance, PTL

(* No request is sent with a configuration Rust rejects.                   *)
THEOREM RequestsHold == Spec => []RequestsAreValid
<1>1. IInv => RequestsAreValid
  BY OneWorks DEF IInv, Validated, Running, RequestsAreValid
<1> QED BY <1>1, Invariance, PTL
=============================================================================
