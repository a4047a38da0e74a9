--------------------------- MODULE TuiSessionProofs ---------------------------
(***************************************************************************)
(* Proofs about the terminal session and about the writing of proposals,   *)
(* for any resources, rules, families and profiles, any number of writers  *)
(* and any changes others make.                                            *)
(*                                                                         *)
(* WriteInv is inductive together with the types: the lock ties the        *)
(* comparison to the rename, and the history of hand edits says what may   *)
(* have slipped in between.  In the session, a modal is open only while no *)
(* handler runs; hence what a modal has shown is what its key acts upon.   *)
(***************************************************************************)
EXTENDS TuiSession, WellFoundedInduction, TLAPS

(* Writing a proposal *)

\* WriteInv, but for what the proposals are.
WriterInvariant ==
  /\ fileLock \in Writers \cup {NoOne}
  /\ stage \in [Writers -> Stages]
  /\ DOMAIN job = Writers
  /\ raced \in BOOLEAN
  /\ fileLock = NoOne => ~raced
  /\ fileLock # NoOne => stage[fileLock] \in Locked
  /\ \A w \in Writers :
    /\ stage[w] \in Locked => fileLock = w
    /\ stage[w] \in {"compared", "copying", "copied"} /\ ~raced => file = job[w].base
    /\ stage[w] = "copied" /\ ~raced => backup = file \/ file = Missing

\* Where nothing but the members of Proposals is written.
JobsKnown ==
  /\ job \in [Writers -> Proposals \cup {NoOne}]
  /\ \A w \in Writers : stage[w] # "rest" => job[w] \in Proposals

LEMMA WriteInitHolds == WriteInit => WriterInvariant
  BY DEF WriteInit, WriterInvariant, Stages, Locked

\* A writer that returns gives back its lock and nobody else's.
LEMMA EndsKeeps ==
  ASSUME WriterInvariant, NEW w \in Writers, stage[w] # "rest", Ends(w), UNCHANGED <<file, backup>>
  PROVE  WriterInvariant'
<1>1. /\ fileLock' \in Writers \cup {NoOne} /\ stage' \in [Writers -> Stages]
      /\ DOMAIN job' = Writers /\ raced' \in BOOLEAN
  BY DEF WriterInvariant, Ends, Stages
<1>2. (fileLock # NoOne => stage[fileLock] \in Locked)' /\ (fileLock = NoOne => ~raced)'
  BY DEF WriterInvariant, Ends, Stages, Locked
<1>3. ASSUME NEW v \in Writers
      PROVE  /\ (stage[v] \in Locked => fileLock = v)'
             /\ (stage[v] \in {"compared", "copying", "copied"} /\ ~raced
                   => file = job[v].base)'
             /\ (stage[v] = "copied" /\ ~raced => backup = file \/ file = Missing)'
  <2>1. CASE v = w
    BY <2>1 DEF WriterInvariant, Ends, Stages, Locked
  <2>2. CASE v # w /\ fileLock = w
    BY <2>2 DEF WriterInvariant, Ends, Stages, Locked
  <2>3. CASE v # w /\ fileLock # w
    BY <2>3 DEF WriterInvariant, Ends, Stages, Locked
  <2> QED BY <2>1, <2>2, <2>3
<1> QED BY <1>1, <1>2, <1>3 DEF WriterInvariant

LEMMA BeginKeeps ==
  ASSUME WriterInvariant, NEW w \in Writers, NEW p, NEW inventory,
         BeginWrite(w, p, inventory)
  PROVE  WriterInvariant'
  BY DEF WriterInvariant, BeginWrite, Stages, Locked

\* Nobody holds the lock before, so no other writer is past its comparison.
LEMMA LockKeeps ==
  ASSUME WriterInvariant, NEW w \in Writers, LockAndCompare(w)
  PROVE  WriterInvariant'
<1>1. CASE file = job[w].base
  BY <1>1, WriterAssumption DEF WriterInvariant, LockAndCompare, Stages, Locked
<1>2. CASE file # job[w].base
  BY <1>2, EndsKeeps DEF LockAndCompare
<1> QED BY <1>1, <1>2

LEMMA CopyKeeps ==
  ASSUME WriterInvariant, NEW w \in Writers, StartCopy(w) \/ FinishCopy(w)
  PROVE  WriterInvariant'
<1>1. CASE StartCopy(w) /\ job[w].base = Missing
  <2>1. /\ stage[w] = "compared" /\ stage' = [stage EXCEPT ![w] = "copied"]
        /\ UNCHANGED <<file, backup, fileLock, job, raced>>
    BY <1>1 DEF StartCopy
  <2> QED BY <1>1, <2>1 DEF WriterInvariant, Stages, Locked
<1>2. CASE StartCopy(w) /\ job[w].base # Missing /\ file # Missing
  <2>1. /\ stage[w] = "compared" /\ stage' = [stage EXCEPT ![w] = "copying"]
        /\ UNCHANGED <<file, fileLock, job, raced>>
    BY <1>2 DEF StartCopy
  <2> QED BY <2>1 DEF WriterInvariant, Stages, Locked
<1>3. CASE StartCopy(w) /\ job[w].base # Missing /\ file = Missing
  <2>1. stage[w] = "compared" /\ Ends(w) /\ UNCHANGED <<file, backup>>
    BY <1>3 DEF StartCopy
  <2> QED BY <2>1, EndsKeeps
<1>4. CASE FinishCopy(w)
  BY <1>4 DEF WriterInvariant, FinishCopy, Stages, Locked
<1> QED BY <1>1, <1>2, <1>3, <1>4 DEF StartCopy

LEMMA ReplaceKeeps ==
  ASSUME WriterInvariant, NEW w \in Writers, Replace(w)
  PROVE  WriterInvariant'
  BY DEF WriterInvariant, Replace, Stages, Locked

\* The history is what carries the invariant over an edit without the lock.
LEMMA HandEditKeeps ==
  ASSUME WriterInvariant, HandEdit
  PROVE  WriterInvariant'
<1>1. CASE fileLock = NoOne
  BY <1>1, WriterAssumption DEF WriterInvariant, HandEdit, Stages, Locked
<1>2. CASE fileLock # NoOne
  <2>1. fileLock \in Writers /\ stage[fileLock] \in Locked
    BY <1>2 DEF WriterInvariant
  <2>2. raced'
    BY <1>2 DEF HandEdit
  <2> QED
    BY <1>2, <2>1, <2>2 DEF WriterInvariant, HandEdit, Stages, Locked
<1> QED BY <1>1, <1>2

LEMMA StutterKeeps == WriterInvariant /\ UNCHANGED writeVars => WriterInvariant'
  BY DEF WriterInvariant, writeVars

\* What a writer does, whatever it writes, and edits by hand.
WriterMove ==
  \/ \E w \in Writers :
       \/ \E p, inventory : BeginWrite(w, p, inventory)
       \/ WriterStep(w)
       \/ BreakWrite(w)
  \/ HandEdit

LEMMA MoveKeeps ==
  ASSUME WriterInvariant, [WriterMove]_writeVars
  PROVE  WriterInvariant'
<1>1. ASSUME NEW w \in Writers, WriterStep(w)
      PROVE  WriterInvariant'
  <2>1. CASE LockAndCompare(w)
    BY <2>1, LockKeeps
  <2>2. CASE StartCopy(w) \/ FinishCopy(w)
    BY <2>2, CopyKeeps
  <2>3. CASE Replace(w)
    BY <2>3, ReplaceKeeps
  <2>4. CASE FinishWrite(w)
    BY <2>4, EndsKeeps DEF FinishWrite
  <2> QED BY <1>1, <2>1, <2>2, <2>3, <2>4 DEF WriterStep
<1>2. ASSUME NEW w \in Writers, BreakWrite(w)
      PROVE  WriterInvariant'
  BY <1>2, EndsKeeps DEF BreakWrite
<1> QED BY <1>1, <1>2, BeginKeeps, HandEditKeeps, StutterKeeps DEF WriterMove

LEMMA WriteNextMoves == WriteNext => WriterMove
BY DEF WriteNext, WriterMove

\* The only step that brings a writer from its copy to its rename is its own.
LEMMA RenameIsReviewed ==
  ASSUME WriterInvariant, WriterMove, NEW w \in Writers,
         stage[w] = "copied", stage'[w] = "replaced"
  PROVE  /\ file' = job[w].result
         /\ ~raced => file = job[w].base /\ (backup = file \/ file = Missing)
<1>1. Replace(w)
  <2>1. ASSUME NEW v \in Writers, NEW p, NEW inventory, BeginWrite(v, p, inventory)
        PROVE  FALSE
    BY <2>1 DEF BeginWrite, WriterInvariant
  <2>2. ASSUME NEW v \in Writers, Ends(v)
        PROVE  FALSE
    BY <2>2 DEF Ends, WriterInvariant
  <2>3. ASSUME NEW v \in Writers, LockAndCompare(v)
        PROVE  FALSE
    BY <2>2, <2>3 DEF LockAndCompare, WriterInvariant
  <2>4. ASSUME NEW v \in Writers, StartCopy(v) \/ FinishCopy(v)
        PROVE  FALSE
    BY <2>2, <2>4 DEF StartCopy, FinishCopy, WriterInvariant
  <2>5. ASSUME NEW v \in Writers, Replace(v)
        PROVE  v = w
    BY <2>5 DEF Replace, WriterInvariant
  <2>6. ~HandEdit
    BY DEF HandEdit
  <2> QED
    BY <2>1, <2>2, <2>3, <2>4, <2>5, <2>6
       DEF WriterMove, WriterStep, FinishWrite, BreakWrite
<1> QED BY <1>1 DEF Replace, WriterInvariant

\* What is known of the jobs: a writer takes one up or gives it up.
LEMMA JobsStep ==
  ASSUME WriterInvariant, JobsKnown, [WriteNext]_writeVars
  PROVE  JobsKnown'
<1> USE DEF JobsKnown, WriterInvariant
<1>1. ASSUME NEW w \in Writers, Ends(w)  PROVE JobsKnown'
  BY <1>1 DEF Ends
<1>2. ASSUME NEW w \in Writers, NEW p \in Proposals, NEW q \in Proposals,
             BeginWrite(w, p, q.inventory)
      PROVE  JobsKnown'
  BY <1>2 DEF BeginWrite
<1>3. ASSUME NEW w \in Writers, WriterStep(w) \/ BreakWrite(w)
      PROVE  JobsKnown'
  <2>1. CASE stage[w] # "rest" /\ (\E st : stage' = [stage EXCEPT ![w] = st]) /\ UNCHANGED job
    BY <2>1
  <2>2. QED
    BY <1>1, <1>3, <2>1
       DEF WriterStep, LockAndCompare, StartCopy, FinishCopy, Replace, FinishWrite, BreakWrite
<1>4. CASE HandEdit \/ UNCHANGED writeVars
  BY <1>4 DEF HandEdit, writeVars
<1>5. QED
  BY <1>2, <1>3, <1>4 DEF WriteNext

\* The lock, the comparison and the backup belong together at every moment.
THEOREM WriteInvariant == WriteSpec => [](WriteTypeOK /\ WriteInv)
<1>1. WriteInit => WriterInvariant /\ JobsKnown
  BY WriteInitHolds DEF WriteInit, JobsKnown
<1>2. WriterInvariant /\ JobsKnown /\ [WriteNext]_writeVars => (WriterInvariant /\ JobsKnown)'
  BY MoveKeeps, WriteNextMoves, JobsStep
<1>3. WriterInvariant /\ JobsKnown => WriteTypeOK /\ WriteInv
  BY DEF WriterInvariant, JobsKnown, WriteTypeOK, WriteInv
<1> QED BY <1>1, <1>2, <1>3, PTL DEF WriteSpec

\* A rename replaces the reviewed source, which is then in the backup, unless
\* somebody edited the file by hand after the comparison (durable_write).
THEOREM RenamesOnlyReviewed == WriteSpec => ReplacesReviewed
<1> DEFINE Reviewed ==
      \A w \in Writers :
        stage[w] = "copied" /\ stage'[w] = "replaced" =>
          /\ file' = job[w].result
          /\ ~raced => file = job[w].base /\ (backup = file \/ file = Missing)
<1>1. WriterInvariant /\ [WriteNext]_writeVars => [Reviewed]_writeVars
  BY RenameIsReviewed, WriteNextMoves
<1>2. WriterInvariant /\ [WriteNext]_writeVars => WriterInvariant'
  BY MoveKeeps, WriteNextMoves
<1> QED BY <1>1, <1>2, WriteInitHolds, PTL DEF WriteSpec, ReplacesReviewed

-----------------------------------------------------------------------------
(* The session *)

Modals == {"confirm", "save", "cache"}

\* A modal that decides something is open only while no handler runs.
ModalInv ==
  /\ overlay \in Modals => phase = "idle"
  /\ ConfirmedIsShown

\* A plan and a proposal depend on nothing but what they are made from.
LEMMA PlanStays ==
  ASSUME UNCHANGED <<loaded, snapshot, protection>>
  PROVE  Plan' = Plan
BY DEF Plan

LEMMA SurveyStays ==
  ASSUME UNCHANGED <<snapshot, prefixes>>
  PROVE  Survey' = Survey
BY DEF Survey

\* What the session does not take part in.
Bystander == UNCHANGED sessionVars /\ job'[Session] = job[Session]

LEMMA OthersStandBy ==
  ASSUME WriterInvariant, Others
  PROVE  Bystander
<1>1. UNCHANGED sessionVars
  BY DEF Others, EngineChanges, OthersProtect, OthersEditConfig, OthersChange, CommandBegins,
         CommandStep, CommandBreaks
<1>2. ASSUME NEW w \in Writers, w # Session, Ends(w)  PROVE job'[Session] = job[Session]
  BY <1>2, SessionAssumption DEF Ends, WriterInvariant
<1>3. ASSUME NEW w \in Writers, CommandBegins(w)  PROVE job'[Session] = job[Session]
  BY <1>3, SessionAssumption DEF CommandBegins, BeginWrite, WriterInvariant
<1>4. ASSUME NEW w \in Writers, CommandStep(w) \/ CommandBreaks(w)
      PROVE  job'[Session] = job[Session]
  BY <1>2, <1>4 DEF CommandStep, CommandBreaks, WriterStep, LockAndCompare, StartCopy,
                    FinishCopy, Replace, FinishWrite, BreakWrite
<1>5. EngineChanges \/ OthersProtect \/ OthersEditConfig => job' = job
  BY DEF EngineChanges, OthersProtect, OthersEditConfig, HandEdit, writeVars
<1>6. QED
  BY <1>1, <1>3, <1>4, <1>5 DEF Others, Bystander

\* No modal that shows a plan is open afterwards, and none is executed.
LEMMA NothingConfirmed ==
  ASSUME overlay' \in Modals => phase' = "idle", overlay' # "confirm", phase' # "execute"
  PROVE  ModalInv'
BY DEF ModalInv, ConfirmedIsShown

\* A key acts on what its modal has shown, a handler runs under no modal.
LEMMA ModalStep ==
  ASSUME ModalInv, Key \/ HandlerStep \/ SaveBreaks \/ Leaves \/ Bystander
  PROVE  ModalInv'
<1>1. CASE Quits
  BY <1>1, NothingConfirmed DEF Quits, Modals
<1>2. CASE Bystander
  BY <1>2, PlanStays DEF Bystander, sessionVars, handlerVars, planVars, modalVars, ModalInv,
                         ConfirmedIsShown
<1>3. CASE OpenConfirmation
  <2>1. Plan' = Plan
    BY <1>3, PlanStays DEF OpenConfirmation, planVars
  <2>2. QED
    BY <1>3, <2>1 DEF OpenConfirmation, Listening, planVars, handlerVars, ModalInv, ConfirmedIsShown
<1>4. CASE ConfirmApply
  <2>1. Plan = shown /\ validity = "valid" /\ Removals(Plan) # {}
    BY <1>4 DEF ConfirmApply, ModalInv, ConfirmedIsShown
  <2>2. CASE ~Quits
    <3>1. Plan' = Plan /\ overlay' = "none"
      BY <1>4, <2>2, PlanStays DEF ConfirmApply
    <3>2. phase' = "execute" => UNCHANGED <<validity, shown>>
      BY <1>4, <2>2 DEF ConfirmApply
    <3>3. QED
      BY <2>1, <3>1, <3>2 DEF ModalInv, ConfirmedIsShown, Modals
  <2>3. QED
    BY <1>1, <2>2
<1>5. CASE \/ RefreshTick \/ PressRefresh \/ CloseOverlay \/ OpenHelp
           \/ \E v \in {"review", "keeping", "setup"} : SwitchView(v)
  BY <1>5, NothingConfirmed
     DEF RefreshTick, PressRefresh, CloseOverlay, OpenHelp, SwitchView, StartsRefresh, Listening,
         handlerVars, modalVars, Modals
<1>6. CASE \E d \in Rows :
             PressProtect(d) \/ PressFamily(d) \/ \E p \in DOMAIN PrefixNames : ApprovePrefix(d, p)
  BY <1>1, <1>6, NothingConfirmed
     DEF PressProtect, PressFamily, ApprovePrefix, StartsChange, Listening, handlerVars,
         modalVars, Modals
<1>7. CASE \/ \E c \in Survey : ToggleCandidate(c)
           \/ AcceptCache \/ \E p \in 1..ProfileCount : CycleProfile(p)
           \/ \E settings \in EditedSettings : EditPolicy(settings)
           \/ Preview \/ PressSave
  <2>1. phase = "idle" /\ phase' = "idle"
    BY <1>7 DEF ToggleCandidate, AcceptCache, CycleProfile, EditPolicy, Preview, PressSave,
                SetupKey, Listening, SetupUnchanged, handlerVars
  <2>2. overlay' # "confirm"
    BY <1>7 DEF ToggleCandidate, AcceptCache, CycleProfile, EditPolicy, Preview, PressSave,
                SetupKey, Listening, modalVars
  <2>3. QED
    BY <2>1, <2>2, NothingConfirmed
<1>8. CASE ConfirmSave
  BY <1>8, NothingConfirmed DEF ConfirmSave, Modals
<1>9. CASE phase \notin {"idle", "quit"} /\ overlay' \in {overlay, "none"} /\ phase' # "execute"
  BY <1>9, NothingConfirmed DEF ModalInv, Modals
<1>10. CASE HandlerStep \/ SaveBreaks
  BY <1>1, <1>9, <1>10
     DEF HandlerStep, ReadFiles, InstallSnapshot, RefreshFails, ExecutePlan, UpdateEntries,
         UpdateFails, BeginSave, SaveFails, SessionWrites, SaveBreaks, StartsRefresh, modalVars
<1>11. CASE Leaves
  BY <1>1, <1>11 DEF Leaves
<1>12. QED
  BY <1>2, <1>3, <1>4, <1>5, <1>6, <1>7, <1>8, <1>10, <1>11 DEF Key

-----------------------------------------------------------------------------
(* What is selected, and what is proposed of it *)

SelectionInv == SelectionSurveyed /\ CacheAuthorized

\* What changes neither the survey, the selection nor the policy.
SetupStays == UNCHANGED <<loaded, snapshot, prefixes, selected, policy, proposal, authorized>>

ProposalMade == proposal # None => proposal = Proposed(loaded, Survey, snapshot, selected, policy)

LEMMA StayingKeeps ==
  ASSUME SelectionInv, ProposalMade, SetupStays
  PROVE  SelectionInv' /\ ProposalMade'
<1>1. Survey' = Survey
  BY SurveyStays DEF SetupStays
<1>2. QED
  BY <1>1 DEF SetupStays, SelectionInv, SelectionSurveyed, CacheAuthorized, ProposalMade

LEMMA QuitsKeeps ==
  ASSUME Quits
  PROVE  SelectionInv' /\ ProposalMade'
BY DEF Quits, SelectionInv, SelectionSurveyed, CacheAuthorized, ProposalMade

\* The steps that change none of it, or end the session.
LEMMA StayingSteps ==
  ASSUME SelectionInv, ProposalMade,
         \/ RefreshTick \/ PressRefresh \/ OpenConfirmation \/ CloseOverlay \/ OpenHelp
         \/ ConfirmApply \/ \E v \in {"review", "keeping", "setup"} : SwitchView(v)
         \/ \E d \in Rows : PressProtect(d) \/ PressFamily(d)
         \/ PressSave \/ ConfirmSave
         \/ ReadFiles \/ RefreshFails \/ ExecutePlan \/ UpdateEntries \/ UpdateFails
         \/ BeginSave \/ SaveFails \/ SessionWrites \/ SaveBreaks \/ Leaves \/ Bystander
  PROVE  SelectionInv' /\ ProposalMade'
<1>1. SetupStays \/ Quits
  BY DEF SetupStays, RefreshTick, PressRefresh, OpenConfirmation, CloseOverlay, OpenHelp,
         ConfirmApply, SwitchView, PressProtect, PressFamily, StartsChange, PressSave,
         ConfirmSave, SetupUnchanged, ReadFiles, RefreshFails, ExecutePlan, UpdateEntries,
         UpdateFails, BeginSave, SaveFails, SessionWrites, SaveBreaks, Leaves, Bystander,
         sessionVars, planVars, setupVars
<1>2. QED
  BY <1>1, StayingKeeps, QuitsKeeps

\* An approved prefix is offered under its own id.
LEMMA PrefixId ==
  ASSUME NEW p, NEW inventory
  PROVE  PrefixCandidate(p, inventory).id = p
BY DEF PrefixCandidate, Candidate

LEMMA SelectionSteps ==
  ASSUME SelectionInv, ProposalMade,
         \/ \E c \in Survey : ToggleCandidate(c)
         \/ AcceptCache
         \/ \E d \in Rows : \E p \in DOMAIN PrefixNames : ApprovePrefix(d, p)
  PROVE  SelectionInv' /\ ProposalMade'
<1>1. CASE AcceptCache \/ \E c \in Survey : ToggleCandidate(c)
  <2>1. Survey' = Survey /\ UNCHANGED <<loaded, snapshot, prefixes, policy>>
    BY <1>1, SurveyStays DEF AcceptCache, ToggleCandidate, SetupUnchanged, planVars
  <2>2. proposal' = None \/ UNCHANGED <<selected, proposal>>
    BY <1>1 DEF AcceptCache, ToggleCandidate
  <2>3. selected' \subseteq IdsIn(Survey)
    BY <1>1 DEF AcceptCache, ToggleCandidate, SelectionInv, SelectionSurveyed, IdsIn
  <2>4. CacheId \in selected' => authorized'
    BY <1>1 DEF AcceptCache, ToggleCandidate, SelectionInv, CacheAuthorized
  <2>5. QED
    BY <2>1, <2>2, <2>3, <2>4 DEF SelectionInv, SelectionSurveyed, CacheAuthorized, ProposalMade
<1>2. ASSUME NEW d \in Rows, NEW p \in DOMAIN PrefixNames, ApprovePrefix(d, p)
      PROVE  SelectionInv' /\ ProposalMade'
  <2>1. CASE Quits
    BY <2>1, QuitsKeeps
  <2>2. CASE /\ prefixes' = prefixes \cup {p} /\ selected' = selected \cup {p}
             /\ proposal' = None /\ UNCHANGED <<snapshot, authorized>>
    <3>1. IdsIn(Survey) \subseteq IdsIn(Survey')
      BY <2>2 DEF Survey, IdsIn
    <3>2. p \in IdsIn(Survey')
      <4>1. PrefixCandidate(p, snapshot) \in Survey'
        BY <2>2 DEF Survey
      <4>2. QED
        BY <4>1, PrefixId DEF IdsIn
    <3>3. CacheId \in selected' => authorized'
      BY <2>2, CandidateAssumption DEF SelectionInv, CacheAuthorized
    <3>4. QED
      BY <2>2, <3>1, <3>2, <3>3 DEF SelectionInv, SelectionSurveyed, CacheAuthorized, ProposalMade, IdsIn
  <2>3. QED
    BY <1>2, <2>1, <2>2 DEF ApprovePrefix, planVars
<1>3. QED
  BY <1>1, <1>2

\* The remaining keys of Setup, and the refresh.
LEMMA ProposalSteps ==
  ASSUME SelectionInv, ProposalMade,
         \/ \E p \in 1..ProfileCount : CycleProfile(p)
         \/ \E settings \in EditedSettings : EditPolicy(settings)
         \/ Preview \/ InstallSnapshot
  PROVE  SelectionInv' /\ ProposalMade'
<1>1. CASE \/ \E p \in 1..ProfileCount : CycleProfile(p)
           \/ \E settings \in EditedSettings : EditPolicy(settings)
           \/ Preview
  <2>1. Survey' = Survey /\ UNCHANGED <<loaded, snapshot, prefixes, selected, authorized>>
    BY <1>1, SurveyStays DEF CycleProfile, EditPolicy, Preview, SetupUnchanged, planVars
  <2>2. \/ proposal' = None
        \/ policy' = policy /\ proposal' = Proposed(loaded, Survey, snapshot, selected, policy)
    BY <1>1 DEF CycleProfile, EditPolicy, Preview
  <2>3. QED
    BY <2>1, <2>2 DEF SelectionInv, SelectionSurveyed, CacheAuthorized, ProposalMade
<1>2. CASE InstallSnapshot
  <2> DEFINE kept  == Kept(docker)
             ruled == ManagedCandidates(fetched.source, SurveyOf(docker))
  <2>1. /\ snapshot' = docker /\ prefixes' = {} /\ proposal' = None
        /\ selected' = IF kept # {} THEN kept ELSE ruled
        /\ authorized' = (authorized \/ (kept = {} /\ CacheId \in ruled))
    BY <1>2 DEF InstallSnapshot
  <2>2. kept \subseteq selected /\ kept \subseteq IdsIn(SurveyOf(docker))
    BY DEF Kept
  <2>3. ruled \subseteq IdsIn(SurveyOf(docker))
    BY DEF ManagedCandidates
  <2>4. Survey' = SurveyOf(docker)
    BY <2>1 DEF Survey
  <2> HIDE DEF kept, ruled
  <2>5. SelectionSurveyed'
    BY <2>1, <2>2, <2>3, <2>4 DEF SelectionSurveyed
  <2>6. CacheAuthorized'
    BY <2>1, <2>2 DEF SelectionInv, CacheAuthorized
  <2>7. QED
    BY <2>1, <2>5, <2>6 DEF SelectionInv, ProposalMade
<1>3. QED
  BY <1>1, <1>2

LEMMA SetupStep ==
  ASSUME SelectionInv, ProposalMade, Key \/ HandlerStep \/ SaveBreaks \/ Leaves \/ Bystander
  PROVE  SelectionInv' /\ ProposalMade'
BY StayingSteps, SelectionSteps, ProposalSteps DEF Key, HandlerStep

\* What is being saved is what the modal has shown.
SavingInv ==
  /\ overlay = "save" \/ phase = "save" => proposal # None /\ proposal = shown
  /\ phase = "write" => job[Session] = proposal

LEMMA NothingSaved ==
  ASSUME overlay' # "save", phase' \notin {"save", "write"}
  PROVE  SavingInv'
BY DEF SavingInv

\* The writer has taken up the proposal, or has refused it.
LEMMA WritingStep ==
  ASSUME WriterInvariant, ModalInv, SavingInv, BeginSave \/ SessionWrites
  PROVE  SavingInv'
<1>1. overlay' # "save" /\ proposal' = proposal
  BY DEF BeginSave, SessionWrites, setupVars, modalVars, ModalInv, Modals
<1>2. Session \in Writers
  BY SessionAssumption
<1>3. ASSUME Ends(Session)  PROVE stage'[Session] = "rest"
  BY <1>2, <1>3 DEF Ends, WriterInvariant
<1>4. CASE BeginSave
  <2>1. stage'[Session] # "rest" => job'[Session] = proposal
    BY <1>2, <1>4 DEF BeginSave, BeginWrite, WriterInvariant
  <2>2. phase' = IF stage'[Session] = "rest" THEN "idle" ELSE "write"
    BY <1>4 DEF BeginSave
  <2>3. QED
    BY <1>1, <2>1, <2>2 DEF SavingInv
<1>5. CASE SessionWrites
  <2>1. CASE FinishWrite(Session) /\ StartsRefresh("save")
    BY <1>1, <2>1, NothingSaved DEF StartsRefresh
  <2>2. CASE /\ \/ LockAndCompare(Session) \/ StartCopy(Session) \/ FinishCopy(Session)
                \/ Replace(Session)
             /\ phase' = IF stage'[Session] = "rest" THEN "idle" ELSE "write"
    <3>1. stage'[Session] # "rest" => job' = job
      BY <1>3, <2>2 DEF LockAndCompare, StartCopy, FinishCopy, Replace
    <3>2. job[Session] = proposal
      BY <1>5 DEF SessionWrites, SavingInv
    <3>3. QED
      BY <1>1, <2>2, <3>1, <3>2 DEF SavingInv
  <2>3. QED
    BY <1>5, <2>1, <2>2 DEF SessionWrites
<1>6. QED
  BY <1>4, <1>5

LEMMA SavingStep ==
  ASSUME WriterInvariant, ModalInv, SavingInv,
         Key \/ HandlerStep \/ SaveBreaks \/ Leaves \/ Bystander
  PROVE  SavingInv'
<1>1. CASE Quits
  BY <1>1, NothingSaved DEF Quits
<1>2. CASE Bystander
  BY <1>2 DEF Bystander, sessionVars, handlerVars, modalVars, setupVars, SavingInv
<1>3. CASE PressSave
  BY <1>3 DEF PressSave, SetupKey, Listening, SetupUnchanged, handlerVars, setupVars, SavingInv
<1>4. CASE ConfirmSave
  BY <1>4 DEF ConfirmSave, setupVars, SavingInv
<1>5. CASE Listening /\ overlay' # "save" /\ phase' \notin {"save", "write"}
  BY <1>5, NothingSaved
<1>6. CASE \/ PressRefresh \/ OpenConfirmation \/ OpenHelp \/ Preview
           \/ \E v \in {"review", "keeping", "setup"} : SwitchView(v)
           \/ \E d \in Rows :
                PressProtect(d) \/ PressFamily(d) \/ \E p \in DOMAIN PrefixNames : ApprovePrefix(d, p)
           \/ \E c \in Survey : ToggleCandidate(c)
           \/ \E p \in 1..ProfileCount : CycleProfile(p)
           \/ \E settings \in EditedSettings : EditPolicy(settings)
  BY <1>1, <1>5, <1>6
     DEF PressRefresh, OpenConfirmation, OpenHelp, Preview, SwitchView, PressProtect, PressFamily,
         ApprovePrefix, ToggleCandidate, CycleProfile, EditPolicy, StartsRefresh, StartsChange,
         SetupKey, SetupUnchanged, Listening, handlerVars, modalVars
<1>7. CASE RefreshTick \/ CloseOverlay \/ AcceptCache
  BY <1>7, NothingSaved
     DEF RefreshTick, CloseOverlay, AcceptCache, StartsRefresh, SetupUnchanged, handlerVars, modalVars
<1>8. CASE ConfirmApply
  BY <1>1, <1>8, NothingSaved DEF ConfirmApply
<1>9. CASE phase \notin {"idle", "quit"} /\ overlay' \in {overlay, "none"}
           /\ phase' \notin {"save", "write"}
  BY <1>9, NothingSaved DEF ModalInv, Modals
<1>10. CASE \/ ReadFiles \/ InstallSnapshot \/ RefreshFails \/ ExecutePlan \/ UpdateEntries
            \/ UpdateFails \/ SaveFails \/ SaveBreaks
  BY <1>1, <1>9, <1>10
     DEF ReadFiles, InstallSnapshot, RefreshFails, ExecutePlan, UpdateEntries, UpdateFails,
         SaveFails, SaveBreaks, StartsRefresh, modalVars
<1>11. CASE Leaves
  BY <1>1, <1>11 DEF Leaves
<1>12. QED
  BY <1>2, <1>3, <1>4, <1>6, <1>7, <1>8, <1>10, <1>11, WritingStep DEF Key, HandlerStep

-----------------------------------------------------------------------------
(* The invariant *)

SessionInv == WriterInvariant /\ ModalInv /\ SelectionInv /\ ProposalMade /\ SavingInv

\* The session writes like any other writer.
LEMMA NextMoves == Next => WriterMove \/ UNCHANGED writeVars
<1>1. Session \in Writers
  BY SessionAssumption
<1>2. Key \/ Leaves \/ SaveBreaks => WriterMove \/ UNCHANGED writeVars
  BY <1>1 DEF Key, Leaves, SaveBreaks, WriterMove, RefreshTick, PressRefresh, OpenConfirmation,
     CloseOverlay, OpenHelp, ConfirmApply, SwitchView, PressProtect, PressFamily, ApprovePrefix,
     ToggleCandidate, AcceptCache, CycleProfile, EditPolicy, Preview, PressSave, ConfirmSave,
     SetupUnchanged, StartsChange
<1>3. HandlerStep => WriterMove \/ UNCHANGED writeVars
  BY <1>1 DEF HandlerStep, WriterMove, WriterStep, ReadFiles, InstallSnapshot, RefreshFails,
     ExecutePlan, UpdateEntries, UpdateFails, BeginSave, SaveFails, SessionWrites
<1>4. Others => WriterMove \/ UNCHANGED writeVars
  BY DEF Others, WriterMove, EngineChanges, OthersProtect, OthersEditConfig, CommandBegins,
         CommandStep, CommandBreaks
<1>5. QED
  BY <1>2, <1>3, <1>4 DEF Next

LEMMA SessionInit == Init => SessionInv
<1> SUFFICES ASSUME Init  PROVE SessionInv
  OBVIOUS
<1>1. WriterInvariant
  BY WriteInitHolds DEF Init
<1>2. ModalInv /\ SavingInv /\ ProposalMade
  BY DEF Init, ModalInv, ConfirmedIsShown, Modals, SavingInv, ProposalMade
<1>3. SurveyOf(snapshot) \subseteq Survey
  BY DEF Survey
<1>4. selected \subseteq IdsIn(SurveyOf(snapshot))
  BY DEF Init, ManagedCandidates
<1>5. SelectionInv
  BY <1>3, <1>4 DEF Init, SelectionInv, SelectionSurveyed, CacheAuthorized, IdsIn
<1>6. QED
  BY <1>1, <1>2, <1>5 DEF SessionInv

LEMMA SessionStep ==
  ASSUME SessionInv, [Next]_vars
  PROVE  SessionInv'
<1>1. WriterInvariant'
  BY MoveKeeps, NextMoves DEF SessionInv, vars
<1>2. Key \/ HandlerStep \/ SaveBreaks \/ Leaves \/ Bystander
  <2>1. UNCHANGED vars => Bystander
    BY DEF vars, writeVars, Bystander
  <2>2. QED
    BY <2>1, OthersStandBy DEF Next, SessionInv
<1>3. QED
  BY <1>1, <1>2, ModalStep, SetupStep, SavingStep DEF SessionInv

\* For any files, surveys, editors, commands and keys: the modals, the selection,
\* the proposal, the write under way and the lock belong together at every step.
THEOREM SessionInvariant == Spec => []SessionInv
<1>1. QED
  BY SessionInit, SessionStep, PTL DEF Spec

\* Enter in the confirmation applies the plan that the confirmation has shown
\* since it opened, which was not known to be stale and not empty, whatever the
\* timer, the engine, other processes and editors of the file do meanwhile.
THEOREM ConfirmedPlanIsShown == Spec => []ConfirmedIsShown
<1>1. SessionInv => ConfirmedIsShown
  BY DEF SessionInv, ModalInv
<1>2. QED
  BY <1>1, SessionInvariant, PTL

\* The proposal that can be saved is the one that the present selection, policy
\* and snapshot give, and the one that is written is the one that was shown.
THEOREM ProposalIsCurrent == Spec => []ProposalCurrent
<1>1. SessionInv => ProposalCurrent
  BY DEF SessionInv, ProposalMade, SavingInv, ProposalCurrent
<1>2. QED
  BY <1>1, SessionInvariant, PTL

\* The build cache is selected only after its own modal was accepted in this
\* session, or because the file already had its rule.
THEOREM CacheSelectedByConsent == Spec => []CacheAuthorized
<1>1. SessionInv => CacheAuthorized
  BY DEF SessionInv, SelectionInv
<1>2. QED
  BY <1>1, SessionInvariant, PTL

\* Whatever is selected is offered, through every refresh, so that it can be
\* proposed.
THEOREM SelectionIsSurveyed == Spec => []SelectionSurveyed
<1>1. SessionInv => SelectionSurveyed
  BY DEF SessionInv, SelectionInv
<1>2. QED
  BY <1>1, SessionInvariant, PTL

\* A rename replaces exactly the reviewed source, also when the session writes
\* its own proposals beside commands that write theirs.
THEOREM SessionReplacesReviewed == Spec => ReplacesReviewed
<1> DEFINE Reviewed ==
      \A w \in Writers :
        stage[w] = "copied" /\ stage'[w] = "replaced" =>
          /\ file' = job[w].result
          /\ ~raced => file = job[w].base /\ (backup = file \/ file = Missing)
<1>1. SessionInv /\ [Next]_vars => [Reviewed]_writeVars
  BY RenameIsReviewed, NextMoves DEF SessionInv, vars
<1>2. QED
  BY <1>1, SessionInvariant, PTL DEF Spec, ReplacesReviewed

-----------------------------------------------------------------------------
(* Protecting a row or a family *)

\* The entry of a change that adds one matches all that is said to be covered.
CoversInv ==
  /\ docker \subseteq Items /\ snapshot \subseteq Items
  /\ phase = "protect" /\ change.op = "add" => \A i \in change.covers : EntryMatches(change.entry, i)

\* A row is about a resource of the snapshot.
LEMMA DecidesItem ==
  ASSUME NEW c, NEW item, NEW now, NEW removals, NEW set, NEW obs
  PROVE  Decide(c, item, now, removals, set, obs).resource = item
BY DEF Decide, DecideBuildCache, DecideByRule, KeepDecision, RemoveDecision, Unowned

LEMMA RowsOfSnapshot ==
  ASSUME NEW d \in Rows
  PROVE  d.resource \in snapshot
<1>1. d \in Plan
  BY DEF Rows, Removals
<1>2. PICK item \in snapshot :
        d = Decide(Parsed(loaded), item, Now, CacheRemovals(Parsed(loaded).cache, snapshot, Now),
                   protection, {})
  BY <1>1 DEF Plan, PlanFor, BuildPlan
<1>3. QED
  BY <1>2, DecidesItem

\* The family of a resource is one of its labels.
LEMMA FamilyIsLabel ==
  ASSUME NEW item, FamilyOf(item) # None
  PROVE  FamilyOf(item) \in item.labels
<1> DEFINE found == {n \in DOMAIN Families : Families[n] \in item.labels}
<1>1. found \subseteq Nat /\ found # {}
  BY SessionAssumption DEF FamilyOf
<1>2. \E n \in found : \A m \in found : n <= m
  <2> HIDE DEF found
  <2>1. PICK n \in found : \A m \in found : ~(<<m, n>> \in OpToRel(<, Nat))
    BY <1>1, NatLessThanWellFounded, WFMin
  <2>2. \A m \in found : ~(m < n)
    BY <1>1, <2>1 DEF OpToRel
  <2>3. QED
    BY <1>1, <2>2
<1>3. QED
  BY <1>1, <1>2 DEF FamilyOf

LEMMA PressCovers ==
  ASSUME CoversInv, NEW d \in Rows, PressProtect(d) \/ PressFamily(d)
  PROVE  CoversInv'
<1>1. UNCHANGED <<docker, snapshot>>
  BY DEF PressProtect, PressFamily, StartsChange, worldVars, planVars
<1>2. CASE PressProtect(d)
  <2> DEFINE item  == d.resource
             entry == [kind |-> item.kind, value |-> item.id]
  <2>1. item \in Items
    BY RowsOfSnapshot DEF CoversInv
  <2>2. EntryMatches(entry, item)
    BY <2>1, SessionAssumption DEF EntryMatches
  <2>3. \/ change'.op = "remove"
        \/ change'.covers = {item} /\ change'.entry = entry
    BY <1>2 DEF PressProtect, StartsChange
  <2>4. QED
    BY <1>1, <2>2, <2>3 DEF CoversInv
<1>3. CASE PressFamily(d)
  <2> DEFINE family == FamilyOf(d.resource)
             entry  == [kind |-> "label", value |-> family]
  <2>1. family # None
    BY <1>3 DEF PressFamily
  <2>2. ASSUME NEW i \in snapshot, FamilyOf(i) = family  PROVE EntryMatches(entry, i)
    BY <2>1, <2>2, FamilyIsLabel DEF EntryMatches
  <2>3. \/ change'.op = "remove"
        \/ change'.covers = {i \in snapshot : FamilyOf(i) = family} /\ change'.entry = entry
    BY <1>3 DEF PressFamily, StartsChange
  <2>4. QED
    BY <1>1, <2>2, <2>3 DEF CoversInv
<1>4. QED
  BY <1>2, <1>3

\* The resources there are, and those in the snapshot, stay among Items.
LEMMA ItemsKnown ==
  ASSUME CoversInv, [Next]_vars
  PROVE  docker' \subseteq Items /\ snapshot' \subseteq Items
<1>1. CASE Others
  BY <1>1, SessionAssumption
     DEF Others, EngineChanges, OthersProtect, OthersEditConfig, OthersChange, CommandBegins,
         CommandStep, CommandBreaks, sessionVars, planVars, worldVars, CoversInv
<1>2. CASE ExecutePlan
  BY <1>2 DEF ExecutePlan, Quits, planVars, CoversInv
<1>3. CASE Key
  <2>1. snapshot' \in {snapshot, {}}
    BY <1>3 DEF Key, RefreshTick, PressRefresh, OpenConfirmation, CloseOverlay, OpenHelp,
       ConfirmApply, SwitchView, PressProtect, PressFamily, ApprovePrefix, ToggleCandidate,
       AcceptCache, CycleProfile, EditPolicy, Preview, PressSave, ConfirmSave,
       SetupUnchanged, StartsChange, Quits, planVars
  <2>2. docker' = docker
    BY <1>3 DEF Key, RefreshTick, PressRefresh, OpenConfirmation, CloseOverlay, OpenHelp,
       ConfirmApply, SwitchView, PressProtect, PressFamily, ApprovePrefix, ToggleCandidate,
       AcceptCache, CycleProfile, EditPolicy, Preview, PressSave, ConfirmSave,
       SetupUnchanged, StartsChange, worldVars
  <2>3. QED
    BY <2>1, <2>2 DEF CoversInv
<1>4. CASE \/ ReadFiles \/ InstallSnapshot \/ RefreshFails \/ UpdateEntries \/ UpdateFails
           \/ BeginSave \/ SaveFails \/ SessionWrites \/ SaveBreaks \/ Leaves
           \/ UNCHANGED vars
  <2>1. docker' = docker
    BY <1>4 DEF ReadFiles, InstallSnapshot, RefreshFails, UpdateEntries, UpdateFails, BeginSave,
       SaveFails, SessionWrites, SaveBreaks, Leaves, worldVars, vars
  <2>2. snapshot' \in {snapshot, docker, {}}
    BY <1>4 DEF ReadFiles, InstallSnapshot, RefreshFails, UpdateEntries, UpdateFails, BeginSave,
       SaveFails, SessionWrites, SaveBreaks, Leaves, Quits, vars, sessionVars, planVars
  <2>3. QED
    BY <2>1, <2>2 DEF CoversInv
<1>5. QED
  BY <1>1, <1>2, <1>3, <1>4 DEF Next, HandlerStep

\* Every other step leaves a change alone, or is not a step towards one.
LEMMA CoversStep ==
  ASSUME CoversInv, [Next]_vars
  PROVE  CoversInv'
<1>1. CASE phase' # "protect" \/ UNCHANGED <<phase, change>>
  BY <1>1, ItemsKnown DEF CoversInv
<1>2. CASE Key
  <2>1. ASSUME NEW d \in Rows, PressProtect(d) \/ PressFamily(d)  PROVE CoversInv'
    BY <2>1, PressCovers
  <2>2. CASE ~\E d \in Rows : PressProtect(d) \/ PressFamily(d)
    <3>1. phase' # "protect" \/ UNCHANGED <<phase, change>>
      BY <1>2, <2>2
         DEF Key, RefreshTick, PressRefresh, OpenConfirmation, CloseOverlay, OpenHelp, StartsRefresh,
             ConfirmApply, SwitchView, ApprovePrefix, ToggleCandidate, AcceptCache, CycleProfile,
             EditPolicy, Preview, PressSave, ConfirmSave, SetupUnchanged, Quits, handlerVars
    <3>2. QED
      BY <1>1, <3>1
  <2>3. QED
    BY <2>1, <2>2
<1>3. CASE HandlerStep \/ SaveBreaks \/ Leaves
  BY <1>1, <1>3
     DEF HandlerStep, ReadFiles, InstallSnapshot, RefreshFails, ExecutePlan, UpdateEntries,
         UpdateFails, BeginSave, SaveFails, SessionWrites, SaveBreaks, Leaves, StartsRefresh, Quits
<1>4. CASE Others \/ UNCHANGED vars
  BY <1>1, <1>4
     DEF Others, EngineChanges, OthersProtect, OthersEditConfig, OthersChange, CommandBegins,
         CommandStep, CommandBreaks, sessionVars, handlerVars, vars
<1>5. QED
  BY <1>2, <1>3, <1>4 DEF Next

\* Only the change itself leads from its phase to the refresh.
LEMMA ProtectStep ==
  ASSUME [Next]_vars, phase = "protect", phase' = "refresh"
  PROVE  UpdateEntries
<1>1. ~Key
  BY DEF Key, RefreshTick, PressRefresh, OpenConfirmation, CloseOverlay, OpenHelp, ConfirmApply,
     SwitchView, PressProtect, PressFamily, ApprovePrefix, ToggleCandidate, AcceptCache,
     CycleProfile, EditPolicy, Preview, PressSave, ConfirmSave, SetupKey, Listening
<1>2. ~(SaveBreaks \/ Leaves \/ Others \/ UNCHANGED vars)
  BY DEF SaveBreaks, Leaves, Quits, Others, EngineChanges, OthersProtect, OthersEditConfig,
     OthersChange, CommandBegins, CommandStep, CommandBreaks, sessionVars, handlerVars, vars
<1>3. HandlerStep
  BY <1>1, <1>2 DEF Next
<1>4. QED
  BY <1>3 DEF HandlerStep, ReadFiles, InstallSnapshot, RefreshFails, ExecutePlan, UpdateFails,
     BeginSave, SaveFails, SessionWrites, Quits

\* Protecting a row or a family protects each resource the session counts for
\* it, whatever other processes have done to the entries since they were read.
THEOREM ProtectionCoversAll == Spec => ProtectCovers
<1> DEFINE Covered ==
      phase = "protect" /\ phase' = "refresh" /\ change.op = "add" =>
        \A i \in change.covers : Protected(entries', i)
<1>1. Init => CoversInv
  BY SessionAssumption DEF Init, CoversInv
<1>2. CoversInv /\ [Next]_vars => CoversInv'
  BY CoversStep
<1>3. CoversInv /\ [Next]_vars => Covered
  <2> SUFFICES ASSUME CoversInv, [Next]_vars, phase = "protect", phase' = "refresh",
                      change.op = "add", NEW i \in change.covers
               PROVE  Protected(entries', i)
    OBVIOUS
  <2>1. change.entry \in entries'
    BY ProtectStep DEF UpdateEntries
  <2>2. EntryMatches(change.entry, i)
    BY DEF CoversInv
  <2>3. QED
    BY <2>1, <2>2 DEF Protected
<1>4. CoversInv /\ [Next]_vars => [Covered]_vars
  BY <1>3
<1>5. QED
  BY <1>1, <1>2, <1>4, PTL DEF Spec, ProtectCovers

=============================================================================
