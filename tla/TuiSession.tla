------------------------------ MODULE TuiSession ------------------------------
(***************************************************************************)
(* One session of the terminal interface (App in src/src/tui.rs) beside    *)
(* the engine, the protection file, people who edit the configuration, and *)
(* `config propose` / `config write` commands.  What a proposal contains   *)
(* (src/src/configurator.rs) is part of the module.                        *)
(*                                                                         *)
(* The session handles one key, timer or signal at a time; its awaits are  *)
(* steps between which the rest of the world moves.  phase says where the  *)
(* handler stands.  Text editors, filters, scrolling and drawing are left  *)
(* out: the cursor may stand on any row of the view, and an edited prefix  *)
(* or value arrives as a whole.  The journal's part of an apply is among   *)
(* the failures an apply may have.                                         *)
(*                                                                         *)
(* File contents are records [manual, managed]: the hand-written part      *)
(* [rules, protect, cache, stray] and the generated rules of the marked    *)
(* region, [id, policy] each, or None for a source without the region; stray *)
(* marks half a region or a generated id outside it.                       *)
(***************************************************************************)
EXTENDS ConfigWrite, Policy

CONSTANTS
  Session,        \* the writer that is this session
  Items,          \* the resources the engine may hold
  ItemSets,       \* engine contents others may bring about
  EntrySets,      \* protection entries other processes may bring about
  Now,            \* the clock: ages are part of the items
  Broken,         \* a source that does not load
  Families,       \* the labels that identify a family, Compose projects first
  PrefixNames,    \* [prefix an operator may approve |-> the names it begins]
  ProfileCount,   \* number of profiles
  Workstation,    \* the profile a session starts with
  Settings,       \* [1..ProfileCount -> policy settings]
  CommandIds,     \* candidate ids others propose
  EditedSettings, \* other settings an operator may type
  MaxChanges,     \* bound on the changes others make
  MaxKeys         \* bound on the changes the operator makes or begins to make

ASSUME SessionAssumption ==
  /\ Session \in Writers
  /\ Broken \notin Proposals
  /\ ProfileCount \in Nat
  /\ Workstation \in 1..ProfileCount
  /\ MaxChanges \in Nat
  /\ MaxKeys \in Nat
  /\ \A i \in Items : i.kind \in {"container", "build-cache"}
  /\ \A set \in ItemSets : set \subseteq Items
  /\ DOMAIN Families \subseteq Nat

VARIABLES
  docker,      \* the resources the engine holds
  entries,     \* the protection file
  phase,       \* where the current handler stands
  resume,      \* what the refresh under way was started by
  fetched,     \* what the refresh under way has read
  change,      \* the protection change under way, or None
  overlay,     \* the modal that is open
  view,        \* review, keeping or setup
  loaded,      \* the source the plan was made from, or Missing (safe mode)
  snapshot,    \* the inventory the plan was made from
  protection,  \* the protection entries the plan was made with
  validity,    \* valid or stale
  prefixes,    \* the prefixes approved since the last refresh
  selected,    \* ids of the candidates selected in Setup
  profile,     \* index of the policy profile
  policy,      \* the policy settings, edited or the profile's
  proposal,    \* the proposal that was previewed, or None
  row,         \* the candidate the open cache modal is about, or None
  shown,       \* history: what the open confirmation displayed when it opened
  authorized,  \* history: may this session select the build cache
  changes, keys  \* counters for the bounds

worldVars   == <<docker, entries>>
handlerVars == <<phase, resume, fetched, change>>
planVars    == <<loaded, snapshot, protection, validity>>
setupVars   == <<view, prefixes, selected, profile, policy, proposal, authorized>>
modalVars   == <<overlay, row, shown>>
counters    == <<changes, keys>>
sessionVars == <<handlerVars, planVars, setupVars, modalVars>>
vars == <<writeVars, worldVars, sessionVars, counters>>

-----------------------------------------------------------------------------
(* Candidates and proposals *)

CacheId == "build-cache"

\* The id of a prefix says that it is one (add_name_prefix_candidate).
ASSUME CandidateAssumption == CacheId \notin DOMAIN PrefixNames

\* A candidate selects by one exact label or one approved prefix, and lists the
\* resources of the snapshot it would own.
Candidate(id, select, inventory) ==
  [id |-> id, select |-> select, resources |-> {i \in inventory : Selects(select, i)}]

LabelCandidates(inventory) ==
  {Candidate(l, [labels |-> {l}, names |-> {}], inventory) :
     l \in {f \in Range(Families) : \E i \in inventory : f \in i.labels}}

BuildCacheCandidate(inventory) ==
  LET cache == {i \in inventory : i.kind = "build-cache"}
  IN  IF cache = {} THEN {}
      ELSE {[id |-> CacheId, select |-> None, resources |-> cache]}

SurveyOf(inventory) == LabelCandidates(inventory) \cup BuildCacheCandidate(inventory)

PrefixCandidate(p, inventory) ==
  Candidate(p, [labels |-> {}, names |-> PrefixNames[p]],
            {i \in inventory : i.kind = "container"})

\* What the session offers: the survey of its snapshot and the prefixes the
\* operator has added to it since.
Survey == SurveyOf(snapshot) \cup {PrefixCandidate(p, snapshot) : p \in prefixes}

IdsIn(survey) == {c.id : c \in survey}

\* The family a resource belongs to: its Compose project before any agent label.
FamilyOf(item) ==
  LET found == {n \in DOMAIN Families : Families[n] \in item.labels}
  IN  IF found = {} THEN None ELSE Families[CHOOSE n \in found : \A m \in found : n <= m]

ManagedRule(entry, select) ==
  [name |-> entry.id, scope |-> "owned", select |-> select,
   stopped_ttl |-> entry.policy.stopped_ttl, running_ttl |-> None]

SelectOf(id) ==
  IF id \in DOMAIN PrefixNames THEN [labels |-> {}, names |-> PrefixNames[id]]
  ELSE [labels |-> {id}, names |-> {}]

\* Hand-written rules come before the region; the region is sorted by id.
RulesIn(contents, managed) ==
  LET sorted == SetToSortSeq({e \in managed : e.id # CacheId},
                             LAMBDA a, b : Rank[a.id] < Rank[b.id])
  IN  contents.manual.rules \o
        [n \in DOMAIN sorted |-> ManagedRule(sorted[n], SelectOf(sorted[n].id))]

Only(set) == CHOOSE x \in set : TRUE

CacheRuleIn(contents, managed) ==
  LET generated == {e \in managed : e.id = CacheId}
  IN  IF generated = {} THEN contents.manual.cache
      ELSE [older_than |-> Only(generated).policy.cache_ttl,
            max_bytes  |-> Only(generated).policy.cache_max_bytes]

ManagedIn(contents) == IF contents.managed = None THEN {} ELSE contents.managed

\* Config::parse of some contents; without a file, the built-in safe mode.
Parsed(contents) ==
  IF contents = Missing
  THEN [protect |-> [labels |-> {}, names |-> {}], cache |-> None,
        rules |-> [k \in Kinds |-> <<>>]]
  ELSE [protect |-> contents.manual.protect,
        cache   |-> CacheRuleIn(contents, ManagedIn(contents)),
        rules   |-> [k \in Kinds |-> IF k = "container"
                                     THEN RulesIn(contents, ManagedIn(contents))
                                     ELSE <<>>]]

PlanFor(contents, inventory, entrySet) ==
  BuildPlan(Parsed(contents), inventory, Now, entrySet, {})

Plan == PlanFor(loaded, snapshot, protection)

EmptyManual ==
  [rules |-> <<>>, protect |-> [labels |-> {}, names |-> {}], cache |-> None, stray |-> FALSE]

\* strip_managed_region
ManualOf(contents) == IF contents = Missing THEN EmptyManual ELSE contents.manual

Overlap(chosen) ==
  \E c, d \in chosen : c # d /\ c.resources \cap d.resources # {}

\* A generated rule is shadowed when the rule that decides one of the selected
\* resources, runtime protection aside, is not a generated one.
Shadowed(contents, chosen, inventory) ==
  \E c \in chosen : \E i \in c.resources :
    /\ i.kind # "build-cache"
    /\ \A d \in PlanFor(contents, inventory, {}) :
         d.resource = i => d.rule \notin {e.id : e \in contents.managed}

\* propose_configuration: the new contents, or None when it refuses.  The
\* region is generated anew from the chosen candidates alone.
Proposed(base, survey, inventory, ids, settings) ==
  LET chosen == {c \in survey : c.id \in ids}
      result == [manual  |-> ManualOf(base),
                 managed |-> {[id |-> id, policy |-> settings] : id \in ids}]
  IN  IF \/ ids = {}
         \/ ManualOf(base).stray
         \/ ids \ IdsIn(survey) # {}
         \/ Overlap(chosen)
         \/ CacheId \in ids /\ ManualOf(base).cache # None
         \/ Shadowed(result, chosen, inventory)
      THEN None
      ELSE [base |-> base, result |-> result, inventory |-> inventory,
            ids |-> ids, policy |-> settings]

\* managed_candidate_ids: the candidates of the survey the source has rules for.
ManagedCandidates(contents, survey) ==
  IF contents = Missing THEN {}
  ELSE {e.id : e \in ManagedIn(contents)} \cap IdsIn(survey)

-----------------------------------------------------------------------------
(* The rest of the world *)

OthersChange ==
  /\ phase # "quit"
  /\ changes < MaxChanges
  /\ changes' = changes + 1
  /\ UNCHANGED <<sessionVars, keys>>

EngineChanges ==
  /\ OthersChange
  /\ docker' \in ItemSets \ {docker}
  /\ UNCHANGED <<writeVars, entries>>

\* protect and unprotect run by other processes; ProtectionStore shows that each
\* of them, and of this session's own, is one indivisible change.
OthersProtect ==
  /\ OthersChange
  /\ entries' \in EntrySets \ {entries}
  /\ UNCHANGED <<writeVars, docker>>

OthersEditConfig ==
  /\ OthersChange
  /\ HandEdit
  /\ UNCHANGED worldVars

\* `config write` with a proposal somebody made of the file and the engine as
\* they are now; it may be overtaken like any other.
CommandBegins(w) ==
  /\ OthersChange
  /\ w # Session
  /\ file # Broken
  /\ \E ids \in CommandIds :
       LET made == Proposed(file, SurveyOf(docker), docker, ids, Settings[Workstation])
       IN  made # None /\ BeginWrite(w, made, docker)
  /\ UNCHANGED worldVars

CommandStep(w) ==
  /\ w # Session
  /\ WriterStep(w)
  /\ UNCHANGED <<worldVars, sessionVars, counters>>

CommandBreaks(w) ==
  /\ w # Session
  /\ BreakWrite(w)
  /\ UNCHANGED <<worldVars, sessionVars, counters>>

-----------------------------------------------------------------------------
(* Refreshing: configuration and protection are read, then the engine *)

\* The process ends and its memory is gone.
Quits ==
  /\ phase' = "quit" /\ resume' = "none" /\ fetched' = None /\ change' = None
  /\ loaded' = Missing /\ snapshot' = {} /\ protection' = {} /\ validity' = "stale"
  /\ view' = "review" /\ prefixes' = {} /\ selected' = {}
  /\ profile' = Workstation /\ policy' = Settings[Workstation]
  /\ proposal' = None /\ authorized' = FALSE
  /\ overlay' = "none" /\ row' = None /\ shown' = None

\* load_tui_config begins; the rest of the session waits.
StartsRefresh(by) ==
  /\ phase' = "refresh"
  /\ resume' = by
  /\ UNCHANGED fetched

\* Mutant: the timer refreshes under a confirmation as well.
RefreshTickAlways ==
  /\ phase = "idle"
  /\ StartsRefresh("timer")
  /\ UNCHANGED <<writeVars, worldVars, change, planVars, setupVars, modalVars, counters>>

RefreshTick ==
  /\ phase = "idle"
  /\ overlay \in {"none", "help"}
  /\ StartsRefresh("timer")
  /\ UNCHANGED <<writeVars, worldVars, change, planVars, setupVars, modalVars, counters>>

PressRefresh ==
  /\ phase = "idle"
  /\ overlay = "none"
  /\ StartsRefresh("key")
  /\ UNCHANGED <<writeVars, worldVars, change, planVars, setupVars, modalVars, counters>>

ReadFiles ==
  /\ phase = "refresh"
  /\ file # Broken
  /\ fetched' = [source |-> file, entries |-> entries]
  /\ phase' = "collect"
  /\ UNCHANGED <<writeVars, worldVars, resume, change, planVars, setupVars, modalVars, counters>>

\* Mutant: the selection is not compared with the new survey.
KeptBlindly(inventory) == selected

Kept(inventory) == selected \cap IdsIn(SurveyOf(inventory))

\* Everything is installed together once the engine has answered.  Selected
\* candidates that are no longer surveyed are dropped, approved prefixes with
\* them, and an empty selection falls back to the rules in the file.
InstallSnapshot ==
  LET kept == Kept(docker)
      ruled == ManagedCandidates(fetched.source, SurveyOf(docker))
  IN  /\ phase = "collect"
      /\ loaded' = fetched.source
      /\ protection' = fetched.entries
      /\ snapshot' = docker
      /\ validity' = "valid"
      /\ prefixes' = {}
      /\ selected' = IF kept # {} THEN kept ELSE ruled
      /\ authorized' = (authorized \/ (kept = {} /\ CacheId \in ruled))
      /\ proposal' = None
      /\ view' = IF resume = "save" THEN "review" ELSE view
      /\ phase' = "idle" /\ resume' = "none" /\ fetched' = None
      /\ UNCHANGED <<writeVars, worldVars, change, profile, policy, modalVars, counters>>

\* A file that cannot be read, an engine that does not answer.  Timer and key
\* mark the plan stale; after a save only the status line says so; after a
\* protection change or an apply the error ends the session.
RefreshFails ==
  /\ phase \in {"refresh", "collect"}
  /\ \/ /\ resume \in {"timer", "key", "save"}
        /\ validity' = IF resume = "save" THEN validity ELSE "stale"
        /\ overlay' = IF resume = "timer" THEN "none" ELSE overlay
        /\ phase' = "idle" /\ resume' = "none" /\ fetched' = None
        /\ UNCHANGED <<change, loaded, snapshot, protection, setupVars, row, shown>>
     \/ resume \in {"protect", "apply"} /\ Quits
  /\ UNCHANGED <<writeVars, worldVars, counters>>

-----------------------------------------------------------------------------
(* Review and Keeping: the removal set is confirmed and applied *)

\* Keys reach a view only when no modal is open and no handler is running.
Listening == phase = "idle" /\ overlay = "none"

\* Every key that changes more than what is on the screen counts.
Counted == keys < MaxKeys /\ keys' = keys + 1

OpenConfirmation ==
  /\ Listening
  /\ view = "review"
  /\ validity = "valid"
  /\ Removals(Plan) # {}
  /\ overlay' = "confirm"
  /\ shown' = Plan
  /\ UNCHANGED <<writeVars, worldVars, handlerVars, planVars, setupVars, row, counters>>

\* Escape, or closing the help and the activity log.
CloseOverlay ==
  /\ phase = "idle"
  /\ overlay # "none"
  /\ overlay' = "none"
  /\ row' = None
  /\ shown' = None
  /\ UNCHANGED <<writeVars, worldVars, handlerVars, planVars, setupVars, counters>>

OpenHelp ==
  /\ Listening
  /\ overlay' = "help"
  /\ UNCHANGED <<writeVars, worldVars, handlerVars, planVars, setupVars, row, shown, counters>>

SwitchView(v) ==
  /\ Listening
  /\ v # view
  /\ view' = v
  /\ UNCHANGED <<writeVars, worldVars, handlerVars, planVars, prefixes, selected, profile,
                 policy, proposal, authorized, modalVars, counters>>

\* Enter in the confirmation.  A stale or empty plan is not applied, a plan
\* without a file cannot have removals and ends the session, and the source is
\* compared with the one the plan was made from.
ConfirmApply ==
  /\ phase = "idle"
  /\ overlay = "confirm"
  /\ IF validity = "valid" /\ Removals(Plan) # {} /\ loaded = Missing THEN Quits
     ELSE /\ overlay' = "none"
          /\ IF validity = "stale" \/ Removals(Plan) = {}
             THEN UNCHANGED <<phase, validity, shown>>
             ELSE IF file # loaded
             THEN validity' = "stale" /\ shown' = None /\ UNCHANGED phase
             ELSE phase' = "execute" /\ UNCHANGED <<validity, shown>>
          /\ UNCHANGED <<resume, fetched, change, loaded, snapshot, protection, setupVars, row>>
  /\ UNCHANGED <<writeVars, worldVars, counters>>

\* What the executor promises of a pass (DeletionContract): of the plan's
\* targets some are gone afterwards, none that is protected, and none at all
\* under another configuration.
MayGo ==
  {i \in docker :
     /\ file = loaded
     /\ ~Protected(entries, i)
     /\ \E d \in Removals(Plan) : d.resource.id = i.id}

\* execute_plan, with the journal's start and finish; an error in any of them
\* ends the session, and then the engine may have removed some targets.
ExecutePlan ==
  /\ phase = "execute"
  /\ \E gone \in SUBSET MayGo : docker' = docker \ gone
  /\ \/ /\ StartsRefresh("apply")
        /\ shown' = None
        /\ UNCHANGED <<change, planVars, setupVars, overlay, row>>
     \/ Quits
  /\ UNCHANGED <<writeVars, entries, counters>>

-----------------------------------------------------------------------------
(* Review and Keeping: protection of the row or of its family *)

Rows ==
  CASE view = "review"  -> Removals(Plan)
    [] view = "keeping" -> Plan \ Removals(Plan)
    [] OTHER            -> {}

\* Entries are sorted: typed ones before labels, then by value.
Matching(item) == {e \in entries : EntryMatches(e, item)}

FirstMatching(item) ==
  CHOOSE e \in Matching(item) : \A f \in Matching(item) :
    \/ e.kind # "label" /\ f.kind = "label"
    \/ e.kind = f.kind /\ Rank[e.value] <= Rank[f.value]

StartsChange(op, entry, item, covers) ==
  /\ Counted
  /\ phase' = "protect"
  /\ change' = [op |-> op, entry |-> entry, item |-> item, covers |-> covers, seen |-> entries]
  /\ UNCHANGED <<writeVars, worldVars, resume, fetched, planVars, setupVars, modalVars, changes>>

\* space: the value of the first entry that covers the row is removed under the
\* row's own kind; a row the configuration protects is left alone.
PressProtect(d) ==
  LET item == d.resource
  IN  /\ Listening
      /\ item.kind # "build-cache"
      /\ \/ /\ Matching(item) # {}
            /\ StartsChange("remove", [kind |-> item.kind, value |-> FirstMatching(item).value],
                            item, {})
         \/ /\ Matching(item) = {}
            /\ d.disposition # "protected"
            /\ StartsChange("add", [kind |-> item.kind, value |-> item.id], item, {item})

\* Mutant: the family key protects the row alone.
PressFamilyAlone(d) ==
  LET item   == d.resource
      family == FamilyOf(item)
      pair   == [kind |-> "container", value |-> item.id]
  IN  /\ Listening
      /\ family # None
      /\ StartsChange(IF pair \in entries THEN "remove" ELSE "add", pair, item,
                      IF pair \in entries THEN {}
                      ELSE {i \in snapshot : FamilyOf(i) = family})

\* P: one label entry for the family of the row, or its removal.
PressFamily(d) ==
  LET item   == d.resource
      family == FamilyOf(item)
      pair   == [kind |-> "label", value |-> family]
  IN  /\ Listening
      /\ family # None
      /\ StartsChange(IF pair \in entries THEN "remove" ELSE "add", pair, item,
                      IF pair \in entries THEN {}
                      ELSE {i \in snapshot : FamilyOf(i) = family})

UpdateEntries ==
  /\ phase = "protect"
  /\ entries' = IF change.op = "add" THEN entries \cup {change.entry}
                ELSE entries \ {change.entry}
  /\ change' = None
  /\ StartsRefresh("protect")
  /\ UNCHANGED <<writeVars, docker, planVars, setupVars, modalVars, counters>>

\* The state file cannot be read or written, or refuses the value.
UpdateFails ==
  /\ phase = "protect"
  /\ Quits
  /\ UNCHANGED <<writeVars, worldVars, counters>>

-----------------------------------------------------------------------------
(* Setup: candidates and policy make a proposal, the proposal is saved *)

SetupKey == Listening /\ view = "setup"

SetupUnchanged ==
  UNCHANGED <<writeVars, worldVars, handlerVars, planVars, changes>>

\* Mutant: the build cache is selected like any other candidate.
ToggleCandidateFreely(c) ==
  /\ SetupKey
  /\ Counted
  /\ selected' = IF c.id \in selected THEN selected \ {c.id} ELSE selected \cup {c.id}
  /\ proposal' = None
  /\ UNCHANGED <<view, prefixes, profile, policy, authorized, modalVars>>
  /\ SetupUnchanged

ToggleCandidate(c) ==
  /\ SetupKey
  /\ Counted
  /\ IF c.id \in selected
     THEN /\ selected' = selected \ {c.id}
          /\ proposal' = None
          /\ UNCHANGED <<overlay, row>>
     ELSE IF c.id = CacheId
     THEN /\ overlay' = "cache"
          /\ row' = c.id
          /\ UNCHANGED <<selected, proposal>>
     ELSE /\ selected' = selected \cup {c.id}
          /\ proposal' = None
          /\ UNCHANGED <<overlay, row>>
  /\ UNCHANGED <<view, prefixes, profile, policy, shown, authorized>>
  /\ SetupUnchanged

\* Mutant: the proposal outlives the change.
AcceptCacheKeeping ==
  /\ phase = "idle"
  /\ overlay = "cache"
  /\ selected' = selected \cup ({row} \cap IdsIn(Survey))
  /\ authorized' = TRUE
  /\ overlay' = "none"
  /\ row' = None
  /\ UNCHANGED <<view, proposal, prefixes, profile, policy, shown>>
  /\ UNCHANGED keys
  /\ SetupUnchanged

\* The dedicated modal: the row it was opened on is selected.
AcceptCache ==
  /\ phase = "idle"
  /\ overlay = "cache"
  /\ selected' = selected \cup ({row} \cap IdsIn(Survey))
  /\ proposal' = IF row \in IdsIn(Survey) THEN None ELSE proposal
  /\ authorized' = TRUE
  /\ overlay' = "none"
  /\ row' = None
  /\ UNCHANGED <<view, prefixes, profile, policy, shown>>
  /\ UNCHANGED keys
  /\ SetupUnchanged

CycleProfile(p) ==
  /\ SetupKey
  /\ Counted
  /\ p = IF profile = 1 THEN 1 ELSE profile - 1
     \/ p = IF profile = ProfileCount THEN ProfileCount ELSE profile + 1
  /\ profile' = p
  /\ policy' = Settings[p]
  /\ proposal' = None
  /\ UNCHANGED <<view, prefixes, selected, modalVars, authorized>>
  /\ SetupUnchanged

\* A typed value that does not validate leaves everything as it is.
EditPolicy(settings) ==
  /\ SetupKey
  /\ Counted
  /\ policy' = settings
  /\ proposal' = None
  /\ UNCHANGED <<view, prefixes, selected, profile, modalVars, authorized>>
  /\ SetupUnchanged

\* c on a row, an edited prefix, Enter: a prefix that begins no name of that
\* kind is an error that ends the session.
ApprovePrefix(d, p) ==
  /\ Listening
  /\ Counted
  /\ d.resource.kind # "build-cache"
  /\ IF \E i \in snapshot : i.kind = d.resource.kind /\ PrefixNames[p] \cap i.names # {}
     THEN /\ prefixes' = prefixes \cup {p}
          /\ selected' = selected \cup {p}
          /\ proposal' = None
          /\ view' = "setup"
          /\ UNCHANGED <<handlerVars, planVars, profile, policy, authorized, modalVars>>
     ELSE Quits
  /\ UNCHANGED <<writeVars, worldVars, changes>>

\* A refused proposal leaves the last one, which nothing has outdated.
Preview ==
  /\ SetupKey
  /\ LET made == Proposed(loaded, Survey, snapshot, selected, policy)
     IN  made # None /\ proposal' = made
  /\ UNCHANGED <<view, prefixes, selected, profile, policy, modalVars, authorized>>
  /\ UNCHANGED keys
  /\ SetupUnchanged

PressSave ==
  /\ SetupKey
  /\ proposal # None
  /\ overlay' = "save"
  /\ shown' = proposal
  /\ UNCHANGED <<setupVars, row>>
  /\ UNCHANGED keys
  /\ SetupUnchanged

ConfirmSave ==
  /\ phase = "idle"
  /\ overlay = "save"
  /\ Counted
  /\ overlay' = "none"
  /\ phase' = "save"
  /\ UNCHANGED <<writeVars, worldVars, resume, fetched, change, planVars, setupVars, row, shown, changes>>

\* The engine is listed again and write_proposal begins.
BeginSave ==
  /\ phase = "save"
  /\ BeginWrite(Session, proposal, docker)
  /\ phase' = IF stage'[Session] = "rest" THEN "idle" ELSE "write"
  /\ shown' = None
  /\ UNCHANGED <<worldVars, resume, fetched, change, planVars, setupVars, overlay, row, counters>>

\* The engine does not answer.
SaveFails ==
  /\ phase = "save"
  /\ phase' = "idle"
  /\ shown' = None
  /\ UNCHANGED <<writeVars, worldVars, resume, fetched, change, planVars, setupVars, overlay, row, counters>>

\* A saved file is read back; a refused write says so and no more.
SessionWrites ==
  /\ phase = "write"
  /\ \/ FinishWrite(Session) /\ StartsRefresh("save")
     \/ /\ LockAndCompare(Session) \/ StartCopy(Session) \/ FinishCopy(Session)
           \/ Replace(Session)
        /\ phase' = IF stage'[Session] = "rest" THEN "idle" ELSE "write"
        /\ UNCHANGED <<resume, fetched>>
  /\ UNCHANGED <<worldVars, change, planVars, setupVars, modalVars, counters>>

\* A failed write says so, also when the file has been replaced.
SaveBreaks ==
  /\ phase = "write"
  /\ BreakWrite(Session)
  /\ phase' = "idle"
  /\ UNCHANGED <<resume, fetched, worldVars, change, planVars, setupVars, modalVars, counters>>

-----------------------------------------------------------------------------
(* The session as a whole *)

\* q, Ctrl-C or a signal between handlers, a terminal that fails, or a kill at
\* any moment.
Leaves ==
  /\ phase # "quit"
  /\ Quits
  /\ IF stage[Session] = "rest" THEN UNCHANGED writeVars ELSE BreakWrite(Session)
  /\ UNCHANGED <<worldVars, counters>>

\* App::load; an engine that does not answer leaves an empty, stale snapshot.
Init ==
  /\ WriteInit
  /\ file # Broken
  /\ docker \in ItemSets
  /\ entries \in EntrySets
  /\ phase = "idle" /\ resume = "none" /\ fetched = None /\ change = None
  /\ overlay = "none" /\ row = None /\ shown = None
  /\ view = IF file = Missing THEN "setup" ELSE "review"
  /\ loaded = file
  /\ protection = entries
  /\ \/ snapshot = docker /\ validity = "valid"
     \/ snapshot = {} /\ validity = "stale"
  /\ prefixes = {}
  /\ selected = ManagedCandidates(loaded, SurveyOf(snapshot))
  /\ profile = Workstation
  /\ policy = Settings[Workstation]
  /\ proposal = None
  /\ authorized = (CacheId \in selected)
  /\ changes = 0
  /\ keys = 0

HandlerStep ==
  \/ ReadFiles \/ InstallSnapshot \/ RefreshFails
  \/ ExecutePlan
  \/ UpdateEntries \/ UpdateFails
  \/ BeginSave \/ SaveFails \/ SessionWrites

Key ==
  \/ RefreshTick \/ PressRefresh
  \/ OpenConfirmation \/ CloseOverlay \/ OpenHelp \/ ConfirmApply
  \/ \E v \in {"review", "keeping", "setup"} : SwitchView(v)
  \/ \E d \in Rows :
       \/ PressProtect(d)
       \/ PressFamily(d)
       \/ \E p \in DOMAIN PrefixNames : ApprovePrefix(d, p)
  \/ \E c \in Survey : ToggleCandidate(c)
  \/ AcceptCache
  \/ \E p \in 1..ProfileCount : CycleProfile(p)
  \/ \E settings \in EditedSettings : EditPolicy(settings)
  \/ Preview \/ PressSave \/ ConfirmSave

Others ==
  \/ EngineChanges \/ OthersProtect \/ OthersEditConfig
  \/ \E w \in Writers : CommandBegins(w) \/ CommandStep(w) \/ CommandBreaks(w)

Next == Key \/ HandlerStep \/ SaveBreaks \/ Leaves \/ Others

Spec == Init /\ [][Next]_vars

\* A handler that has begun goes on: each of its calls returns, or fails where
\* the action has the failure.  A write is not promised to fail while it waits:
\* flock gives the lock to a waiting writer sooner or later, and a command that
\* has the lock finishes.  Keys, signals and the rest of the world owe nothing.
Fairness ==
  /\ WF_vars(HandlerStep)
  /\ SF_vars(SessionWrites)
  /\ \A w \in Writers \ {Session} : WF_vars(CommandStep(w))

FairSpec == Spec /\ Fairness

-----------------------------------------------------------------------------
(* Properties *)

\* Enter in the confirmation applies what the confirmation has shown since it
\* opened: neither the timer nor any other handler puts another plan, or a plan
\* known to be stale, under an open modal, and the plan that is executed is
\* that one (the overlay guard of the select loop in run_event_loop).
ConfirmedIsShown ==
  (overlay = "confirm" \/ phase = "execute") =>
    /\ Plan = shown
    /\ validity = "valid"
    /\ Removals(Plan) # {}

\* A proposal that can be saved is the one the present selection, policy and
\* snapshot would give, and the one being written is the one the save modal
\* showed: every handler that changes an input of a proposal drops it.
ProposalCurrent ==
  /\ proposal # None =>
       proposal = Proposed(loaded, Survey, snapshot, selected, policy)
  /\ overlay = "save" \/ phase = "save" => proposal # None /\ proposal = shown
  /\ phase = "write" => job[Session] = proposal

\* The build cache has no ownership evidence: it is selected only after its own
\* modal was accepted in this session, or because the file already had its rule
\* (toggle_selected_candidate, managed_candidate_ids).
CacheAuthorized == CacheId \in selected => authorized

\* Whatever is selected can be proposed: a refresh drops the candidates that
\* left with their resources, and approved prefixes with them.
SelectionSurveyed == selected \subseteq IdsIn(Survey)

\* Protecting a row or a family protects each resource the status line counts,
\* whatever other processes did to the file since it was read.
ProtectCovers ==
  [][phase = "protect" /\ phase' = "refresh" /\ change.op = "add" =>
       \A i \in change.covers : Protected(entries', i)]_vars

\* Every handler returns to the event loop or ends the session, also one that
\* waits for another writer's lock.
HandlerEnds == (phase \notin {"idle", "quit"}) ~> (phase \in {"idle", "quit"})

\* `space` on a protected row releases it, unless other processes changed the
\* entries in between (src/README.md: "`space` protects or releases the
\* selected object").
ToggleReleases ==
  [][phase = "protect" /\ phase' = "refresh" /\ change.op = "remove" /\ entries = change.seen =>
       ~Protected(entries', change.item)]_vars

=============================================================================
