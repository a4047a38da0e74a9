----------------------------- MODULE SkillInstall -----------------------------
(***************************************************************************)
(* Skill installation (src/src/agent_skill.rs, run_init in                 *)
(* src/src/main.rs): `init --agents` checks a selection of skills and then *)
(* writes them one by one, with no lock and no rename, while other         *)
(* installers of the same build and people with an editor use the same     *)
(* skills directory.  A write truncates the file and then fills it.        *)
(*                                                                         *)
(* The content of a SKILL.md is one of                                     *)
(*   absent    there is no file                                            *)
(*   ours      the document of this build                                  *)
(*   cut       a readable part of it: a write that did not end             *)
(*   edited    another text                                                *)
(*   garbled   bytes that read_to_string refuses                           *)
(***************************************************************************)
EXTENDS Integers, Sequences, FiniteSets, SequencesExt

CONSTANTS
  Installers,  \* processes that run `init --agents`
  SKILLS,      \* SKILLS: the skills of this build, in install order
  Selections,  \* the --skill lists that may be given; <<>> means every skill
  InitSkills,   \* the contents the files may start with
  MaxRuns,     \* bound on the installs that start
  MaxSkillEdits     \* bound on the edits made by hand

Contents == {"absent", "ours", "cut", "edited", "garbled"}
Targets  == {"claude", "codex", "generic"}
Skills   == ToSet(SKILLS)

ASSUME SkillInstallAssumption ==
  /\ SKILLS \in Seq(Skills) /\ SKILLS # <<>> /\ IsInjective(SKILLS)
  /\ \A names \in Selections : names \in Seq(ToSet(names))
  /\ InitSkills \subseteq Contents
  /\ MaxRuns \in Nat /\ MaxSkillEdits \in Nat

VARIABLES
  file,       \* [Skills -> Contents]
  stage,         \* [Installers -> "idle", "check", "recheck", "open", "fill"]
  selection,  \* [Installers -> the skills to install, in order]
  force,      \* [Installers -> BOOLEAN]: --force
  at,         \* [Installers -> the position in the selection]
  status,     \* [Installers -> the InstallStatus found for each skill so far]
  installed,     \* [Installers -> how the last run ended]
  disturbed,  \* history: another actor changed a file since the run started
  touched,    \* history: the files this run truncated
  lost,       \* history: the hand-made contents it truncated, by skill
  runs, edits

runVars  == <<stage, selection, force, at, status, installed>>
skillHistory  == <<disturbed, touched, lost>>
skillVars     == <<file, runVars, skillHistory, runs, edits>>

Results == {"none", "usage", "refused", "write", "crashed", "success"}

-----------------------------------------------------------------------------
(* One file *)

\* Mutant: any text is taken for an older document of this build.
PlannedStatusBlind(content, forced) ==
  CASE content = "ours" -> "unchanged"
    [] content \in {"cut", "edited"} -> "replaced"
    [] OTHER -> "written"

\* planned_status(): a file that cannot be read counts as missing.
PlannedStatus(content, forced) ==
  CASE content = "ours" -> "unchanged"
    [] content \in {"cut", "edited"} -> IF forced THEN "replaced" ELSE "refused"
    [] OTHER -> "written"

\* resolve_skill_path(): a destination wins, a generic target needs one, the
\* others a home directory.
Resolves(target, dest, home) == dest \/ (target # "generic" /\ home)

\* run_init(): --agents and a target are given, and the target resolves.
Invocations ==
  [agents : BOOLEAN, target : Targets \cup {"none"}, dest : BOOLEAN, home : BOOLEAN]

Accepted(v) == v.agents /\ v.target # "none" /\ Resolves(v.target, v.dest, v.home)

\* select_skills()
Selected(names) == IF names = <<>> THEN SKILLS ELSE names

Known(names) == ToSet(names) \subseteq Skills

Skill(i) == selection[i][at[i]]

-----------------------------------------------------------------------------
(* The command *)

SkillInit ==
  /\ file \in [Skills -> InitSkills]
  /\ stage        = [i \in Installers |-> "idle"]
  /\ selection = [i \in Installers |-> <<>>]
  /\ force     = [i \in Installers |-> FALSE]
  /\ at        = [i \in Installers |-> 0]
  /\ status    = [i \in Installers |-> <<>>]
  /\ installed    = [i \in Installers |-> "none"]
  /\ disturbed = [i \in Installers |-> FALSE]
  /\ touched   = [i \in Installers |-> {}]
  /\ lost      = [i \in Installers |-> {}]
  /\ runs = 0 /\ edits = 0

EndInstall(i, how) ==
  /\ stage'     = [stage EXCEPT ![i] = "idle"]
  /\ installed' = [installed EXCEPT ![i] = how]

\* The next skill of the selection, or the end of this pass over it.
Advance(i, again, done) ==
  IF at[i] < Len(selection[i])
  THEN /\ at' = [at EXCEPT ![i] = @ + 1]
       /\ stage' = [stage EXCEPT ![i] = again]
       /\ UNCHANGED installed
  ELSE done

\* run_init(): the invocation is refused before a file is looked at, or the
\* checks begin.
StartInstall(i) ==
  /\ stage[i] = "idle" /\ runs < MaxRuns
  /\ runs' = runs + 1
  /\ \E accepted \in {Accepted(v) : v \in Invocations}, forced \in BOOLEAN, names \in Selections :
       LET valid == accepted /\ Known(names)
       IN  /\ selection' = [selection EXCEPT ![i] = IF valid THEN Selected(names) ELSE <<>>]
           /\ force'     = [force EXCEPT ![i] = valid /\ forced]
           /\ at'        = [at EXCEPT ![i] = IF valid THEN 1 ELSE 0]
           /\ stage'        = [stage EXCEPT ![i] = IF valid THEN "check" ELSE "idle"]
           /\ installed'    = [installed EXCEPT ![i] = IF valid THEN "none" ELSE "usage"]
  /\ status'    = [status EXCEPT ![i] = <<>>]
  /\ disturbed' = [disturbed EXCEPT ![i] = FALSE]
  /\ touched'   = [touched EXCEPT ![i] = {}]
  /\ lost'      = [lost EXCEPT ![i] = {}]
  /\ UNCHANGED <<file, edits>>

\* Mutant: only the first skill is checked before the writes begin.
CheckFirstSkill(i) ==
  /\ stage[i] = "check"
  /\ IF PlannedStatus(file[Skill(i)], force[i]) = "refused"
     THEN EndInstall(i, "refused") /\ UNCHANGED at
     ELSE /\ at' = [at EXCEPT ![i] = 1]
          /\ stage' = [stage EXCEPT ![i] = "recheck"]
          /\ UNCHANGED installed
  /\ UNCHANGED <<file, selection, force, status, skillHistory, runs, edits>>

\* install_skills(), first pass: every file is read, nothing is written.
CheckSkill(i) ==
  /\ stage[i] = "check"
  /\ IF PlannedStatus(file[Skill(i)], force[i]) = "refused"
     THEN EndInstall(i, "refused") /\ UNCHANGED at
     ELSE Advance(i, "check",
            /\ at' = [at EXCEPT ![i] = 1]
            /\ stage' = [stage EXCEPT ![i] = "recheck"]
            /\ UNCHANGED installed)
  /\ UNCHANGED <<file, selection, force, status, skillHistory, runs, edits>>

Finish(i) == EndInstall(i, "success") /\ UNCHANGED at

\* install_skill(): the file is read again; it is left alone, refused, or its
\* directory is created and the write begins.
Recheck(i) ==
  /\ stage[i] = "recheck"
  /\ LET planned == PlannedStatus(file[Skill(i)], force[i])
     IN  CASE planned = "refused" ->
                EndInstall(i, "refused") /\ UNCHANGED <<at, status>>
           [] planned = "unchanged" ->
                /\ status' = [status EXCEPT ![i] = Append(@, planned)]
                /\ Advance(i, "recheck", Finish(i))
           [] OTHER ->
                /\ status' = [status EXCEPT ![i] = Append(@, planned)]
                /\ stage' = [stage EXCEPT ![i] = "open"]
                /\ UNCHANGED <<at, installed>>
  /\ UNCHANGED <<file, selection, force, skillHistory, runs, edits>>

\* fs::write() opens and truncates the file, whatever it holds by now.
Open(i) ==
  /\ stage[i] = "open"
  /\ file' = [file EXCEPT ![Skill(i)] = "cut"]
  /\ stage'   = [stage EXCEPT ![i] = "fill"]
  /\ disturbed' = [j \in Installers |-> disturbed[j] \/ j # i]
  /\ touched' = [touched EXCEPT ![i] = @ \cup {Skill(i)}]
  /\ lost'    = [lost EXCEPT ![i] = IF file[Skill(i)] \in {"edited", "garbled"}
                                    THEN @ \cup {<<Skill(i), file[Skill(i)]>>} ELSE @]
  /\ UNCHANGED <<selection, force, at, status, installed, runs, edits>>

\* What a write of `bytes` ("ours", or a part of it) leaves behind: a file of
\* this build is completed or left as it is; one replaced meanwhile keeps its
\* new content or is written over, a removed one is written out of sight.
Filled(content, bytes) ==
  CASE content \in {"ours", "absent"} -> {content}
    [] content = "cut" -> {bytes}
    [] OTHER -> {content, "edited", bytes}

Leaves(i, content) ==
  /\ file' = [file EXCEPT ![Skill(i)] = content]
  /\ disturbed' = [j \in Installers |-> disturbed[j] \/ (j # i /\ content # file[Skill(i)])]

\* ... and fills it.
Fill(i) ==
  /\ stage[i] = "fill"
  /\ \E content \in Filled(file[Skill(i)], "ours") : Leaves(i, content)
  /\ Advance(i, "recheck", Finish(i))
  /\ UNCHANGED <<selection, force, status, touched, lost, runs, edits>>

\* Mutant: a write that fails is skipped.
WriteSkipped(i) ==
  /\ stage[i] \in {"open", "fill"}
  /\ Advance(i, "recheck", Finish(i))
  /\ UNCHANGED <<file, selection, force, status, skillHistory, runs, edits>>

\* The directory, the file or a part of the write is refused; a part that ends
\* within a character cannot be read back.
WriteFails(i) ==
  /\ stage[i] \in {"open", "fill"}
  /\ \/ UNCHANGED <<file, disturbed>>
     \/ /\ stage[i] = "fill"
        /\ \E part \in {"cut", "garbled"} : \E content \in Filled(file[Skill(i)], part) :
             Leaves(i, content)
  /\ EndInstall(i, "write")
  /\ UNCHANGED <<selection, force, at, status, touched, lost, runs, edits>>

\* The process dies between two steps.
CrashInstall(i) ==
  /\ stage[i] # "idle"
  /\ EndInstall(i, "crashed")
  /\ UNCHANGED <<file, selection, force, at, status, skillHistory, runs, edits>>

\* Somebody saves another text, in this or another encoding, or removes a skill.
EditSkill(s) ==
  /\ edits < MaxSkillEdits
  /\ edits' = edits + 1
  /\ \E content \in {"edited", "garbled", "absent"} \ {file[s]} :
       file' = [file EXCEPT ![s] = content]
  /\ disturbed' = [j \in Installers |-> TRUE]
  /\ UNCHANGED <<runVars, touched, lost, runs>>

SkillNext ==
  \/ \E i \in Installers :
       \/ StartInstall(i) \/ CheckSkill(i) \/ Recheck(i) \/ Open(i)
       \/ Fill(i) \/ WriteFails(i) \/ CrashInstall(i)
  \/ \E s \in Skills : EditSkill(s)

SkillSpec == SkillInit /\ [][SkillNext]_skillVars

-----------------------------------------------------------------------------
(* Properties *)

\* A run that refuses a skill, or is refused itself, has written no file at
\* all: the checks of the first pass cover the whole selection, so only
\* someone else's change can make the second one refuse ("a refusal on the
\* second skill leaves the first one untouched", agent_skill.rs:217).
RefusalTouchesNothing ==
  \A i \in Installers :
    installed[i] \in {"usage", "refused"} /\ ~disturbed[i] => touched[i] = {}

\* A readable text of somebody else that was there when the run started is
\* replaced by --force alone.
EditsKept ==
  \A i \in Installers :
    ~force[i] /\ ~disturbed[i] => \A s \in Skills : <<s, "edited">> \notin lost[i]

\* A run that reports success leaves the document of this build in every
\* selected directory, and calls unchanged exactly the files it never opened.
SuccessInstalls ==
  \A i \in Installers :
    installed[i] = "success" /\ ~disturbed[i] =>
      /\ \A s \in ToSet(selection[i]) : file[s] = "ours"
      /\ Len(status[i]) = Len(selection[i])
      /\ touched[i] = {selection[i][k] : k \in {k \in DOMAIN status[i] : status[i][k] # "unchanged"}}

=============================================================================
