----------------------------- MODULE CommandReport -----------------------------
(***************************************************************************)
(* What a command tells its caller (src/src/main.rs, src/src/machine.rs):  *)
(* a document or a stream of events on stdout, error diagnostics on        *)
(* stderr and the exit code, while any step of the command may fail, with  *)
(* or without a trace of what it was doing, and the reader of stdout may   *)
(* go away or its disk fill up.                                            *)
(*                                                                         *)
(* A command is a list of steps.  What the steps do is the subject of the  *)
(* other modules; here a step is what it may leave changed and the kinds   *)
(* of errors it may end with.  A document is reduced to its numbers.       *)
(***************************************************************************)
EXTENDS Integers, Sequences, FiniteSets, SequencesExt

CONSTANTS
  MaxTargets,  \* bound on the removals of one plan
  MaxPasses    \* bound on the passes of one daemon

ASSUME CommandReportAssumption == MaxTargets \in Nat /\ MaxPasses \in Nat

Daemons == {"daemon", "daemon_apply"}
\* "stamp" stands for every command that only prints (labels, config default),
\* and "config_check" for config print as well.
OneShot ==
  {"plan", "clean", "clean_apply", "status", "protect", "unprotect", "stamp", "tui", "config_check",
   "config_survey", "config_propose", "config_write", "init", "spawn"}
Applies == {"clean_apply", "daemon_apply"}

VARIABLES
  verb,     \* the command
  json,     \* --format json
  todo,     \* the steps that are left
  targets,  \* the pending removals of the plan
  kept,     \* those of them the report calls skipped or failed
  changed,  \* what the command has changed: a set of Stores
  pass,     \* the number of daemon passes begun
  output,   \* documents that are about to be written
  stdout,   \* documents written
  errors,   \* error diagnostics on stderr
  pipe,     \* what becomes of stdout: "open", "closed" by its reader, "full"
  code      \* the exit code, or -1

reportVars == <<verb, json, todo, targets, kept, changed, pass, output, stdout, errors, pipe, code>>

-----------------------------------------------------------------------------
(* The commands *)

\* prepare_cleanup(), and the middle of apply_cleanup().
PrepareSteps == <<"load", "snapshot", "inventory", "record", "decide">>
ApplySteps   == <<"journal", "execute", "finish">>

\* App::refresh(): what it has read becomes the session's all at once, in "adopt".
RefreshSteps == <<"load", "snapshot", "inventory", "record", "plan", "last_pass", "adopt">>

Steps(v) ==
  <<"arguments">> \o
  CASE v \in {"plan", "clean"} -> PrepareSteps \o <<"report">>
    [] v = "clean_apply"     -> PrepareSteps \o ApplySteps \o <<"report">>
    [] v = "status"            -> PrepareSteps \o <<"last_pass", "identity", "report">>
    [] v = "protect"           -> <<"update", "snapshot", "report">>
    [] v = "unprotect"         -> <<"conflict", "update", "snapshot", "report">>
    [] v = "stamp"             -> <<"report">>
    [] v = "config_check"      -> <<"load", "report">>
    [] v = "config_survey"     -> <<"settings", "inventory", "snapshot", "clock", "report">>
    [] v = "config_propose"    ->
         <<"settings", "inventory", "prefixes", "load", "snapshot", "clock", "propose", "report">>
    [] v = "config_write"      -> <<"proposal", "inventory", "write", "report">>
    [] v = "init"              -> <<"install", "report">>
    [] v = "spawn"             -> <<"image", "create", "start", "report">>
    [] v = "tui"               ->
         <<"terminal", "load", "snapshot", "clock", "observe", "last_pass", "screen", "session">>
    [] v \in Daemons           -> <<"load", "interval", "signals", "announce">>

\* What a key or the timer sets off in the terminal: a refresh or a save whose
\* error becomes the status line, "stale" if the plan on the screen may then no
\* longer be applied and "shown" if it stands; a row or a family protected or
\* released, a row the configuration protects, a prefix, and the confirmed plan.
\* The activity pane, whose errors are shown as well, is left out.
SessionWork ==
  {RefreshSteps \o <<"stale">>,
   <<"inventory", "write">> \o RefreshSteps \o <<"shown">>,
   <<"snapshot", "update">> \o RefreshSteps,
   <<"snapshot">>,
   <<"prefix">>}
  \cup (IF targets > 0 THEN {ApplySteps \o RefreshSteps} ELSE {})

\* One round of the loop of run_daemon().
PassSteps ==
  <<"begin">> \o PrepareSteps \o <<"interval">>
    \o (IF verb \in Applies THEN ApplySteps ELSE <<>>) \o <<"result", "wake">>

\* The errors a step may end with.
ErrorKinds(step) ==
  CASE step \in {"arguments", "interval"}                        -> {"usage"}
    [] step \in {"load", "settings", "propose", "prefix", "proposal", "write"} ->
             {"config_invalid"}
    [] step = "prefixes"                                   -> {"usage", "config_invalid"}
    [] step = "conflict"                                   -> {"config_invalid", "state_io"}
    [] step \in {"snapshot", "update", "last_pass"}        -> {"state_io"}
    [] step \in {"inventory", "identity", "create", "start"} -> {"docker_unreachable"}
    [] step = "image"                                      -> {"usage", "docker_unreachable"}
    [] step = "install"                                    -> {"usage", "state_io"}
    [] step \in {"record", "journal", "finish", "observe"} -> {"state_io", "internal"}
    [] step = "execute" -> IF targets = 0 THEN {} ELSE {"state_io", "docker_unreachable"}
    [] step = "terminal"                                   -> {"tty_required"}
    [] step \in {"decide", "plan", "clock", "signals", "screen", "session", "result"} -> {"internal"}
    [] step \in {"adopt", "stale", "shown"}                -> {}

\* run_error_classification()
ExitCode(kind) ==
  CASE kind = "config_invalid"     -> 3
    [] kind = "tty_required"       -> 4
    [] kind = "docker_unreachable" -> 5
    [] kind = "state_io"           -> 6
    [] kind = "internal"           -> 7
    [] kind = "usage"              -> 64

\* What a step writes to, and may have written to when it fails.
Stores(step) ==
  CASE step \in {"record", "observe"} -> {"observations"}
    [] step = "update"               -> {"protection"}
    [] step \in {"journal", "finish"} -> {"journal"}
    [] step = "execute"              -> {"engine"}
    [] step = "write"                -> {"configuration"}
    [] step = "install"              -> {"skills"}
    [] step = "create"               -> {"sandbox"}
    [] OTHER                         -> {}

-----------------------------------------------------------------------------
(* Documents *)

Document(event) == [event |-> event, pass |-> pass, pending |-> targets, kept |-> kept]

\* daemon_pass_result_events(): the plan, an event for each outcome, a summary.
ResultEvents ==
  <<Document("plan")>>
    \o (IF verb \in Applies THEN [n \in 1..targets |-> Document("action")] ELSE <<>>)
    \o <<Document("pass_summary")>>

\* Announcements of the daemon are events in JSON and diagnostics otherwise.
Announced(event) == IF json THEN <<Document(event)>> ELSE <<>>

Talking == {"report", "announce", "begin", "result", "wake"}

\* The steps that may put another plan in place of the present one.
Plans == {"decide", "observe", "adopt"}

\* The errors of what the session is at become its status line.
Left(step) == \E n \in DOMAIN todo : todo[n] = step
Shows == Left("stale") \/ Left("shown")

Running == code = -1 /\ output = <<>> /\ todo # <<>>

ExitsWith(n) ==
  /\ code' = n
  /\ todo' = <<>>
  /\ output' = <<>>

-----------------------------------------------------------------------------
(* Steps *)

ReportInit ==
  /\ verb \in Daemons \cup OneShot
  /\ json \in (IF verb = "tui" THEN {FALSE} ELSE BOOLEAN)
  /\ todo = Steps(verb)
  /\ targets = 0 /\ kept = 0 /\ pass = 0
  /\ changed = {}
  /\ output = <<>> /\ stdout = <<>> /\ errors = 0
  /\ pipe = "open"
  /\ code = -1

\* A step that says nothing succeeds.  The terminal opens without Docker, and
\* then has observed nothing and plans nothing.
Succeed ==
  /\ Running /\ Head(todo) \notin Talking \cup {"session"}
  /\ targets' \in (IF Head(todo) \in Plans THEN 0..MaxTargets ELSE {targets})
  /\ kept' \in (CASE Head(todo) = "execute" -> 0..targets
                  [] Head(todo) \in Plans   -> {0}
                  [] OTHER                  -> {kept})
  /\ \/ changed' = changed \cup Stores(Head(todo)) /\ (Head(todo) = "execute" => targets > 0)
     \/ changed' = changed /\ Head(todo) = "execute" /\ kept' = targets
     \/ changed' = changed /\ Head(todo) = "observe" /\ targets' = 0
  /\ todo' = Tail(todo)
  /\ UNCHANGED <<verb, json, pass, output, stdout, errors, pipe, code>>

\* A step fails: the command ends with an error diagnostic; the daemon, once it
\* runs, says so in the place its reader looks at and waits for the next pass.
Fail ==
  /\ Running /\ Head(todo) \notin Talking \ {"result"} /\ ~Shows
  /\ \E kind \in ErrorKinds(Head(todo)) :
       IF pass > 0
       THEN /\ output' = Announced("pass_error")
            /\ errors' = IF json THEN errors ELSE errors + 1
            /\ todo' = <<"wake">>
            /\ UNCHANGED code
       ELSE ExitsWith(ExitCode(kind)) /\ errors' = errors + 1
  /\ changed' \in {changed, changed \cup Stores(Head(todo))}
  /\ UNCHANGED <<verb, json, targets, kept, pass, stdout, pipe>>

\* The terminal says what went wrong and goes on; a plan that could not be
\* refreshed is not applied any more.
ShowError ==
  /\ Running /\ Shows /\ ErrorKinds(Head(todo)) # {}
  /\ todo' = <<"session">>
  /\ targets' = IF Left("stale") THEN 0 ELSE targets
  /\ changed' \in {changed, changed \cup Stores(Head(todo))}
  /\ UNCHANGED <<verb, json, kept, pass, output, stdout, errors, pipe, code>>

\* A key, the timer, a signal or the end of the input; a plan whose
\* configuration has changed since it was shown is stale when it is confirmed.
Interact ==
  /\ Running /\ Head(todo) = "session"
  /\ \/ \E work \in SessionWork : todo' = work \o <<"session">> /\ UNCHANGED targets
     \/ targets > 0 /\ targets' = 0 /\ UNCHANGED todo
     \/ todo' = <<>> /\ UNCHANGED targets
  /\ UNCHANGED <<verb, json, kept, changed, pass, output, stdout, errors, pipe, code>>

\* An event cannot be dated: epoch_seconds() fails outside the pass, and the
\* daemon ends.
ClockFails ==
  /\ code = -1 /\ json
  /\ \/ output = <<>> /\ todo # <<>> /\ Head(todo) \in {"announce", "begin", "wake"}
     \/ output # <<>> /\ Head(output).event = "pass_error"
  /\ ExitsWith(ExitCode("internal"))
  /\ errors' = errors + 1
  /\ UNCHANGED <<verb, json, targets, kept, changed, pass, stdout, pipe>>

\* run_cleanup() and the other one-shot commands end with their document.
ReportOnce ==
  /\ Running /\ Head(todo) = "report"
  /\ output' = <<Document(verb)>>
  /\ todo' = Tail(todo)
  /\ UNCHANGED <<verb, json, targets, kept, changed, pass, stdout, errors, pipe, code>>

AnnounceStart ==
  /\ Running /\ Head(todo) = "announce"
  /\ output' = Announced("daemon_started")
  /\ todo' = PassSteps
  /\ UNCHANGED <<verb, json, targets, kept, changed, pass, stdout, errors, pipe, code>>

\* Mutant: the pass is counted after it has been announced.
BeginPassUncounted ==
  /\ Running /\ Head(todo) = "begin"
  /\ pass' = pass + 1
  /\ output' = Announced("pass_started")
  /\ todo' = Tail(todo)
  /\ UNCHANGED <<verb, json, targets, kept, changed, stdout, errors, pipe, code>>

BeginPass ==
  /\ Running /\ Head(todo) = "begin"
  /\ pass' = pass + 1
  /\ output' = IF json THEN <<[Document("pass_started") EXCEPT !.pass = pass + 1]>> ELSE <<>>
  /\ todo' = Tail(todo)
  /\ UNCHANGED <<verb, json, targets, kept, changed, stdout, errors, pipe, code>>

PassResult ==
  /\ Running /\ Head(todo) = "result"
  /\ output' = IF json THEN ResultEvents ELSE <<Document("table")>>
  /\ todo' = Tail(todo)
  /\ UNCHANGED <<verb, json, targets, kept, changed, pass, stdout, errors, pipe, code>>

\* next_wake(): an interval or an event, SIGHUP, or SIGTERM; no signal is looked
\* at during a pass.
Wake ==
  /\ Running /\ Head(todo) = "wake"
  /\ \/ /\ pass < MaxPasses
        /\ \E event \in {<<>>, Announced("configuration_reload_requested")} : output' = event
        /\ todo' = PassSteps
     \/ /\ output' = Announced("daemon_stopped")
        /\ todo' = <<>>
  /\ UNCHANGED <<verb, json, targets, kept, changed, pass, stdout, errors, pipe, code>>

\* write_payload(): a reader that has gone ends the command quietly, any other
\* error is reported; a part of the document may be out by then.
Write ==
  /\ code = -1 /\ output # <<>>
  /\ \/ /\ pipe = "open"
        /\ stdout' = Append(stdout, Head(output))
        /\ output' = Tail(output)
        /\ UNCHANGED <<todo, errors, code>>
     \/ /\ pipe = "closed"
        /\ ExitsWith(0)
        /\ UNCHANGED <<stdout, errors>>
     \/ /\ pipe = "full"
        /\ ExitsWith(ExitCode("internal"))
        /\ errors' = errors + 1
        /\ stdout' \in {stdout, Append(stdout, Document("part"))}
  /\ UNCHANGED <<verb, json, targets, kept, changed, pass, pipe>>

\* Mutant: pending removals are no outcome of their own.
OutcomeOfApply == IF verb = "clean_apply" /\ kept > 0 THEN 2 ELSE 0

\* The RunOutcome of a command that got to its end.
Outcome ==
  IF verb \in {"plan", "clean"} /\ targets > 0 THEN 1
  ELSE IF verb = "clean_apply" /\ kept > 0 THEN 2 ELSE 0

EndReport ==
  /\ code = -1 /\ todo = <<>> /\ output = <<>>
  /\ ExitsWith(Outcome)
  /\ errors' = IF Outcome = 2 /\ json THEN errors + 1 ELSE errors
  /\ UNCHANGED <<verb, json, targets, kept, changed, pass, stdout, pipe>>

\* The reader of stdout goes away, or there is no room for more.
PipeBreaks ==
  /\ code = -1 /\ pipe = "open"
  /\ pipe' \in {"closed", "full"}
  /\ UNCHANGED <<verb, json, todo, targets, kept, changed, pass, output, stdout, errors, code>>

ReportNext ==
  \/ Succeed \/ Fail \/ ShowError \/ Interact \/ ClockFails \/ ReportOnce \/ AnnounceStart \/ BeginPass \/ PassResult \/ Wake
  \/ Write \/ EndReport \/ PipeBreaks

ReportSpec == ReportInit /\ [][ReportNext]_reportVars

-----------------------------------------------------------------------------
(* Properties *)

\* The exit code can be acted upon (README.md, "Machine output"), whatever step
\* failed and whatever became of stdout: after a fatal error stdout is empty and
\* stderr has the one error; a missing terminal, a refused invocation and a bad
\* configuration have changed nothing, but for an install that met an edited
\* skill after it had written another, a `config write` that failed after its
\* rename, and the terminal, where an error of configuration may end a session
\* that has removed and protected; 1 and 2 come with the document that says why,
\* 1 after nothing but the observations has been written; 0 comes with one that
\* leaves nothing to be done, unless its reader had gone; and however a command
\* ends, it has removed nothing without an entry in the journal.
ExitTellsOutcome ==
  code # -1 =>
    /\ code \in {3, 4, 5, 6, 64} => stdout = <<>> /\ errors = 1
    /\ code = 4 => changed = {}
    /\ code = 64 => changed \subseteq (IF verb = "init" THEN {"skills"} ELSE {})
    /\ code = 3 /\ verb # "tui" =>
         changed \subseteq (IF verb = "config_write" THEN {"configuration"} ELSE {})
    /\ code = 1 =>
         /\ verb \in {"plan", "clean"} /\ changed \subseteq {"observations"}
         /\ Len(stdout) = 1 /\ stdout[1].pending > 0
    /\ code = 2 =>
         /\ verb = "clean_apply" /\ "journal" \in changed
         /\ Len(stdout) = 1 /\ stdout[1].kept > 0
    /\ code = 0 /\ verb \in OneShot \ {"tui"} /\ pipe # "closed" =>
         /\ Len(stdout) = 1
         /\ IF verb \in Applies THEN stdout[1].kept = 0
            ELSE verb \in {"plan", "clean"} => stdout[1].pending = 0
    /\ "engine" \in changed => "journal" \in changed

Occurred(events, n) == Cardinality({m \in 1..n : stdout[m].event \in events})

\* A reader of the daemon's events can tell which pass an event belongs to: each
\* pass_started has the next number and is answered by one pass_summary or one
\* pass_error before anything else begins, failing passes included, and a daemon
\* that was told to stop says so last.
EventsPair ==
  verb \in Daemons /\ json =>
    /\ \A n \in DOMAIN stdout :
         LET begun    == Occurred({"pass_started"}, n - 1)
             answered == Occurred({"pass_summary", "pass_error"}, n - 1)
         IN  /\ stdout[n].event \in {"pass_started", "configuration_reload_requested", "daemon_stopped"}
                  => begun = answered
             /\ stdout[n].event = "pass_started" => stdout[n].pass = begun + 1
             /\ stdout[n].event \in {"plan", "action", "pass_summary", "pass_error"}
                  => stdout[n].pass = begun /\ begun = answered + 1
    /\ code = 0 /\ pipe # "closed" => Last(stdout).event = "daemon_stopped"

=============================================================================
