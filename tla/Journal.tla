------------------------------- MODULE Journal -------------------------------
(***************************************************************************)
(* The activity journal (src/src/activity.rs): passes of several processes *)
(* append their events to activity.jsonl, which is rotated under a limit   *)
(* of lines and bytes, and readers rebuild the completed passes from both  *)
(* files.                                                                  *)
(*                                                                         *)
(* A line is an event or Garbage, a line that does not decode.  An append  *)
(* is several small writes under the exclusive lock, so a process that     *)
(* dies, or whose write fails, can leave an unfinished line; the next      *)
(* append continues that very line.                                        *)
(***************************************************************************)
EXTENDS Integers, FiniteSets, Sequences, SequencesExt, Functions

CONSTANTS
  Procs,       \* processes that apply plans
  Nobody,      \* the lock is free
  Garbage,     \* a line that is no event
  Targets,     \* how many outcomes a pass may have: a set of numbers
  ActionSize,  \* the length of an action event; the others have length 1
  MaxEvents,   \* MAX_EVENTS
  MaxBytes,    \* MAX_BYTES
  MaxPasses,   \* bound on the passes of a process
  MaxBreaks    \* bound on appends that break off

Event == [pass : Procs \X Nat, seq : Nat, total : Nat, type : {"start", "action", "summary"}]

ASSUME JournalAssumption ==
  /\ Nobody \notin Procs
  /\ Garbage \notin Event
  /\ Targets \subseteq Nat
  /\ ActionSize \in Nat \ {0}
  /\ MaxEvents \in Nat \ {0}
  /\ MaxBytes \in Nat \ {0}
  /\ MaxPasses \in Nat
  /\ MaxBreaks \in Nat

\* A line is far shorter than MAX_BYTES, five MiB.
ASSUME LineAssumption == ActionSize <= MaxBytes

VARIABLES
  rotated,  \* the lines of activity.1.jsonl
  active,   \* the finished lines of activity.jsonl
  tail,     \* its unfinished last line: <<>> or <<line>>
  writer,   \* who holds the lock exclusively
  phase,    \* how far the writer's append has come
  pc,       \* [Procs -> "idle", "cleared", "open", "executed"]
  passes,   \* [Procs -> passes begun]
  total,    \* [Procs -> the outcomes of the pass, known once it executed]
  seq,      \* [Procs -> the sequence number of the next event]
  breaks,   \* appends that broke off
  torn,     \* history: has one left an unfinished line
  cut,      \* history: has one broken off between rename and truncation
  log       \* history: every line that was finished, in order

fileVars == <<rotated, active, tail>>
lockVars == <<writer, phase>>
passVars == <<pc, passes, total, seq>>
vars == <<fileVars, lockVars, passVars, breaks, torn, cut, log>>

-----------------------------------------------------------------------------
(* Lines *)

Pass(p) == <<p, passes[p]>>

\* The event a pass appends next: its start, its actions in order, its summary.
NextEvent(p) ==
  [pass |-> Pass(p), seq |-> seq[p], total |-> total[p],
   type |-> CASE seq[p] = 0 -> "start"
              [] seq[p] > total[p] -> "summary"
              [] OTHER -> "action"]

Length(line) == IF line # Garbage /\ line.type = "action" THEN ActionSize ELSE 1

Size(lines) ==
  LET sum[n \in 0..Len(lines)] == IF n = 0 THEN 0 ELSE sum[n - 1] + Length(lines[n])
  IN  sum[Len(lines)]

Lines == rotated \o active \o tail

\* Mutant: only the number of lines is limited.
NewestByCount(lines, maxEvents, maxBytes) ==
  IF Len(lines) <= maxEvents THEN lines
  ELSE SubSeq(lines, Len(lines) - maxEvents + 1, Len(lines))

\* retain_newest_lines(): the longest tail that keeps both limits.
Newest(lines, maxEvents, maxBytes) ==
  LET Fits(k) == /\ Len(lines) - k <= maxEvents
                 /\ Size(SubSeq(lines, k + 1, Len(lines))) <= maxBytes
      drop == CHOOSE k \in 0..Len(lines) : Fits(k) /\ \A j \in 0..(k - 1) : ~Fits(j)
  IN  SubSeq(lines, drop + 1, Len(lines))

OverLimit(lines) == Size(lines) > MaxBytes \/ Len(lines) > MaxEvents

\* read_events(): each event once, where it is met first.
Events(lines) ==
  LET seen(events, line) == \E e \in ToSet(events) : e.pass = line.pass /\ e.seq = line.seq
      read[n \in 0..Len(lines)] ==
        IF n = 0 THEN <<>>
        ELSE IF seen(read[n - 1], lines[n]) THEN read[n - 1]
        ELSE Append(read[n - 1], lines[n])
  IN  read[Len(lines)]

Readable == Garbage \notin ToSet(Lines)

\* What completed_passes() holds before the first event: the starts and the
\* actions met so far, and the passes completed.
NoneMet == [starts |-> {}, actions |-> {}, completed |-> <<>>]

\* Mutant: a summary takes every action met so far, whatever its pass.
MeetMixed(acc, e) ==
  CASE e.type = "start"  -> [acc EXCEPT !.starts = @ \cup {e.pass}]
    [] e.type = "action" -> [acc EXCEPT !.actions = @ \cup {e}]
    [] OTHER ->
         [starts    |-> acc.starts \ {e.pass},
          actions   |-> {},
          completed |-> Append(acc.completed,
                          [pass |-> e.pass, known |-> e.pass \in acc.starts,
                           total |-> e.total, actions |-> {a.seq : a \in acc.actions}])]

\* One event of it: a summary completes its pass with the actions met so far; a
\* pass whose start is gone takes the summary's time.
Meet(acc, e) ==
  LET own == {a \in acc.actions : a.pass = e.pass}
  IN  CASE e.type = "start"  -> [acc EXCEPT !.starts = @ \cup {e.pass}]
        [] e.type = "action" -> [acc EXCEPT !.actions = @ \cup {e}]
        [] OTHER ->
             [starts    |-> acc.starts \ {e.pass},
              actions   |-> acc.actions \ own,
              completed |-> Append(acc.completed,
                              [pass |-> e.pass, known |-> e.pass \in acc.starts,
                               total |-> e.total, actions |-> {a.seq : a \in own}])]

\* completed_passes()
Completed(events) ==
  LET met[n \in 0..Len(events)] == IF n = 0 THEN NoneMet ELSE Meet(met[n - 1], events[n])
  IN  met[Len(events)].completed

-----------------------------------------------------------------------------
(* A pass *)

\* start_pass() first refuses an unreadable history, under a shared lock that it
\* drops before it appends.
StartPass(p) ==
  /\ pc[p] = "idle"
  /\ passes[p] < MaxPasses
  /\ writer = Nobody
  /\ Readable
  /\ passes' = [passes EXCEPT ![p] = @ + 1]
  /\ pc' = [pc EXCEPT ![p] = "cleared"]
  /\ seq' = [seq EXCEPT ![p] = 0]
  /\ total' = [total EXCEPT ![p] = 0]
  /\ UNCHANGED <<fileVars, lockVars, breaks, torn, cut, log>>

\* The start is recorded: execute_plan() runs and has some outcomes.
Execute(p) ==
  /\ pc[p] = "open"
  /\ \E n \in Targets : total' = [total EXCEPT ![p] = n]
  /\ pc' = [pc EXCEPT ![p] = "executed"]
  /\ UNCHANGED <<fileVars, lockVars, passes, seq, breaks, torn, cut, log>>

Appending(p) == writer = p

\* append() takes the lock and the encoder writes the first bytes.
BeginAppend(p) ==
  /\ pc[p] \in {"cleared", "executed"}
  /\ writer = Nobody
  /\ writer' = p
  /\ phase' = IF tail = <<>> THEN "part" ELSE "glued"
  /\ tail' = <<Garbage>>
  /\ UNCHANGED <<rotated, active, passVars, breaks, torn, cut, log>>

\* The last bytes of the event: alone on its line it decodes.
WriteEvent(p) ==
  /\ Appending(p)
  /\ phase \in {"part", "glued"}
  /\ tail' = <<IF phase = "part" THEN NextEvent(p) ELSE Garbage>>
  /\ phase' = "whole"
  /\ UNCHANGED <<rotated, active, writer, passVars, breaks, torn, cut, log>>

\* The append has succeeded: the pass goes on, or is over with its summary.
Advance(p) ==
  /\ writer' = Nobody
  /\ phase' = "free"
  /\ seq' = [seq EXCEPT ![p] = @ + 1]
  /\ pc' = [pc EXCEPT ![p] = IF seq[p] = 0 THEN "open"
                             ELSE IF seq[p] > total[p] THEN "idle" ELSE "executed"]
  /\ UNCHANGED <<passes, total>>

\* The newline; with the limits kept the append returns.
EndLine(p) ==
  /\ Appending(p)
  /\ phase = "whole"
  /\ active' = active \o tail
  /\ tail' = <<>>
  /\ log' = log \o tail
  /\ IF OverLimit(rotated \o active \o tail)
     THEN phase' = "rotating" /\ UNCHANGED <<writer, passVars>>
     ELSE Advance(p)
  /\ UNCHANGED <<rotated, breaks, torn, cut>>

\* Mutant: the active file is emptied before its lines are safe.
RenameRotatedLate(p) ==
  /\ Appending(p)
  /\ phase = "rotating"
  /\ active' = <<>>
  /\ phase' = "renamed"
  /\ UNCHANGED <<rotated, tail, writer, passVars, breaks, torn, cut, log>>

\* rotate_if_needed(): the newest lines of both files replace the rotated one
\* by a rename,
RenameRotated(p) ==
  /\ Appending(p)
  /\ phase = "rotating"
  /\ rotated' = Newest(rotated \o active, MaxEvents, MaxBytes)
  /\ phase' = "renamed"
  /\ UNCHANGED <<active, tail, writer, passVars, breaks, torn, cut, log>>

\* and then the active file is emptied.
TruncateActive(p) ==
  /\ Appending(p)
  /\ phase = "renamed"
  /\ active' = <<>>
  /\ Advance(p)
  /\ UNCHANGED <<rotated, tail, breaks, torn, cut, log>>

\* The process dies, or a write fails and the error ends the pass: what has been
\* written stays, the lock is free and the pass has no summary.
BreakOff(p) ==
  /\ breaks < MaxBreaks
  /\ breaks' = breaks + 1
  /\ pc[p] # "idle"
  /\ pc' = [pc EXCEPT ![p] = "idle"]
  /\ IF Appending(p) THEN writer' = Nobody /\ phase' = "free" ELSE UNCHANGED lockVars
  /\ torn' = (torn \/ (Appending(p) /\ tail # <<>>))
  /\ cut' = (cut \/ (Appending(p) /\ phase = "renamed"))
  /\ UNCHANGED <<fileVars, passes, total, seq, log>>

Init ==
  /\ rotated = <<>>
  /\ active = <<>>
  /\ tail = <<>>
  /\ writer = Nobody
  /\ phase = "free"
  /\ pc = [p \in Procs |-> "idle"]
  /\ passes = [p \in Procs |-> 0]
  /\ total = [p \in Procs |-> 0]
  /\ seq = [p \in Procs |-> 0]
  /\ breaks = 0
  /\ torn = FALSE
  /\ cut = FALSE
  /\ log = <<>>

Next ==
  \E p \in Procs :
    \/ StartPass(p) \/ Execute(p)
    \/ BeginAppend(p) \/ WriteEvent(p) \/ EndLine(p)
    \/ RenameRotated(p) \/ TruncateActive(p)
    \/ BreakOff(p)

Spec == Init /\ [][Next]_vars

-----------------------------------------------------------------------------
(* Properties *)

\* The lock, the phase and the unfinished line belong together, and the
\* rotated file keeps both limits.
TypeOK ==
  /\ writer = Nobody <=> phase = "free"
  /\ phase \in {"free", "part", "glued", "whole", "rotating", "renamed"}
  /\ pc \in [Procs -> {"idle", "cleared", "open", "executed"}]
  /\ phase \in {"part", "glued"} => tail = <<Garbage>>
  /\ (tail # <<>> /\ writer = Nobody) => torn
  /\ Len(rotated) <= MaxEvents /\ Size(rotated) <= MaxBytes

\* What a reader can find is a tail of what was appended, without a gap and
\* each event once, and reaches back as far as the limits allow.  A rotation
\* that was cut short leaves lines in both files, whose room later rotations
\* lack; even then the newest event is found.
EventsKept ==
  (writer = Nobody /\ ~torn) =>
    LET events == Events(Lines)
    IN  /\ IsInjective(events)
        /\ \E k \in 0..Len(log) : ToSet(events) = ToSet(SubSeq(log, k + 1, Len(log)))
        /\ log # <<>> => Last(log) \in ToSet(events)
        /\ ~cut => ToSet(Newest(log, MaxEvents, MaxBytes)) \subseteq ToSet(events)

\* A pass that a reader calls completed and whose start it knows has all of its
\* actions, however passes of other processes were interleaved with it and
\* wherever a rotation cut the files.
CompletedWhole ==
  (writer = Nobody /\ Readable) =>
    \A c \in ToSet(Completed(Events(Lines))) : c.known => c.actions = 1..c.total

\* What activity.rs says of start_pass: a pass is recorded before it mutates
\* anything, so the event can be read while the pass executes.
MutationsRecorded ==
  \A p \in Procs : pc[p] = "open" =>
    \E e \in ToSet(Lines) \ {Garbage} : e.pass = Pass(p) /\ e.type = "start"

=============================================================================
