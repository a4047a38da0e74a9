------------------------------- MODULE Daemon -------------------------------
(***************************************************************************)
(* When the daemon runs a pass: run_daemon in src/src/main.rs, and the     *)
(* event listener, the inbox between them and the wait for the interval,   *)
(* a quiet burst of events or a signal in src/src/wakeup.rs.               *)
(*                                                                         *)
(* The pass itself is Executor's subject.  Here it has a beginning, the    *)
(* moment it asks for the inventory it gets, or a failure before it has    *)
(* one, and an end.  Listener and daemon are tasks of one process that     *)
(* interleave between awaits; the two steps of recording a tick, counting  *)
(* it and notifying, are not atomic.  Time is counted in ticks, and a      *)
(* deadline that has passed may be noticed late.  The engine is external.  *)
(***************************************************************************)
EXTENDS Naturals

CONSTANTS
  Interval,   \* ticks between passes of a quiet daemon
  Debounce,   \* DEFAULT_EVENT_DEBOUNCE
  Backoff,    \* EVENT_RECONNECT_BACKOFF
  MaxTicks,   \* the counters of the inbox stop here
  NoDeadline  \* no debounce is running

ASSUME DaemonAssumption ==
  /\ Interval \in Nat \ {0}
  /\ Debounce \in Nat \ {0}
  /\ Backoff \in Nat \ {0}
  /\ MaxTicks \in Nat \ {0}
  /\ NoDeadline \notin Nat

VARIABLES
  engine,     \* "up", "down" (its socket is there, nobody answers) or "gone"
  listener,   \* "connecting", "reading", "noticing", "retrying" or "aborted"
  everLive,   \* has the stream ever delivered an event
  backoff,    \* ticks until the listener connects again
  inbox,      \* [events, reconnects]: the atomic counters
  permit,     \* the one permit of the Notify
  pc,         \* "starting", "passing", "waiting" or "stopped"
  pending,    \* [events, reconnects]: the ticks next_wake() has taken
  interval,   \* ticks until the interval deadline
  debounce,   \* ticks until the debounce deadline, or NoDeadline
  hup,        \* a SIGHUP waits to be received
  term,       \* a SIGTERM or SIGINT waits to be received
  trigger,    \* what started the pass, "none" while the daemon waits
  unseen,     \* history: an event was counted after the last inventory began,
              \*  or after the waking of a later pass that got none
  late        \* history: an event was counted after the last pass was woken

listenerVars == <<listener, everLive, backoff>>
inboxVars    == <<inbox, permit>>
waitVars     == <<pending, interval, debounce>>
signalVars   == <<hup, term>>
historyVars  == <<unseen, late>>
vars == <<engine, listenerVars, inboxVars, pc, waitVars, signalVars, trigger, historyVars>>

Empty == [events |-> 0, reconnects |-> 0]

-----------------------------------------------------------------------------
(* The engine and the signals *)

EngineChanges ==
  /\ pc # "stopped"
  /\ engine' \in {"up", "down", "gone"}
  /\ UNCHANGED <<listenerVars, inboxVars, pc, waitVars, signalVars, trigger, historyVars>>

SignalArrives ==
  /\ pc # "stopped"
  /\ \/ hup' = TRUE /\ UNCHANGED term
     \/ term' = TRUE /\ UNCHANGED hup
  /\ UNCHANGED <<engine, listenerVars, inboxVars, pc, waitVars, trigger, historyVars>>

Left(ticks) == IF ticks \in {0, NoDeadline} THEN ticks ELSE ticks - 1

Tick ==
  /\ \/ pc = "waiting" /\ (interval > 0 \/ debounce \notin {0, NoDeadline})
     \/ backoff > 0
  /\ interval' = Left(interval)
  /\ debounce' = Left(debounce)
  /\ backoff' = Left(backoff)
  /\ UNCHANGED <<engine, listener, everLive, inboxVars, pc, pending, signalVars, trigger, historyVars>>

-----------------------------------------------------------------------------
(* The listener *)

More(count) == IF count < MaxTicks THEN count + 1 ELSE count

\* Mutant: the tick is counted and nobody is notified.
CountEventSilently ==
  /\ inbox' = [inbox EXCEPT !.events = More(@)]
  /\ listener' = "reading"
  /\ unseen' = TRUE
  /\ late' = TRUE

\* record_event() and record_reconnect() count first and notify in Notice;
\* until then the listener does nothing else.
CountEvent ==
  /\ inbox' = [inbox EXCEPT !.events = More(@)]
  /\ listener' = "noticing"
  /\ unseen' = TRUE
  /\ late' = TRUE

CountReconnect == inbox' = [inbox EXCEPT !.reconnects = More(@)] /\ listener' = "noticing"

\* Asking for events is lazy and succeeds whenever the socket is there; once the
\* stream has been live, each new one counts as a reconnect.
Connect ==
  /\ listener = "connecting"
  /\ IF engine = "gone"
     THEN listener' = "retrying" /\ backoff' = Backoff /\ UNCHANGED inbox
     ELSE /\ UNCHANGED backoff
          /\ IF everLive THEN CountReconnect ELSE listener' = "reading" /\ UNCHANGED inbox
  /\ UNCHANGED <<engine, everLive, permit, pc, waitVars, signalVars, trigger, historyVars>>

ReadEvent ==
  /\ listener = "reading"
  /\ engine = "up"
  /\ everLive' = TRUE
  /\ CountEvent
  /\ UNCHANGED <<engine, backoff, permit, pc, waitVars, signalVars, trigger>>

Notice ==
  /\ listener = "noticing"
  /\ permit' = TRUE
  /\ listener' = "reading"
  /\ UNCHANGED <<engine, everLive, backoff, inbox, pc, waitVars, signalVars, trigger, historyVars>>

\* The stream ends or yields an error.
StreamEnds ==
  /\ listener = "reading"
  /\ listener' = "retrying"
  /\ backoff' = Backoff
  /\ UNCHANGED <<engine, everLive, inboxVars, pc, waitVars, signalVars, trigger, historyVars>>

BackoffEnds ==
  /\ listener = "retrying"
  /\ backoff = 0
  /\ listener' = "connecting"
  /\ UNCHANGED <<engine, everLive, backoff, inboxVars, pc, waitVars, signalVars, trigger, historyVars>>

-----------------------------------------------------------------------------
(* The daemon *)

HasTicks(ticks) == ticks.events > 0 \/ ticks.reconnects > 0

NonemptyDeadline(ticks) == IF HasTicks(ticks) THEN Debounce ELSE NoDeadline

Capped(count) == IF count < MaxTicks THEN count ELSE MaxTicks

Added(a, b) ==
  [events |-> Capped(a.events + b.events), reconnects |-> Capped(a.reconnects + b.reconnects)]

\* The next pass begins; what next_wake() has returned is reported and kept no
\* longer, and what it had taken but not returned is dropped.
Wake(reason) ==
  /\ pc' = "starting"
  /\ late' = FALSE
  /\ trigger' = reason
  /\ pending' = Empty
  /\ interval' = 0
  /\ debounce' = NoDeadline

\* The daemon leaves its loop and aborts the listener.
Stop ==
  /\ listener' = "aborted"
  /\ backoff' = 0
  /\ pc' = "stopped"
  /\ pending' = Empty
  /\ interval' = 0
  /\ debounce' = NoDeadline
  /\ UNCHANGED trigger

\* prepare_cleanup() begins the inventory it gets.
TakeInventory ==
  /\ pc = "starting"
  /\ engine = "up"
  /\ unseen' = FALSE
  /\ pc' = "passing"
  /\ UNCHANGED <<engine, listenerVars, inboxVars, waitVars, signalVars, trigger, late>>

\* The configuration, the state or the engine fails the pass before it has an
\* inventory: what its wait had taken is forgotten, later events are not.
PassFails ==
  /\ pc = "starting"
  /\ unseen' = late
  /\ pc' = "passing"
  /\ UNCHANGED <<engine, listenerVars, inboxVars, waitVars, signalVars, trigger, late>>

\* Mutant: the signals are registered anew for each wait, so one that arrived
\* during the pass is forgotten.
BeginWaitNewSignals ==
  /\ pc = "passing"
  /\ pc' = "waiting"
  /\ pending' = inbox
  /\ inbox' = Empty
  /\ interval' = Interval
  /\ debounce' = NonemptyDeadline(inbox)
  /\ trigger' = "none"
  /\ hup' = FALSE
  /\ term' = FALSE
  /\ UNCHANGED <<engine, listenerVars, permit, historyVars>>

\* The pass is over, failed or not, and next_wake() begins: it takes the ticks
\* that were counted meanwhile, but not the permit.
BeginWait ==
  /\ pc = "passing"
  /\ pc' = "waiting"
  /\ pending' = inbox
  /\ inbox' = Empty
  /\ interval' = Interval
  /\ debounce' = NonemptyDeadline(inbox)
  /\ trigger' = "none"
  /\ UNCHANGED <<engine, listenerVars, permit, signalVars, historyVars>>

\* The output of the pass cannot be written: run_daemon() returns the error.
OutputFails ==
  /\ pc = "passing"
  /\ Stop
  /\ UNCHANGED <<engine, everLive, inboxVars, signalVars, historyVars>>

\* The top of the loop: the interval deadline, then the debounce deadline.
Decide(ticks, deadline) ==
  \/ interval = 0 /\ Wake("interval")
  \/ interval > 0 /\ deadline = 0 /\ HasTicks(ticks) /\ Wake("event")
  \/ /\ interval > 0
     /\ ~(deadline = 0 /\ HasTicks(ticks))
     /\ pending' = ticks
     /\ debounce' = deadline
     /\ UNCHANGED <<pc, trigger, interval, late>>

\* Mutant: what was taken before is replaced instead of added to.
NotifiedReplaces ==
  /\ pc = "waiting"
  /\ permit
  /\ permit' = FALSE
  /\ inbox' = Empty
  /\ Decide(inbox, NonemptyDeadline(inbox))
  /\ UNCHANGED <<engine, listenerVars, signalVars, unseen>>

\* Mutant: the interval is counted from the last event.
NotifiedRestartsInterval ==
  /\ pc = "waiting"
  /\ permit
  /\ permit' = FALSE
  /\ inbox' = Empty
  /\ pending' = Added(pending, inbox)
  /\ debounce' = NonemptyDeadline(pending')
  /\ interval' = Interval
  /\ UNCHANGED <<engine, listenerVars, pc, trigger, signalVars, historyVars>>

\* A permit: take the ticks, add them up and start the quiet time again.
Notified ==
  /\ pc = "waiting"
  /\ permit
  /\ permit' = FALSE
  /\ inbox' = Empty
  /\ LET ticks == Added(pending, inbox) IN Decide(ticks, NonemptyDeadline(ticks))
  /\ UNCHANGED <<engine, listenerVars, signalVars, unseen>>

\* The earlier of the two deadlines has come.
DeadlinePasses ==
  /\ pc = "waiting"
  /\ interval = 0 \/ debounce = 0
  /\ Decide(pending, debounce)
  /\ UNCHANGED <<engine, listenerVars, inboxVars, signalVars, unseen>>

ReceiveReload ==
  /\ pc = "waiting"
  /\ hup
  /\ hup' = FALSE
  /\ Wake("SIGHUP")
  /\ UNCHANGED <<engine, listenerVars, inboxVars, term, unseen>>

ReceiveTerminate ==
  /\ pc = "waiting"
  /\ term
  /\ term' = FALSE
  /\ Stop
  /\ UNCHANGED <<engine, everLive, inboxVars, hup, historyVars>>

Init ==
  /\ engine \in {"up", "down", "gone"}
  /\ listener = "connecting"
  /\ everLive = FALSE
  /\ backoff = 0
  /\ inbox = Empty
  /\ permit = FALSE
  /\ pc = "starting"
  /\ pending = Empty
  /\ interval = 0
  /\ debounce = NoDeadline
  /\ hup = FALSE
  /\ term = FALSE
  /\ trigger = "startup"
  /\ unseen = FALSE
  /\ late = FALSE

ListenerStep == Connect \/ ReadEvent \/ Notice \/ StreamEnds \/ BackoffEnds

DaemonStep ==
  \/ TakeInventory \/ PassFails \/ BeginWait \/ OutputFails
  \/ Notified \/ DeadlinePasses \/ ReceiveReload \/ ReceiveTerminate

Next == ListenerStep \/ DaemonStep \/ EngineChanges \/ SignalArrives \/ Tick

Spec == Init /\ [][Next]_vars

\* The runtime polls ready tasks, time goes on and a pass ends.  select! polls
\* its branches in random order, so a signal that stays ready is received even
\* when events keep another branch ready.  Nothing is assumed of the engine.
Fairness ==
  /\ WF_vars(DaemonStep)
  /\ WF_vars(Notice)
  /\ WF_vars(Tick)
  /\ SF_vars(ReceiveTerminate)

FairSpec == Spec /\ Fairness

-----------------------------------------------------------------------------
(* Properties *)

TickCounts == [events : 0..MaxTicks, reconnects : 0..MaxTicks]

\* The counters stay in their bounds, and only a waiting daemon holds ticks.
TypeOK ==
  /\ inbox \in TickCounts
  /\ pending \in TickCounts
  /\ interval \in 0..Interval
  /\ debounce = NoDeadline \/ debounce \in 0..Debounce
  /\ backoff \in 0..Backoff
  /\ backoff > 0 => listener = "retrying"
  /\ pc # "waiting" => pending = Empty /\ debounce = NoDeadline

\* No event is lost between two passes: one that was counted after the last
\* inventory began, or after the waking of a later pass that got no inventory,
\* is still counted, or the wait knows of it, or the next pass is about to
\* begin.  What the wait had taken for a pass that then fails before its
\* inventory is not kept: nothing but the interval, or an event that comes
\* later, makes up for it (WaitEnds).
EventsAccounted ==
  (unseen /\ pc # "stopped") =>
    \/ pc = "starting"
    \/ inbox.events > 0
    \/ pending.events > 0

\* No wake-up is lost between the counters and the permit: while the daemon
\* waits, counted ticks have a permit, or the listener is about to give it, and
\* taken ticks have a debounce deadline.
NoLostWake ==
  pc = "waiting" =>
    /\ HasTicks(inbox) => permit \/ listener = "noticing"
    /\ HasTicks(pending) => debounce # NoDeadline

\* A flood of events that never goes quiet does not put off the next pass.
WaitEnds == pc = "waiting" ~> pc # "waiting"

\* A termination signal ends the daemon, whether it arrives during a pass or a
\* wait, and whatever events and reloads compete with it.
TermLeadsToStop == term ~> pc = "stopped"

=============================================================================
