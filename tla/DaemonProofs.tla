---------------------------- MODULE DaemonProofs ----------------------------
(***************************************************************************)
(* The daemon loses no event between two passes and never sleeps on a      *)
(* counted tick, for every interval, debounce, backoff and counter bound.  *)
(***************************************************************************)
EXTENDS Daemon, TLAPS

Pcs == {"starting", "passing", "waiting", "stopped"}

\* An event counted after a pass was woken is counted still when it fails.
LateCounted == pc = "starting" /\ late => inbox.events > 0

\* The invariant the other properties rest on: the shape of the variables with
\* the deadlines as numbers, and the accounting of events and of wake-ups.
WaitInv ==
  /\ TypeOK
  /\ pc \in Pcs
  /\ LateCounted
  /\ EventsAccounted
  /\ NoLostWake

\* Nothing counted is no tick.
LEMMA EmptyHasNone == Empty \in TickCounts /\ Empty.events = 0 /\ ~HasTicks(Empty)
  BY DaemonAssumption DEF Empty, TickCounts, HasTicks

\* Adding ticks loses none and keeps the counters in their bounds.
LEMMA AddedKeepsTicks ==
  ASSUME NEW a \in TickCounts, NEW b \in TickCounts
  PROVE  /\ Added(a, b) \in TickCounts
         /\ Added(a, b).events > 0 <=> a.events > 0 \/ b.events > 0
         /\ HasTicks(Added(a, b)) <=> HasTicks(a) \/ HasTicks(b)
  BY DaemonAssumption DEF Added, Capped, TickCounts, HasTicks

\* Whatever the top of the loop decides with some ticks and a deadline that
\* belongs to them, no tick is lost: the daemon wakes or keeps both.
LEMMA DecideKeepsTicks ==
  ASSUME interval \in 0..Interval,
         NEW ticks \in TickCounts,
         NEW deadline,
         deadline = NoDeadline \/ deadline \in 0..Debounce,
         HasTicks(ticks) => deadline # NoDeadline,
         pc = "waiting",
         Decide(ticks, deadline)
  PROVE  /\ pending' \in TickCounts
         /\ interval' \in 0..Interval
         /\ debounce' = NoDeadline \/ debounce' \in 0..Debounce
         /\ \/ pc' = "starting" /\ pending' = Empty /\ debounce' = NoDeadline /\ late' = FALSE
            \/ pc' = "waiting" /\ pending' = ticks /\ (HasTicks(ticks) => debounce' # NoDeadline)
  BY DaemonAssumption, Z3 DEF Decide, Wake, Empty, TickCounts

\* The daemon starts with nothing counted, nothing taken and nothing unseen.
LEMMA WaitInvInit == Init => WaitInv
  BY DaemonAssumption
  DEF Init, WaitInv, TypeOK, Pcs, LateCounted, EventsAccounted, NoLostWake, TickCounts, Empty, HasTicks

\* No step of the engine, of a signal, of time, of the listener or of the
\* daemon breaks the invariant.
LEMMA WaitInvStep == WaitInv /\ [Next]_vars => WaitInv'
<1> SUFFICES ASSUME WaitInv, [Next]_vars PROVE WaitInv'
  OBVIOUS
<1> USE DaemonAssumption
<1>1. CASE UNCHANGED vars
  BY <1>1 DEF vars, historyVars, listenerVars, inboxVars, waitVars, signalVars, historyVars, WaitInv, TypeOK,
     LateCounted, EventsAccounted, NoLostWake
<1>2. CASE EngineChanges
  BY <1>2 DEF EngineChanges, listenerVars, inboxVars, waitVars, signalVars, historyVars, WaitInv, TypeOK,
     LateCounted, EventsAccounted, NoLostWake
<1>3. CASE SignalArrives
  BY <1>3 DEF SignalArrives, listenerVars, inboxVars, waitVars, signalVars, historyVars, WaitInv, TypeOK,
     LateCounted, EventsAccounted, NoLostWake
<1>4. CASE Tick
  <2>1. /\ interval' = Left(interval) /\ debounce' = Left(debounce) /\ backoff' = Left(backoff)
        /\ UNCHANGED <<listener, inbox, permit, pc, pending, unseen, late>>
    BY <1>4 DEF Tick, inboxVars, historyVars
  <2>2. /\ interval \in 0..Interval
        /\ debounce = NoDeadline \/ debounce \in 0..Debounce
        /\ backoff \in 0..Backoff
    BY DEF WaitInv, TypeOK
  <2>3. interval' \in 0..Interval
    BY <2>1, <2>2 DEF Left
  <2>4. /\ debounce' = NoDeadline \/ debounce' \in 0..Debounce
        /\ debounce' = NoDeadline <=> debounce = NoDeadline
    BY <2>1, <2>2 DEF Left
  <2>5. backoff' \in 0..Backoff /\ (backoff' > 0 => backoff > 0)
    BY <2>1, <2>2 DEF Left
  <2> QED
    BY <2>1, <2>3, <2>4, <2>5 DEF WaitInv, TypeOK, LateCounted, EventsAccounted, NoLostWake
<1>5. CASE ListenerStep
  <2>1. CASE Connect
    <3>1. /\ listener = "connecting"
          /\ UNCHANGED <<permit, pc, pending, interval, debounce, unseen, late>>
      BY <2>1 DEF Connect, waitVars, historyVars
    <3>2. \/ listener' = "retrying" /\ backoff' = Backoff /\ UNCHANGED inbox
          \/ listener' = "noticing" /\ UNCHANGED backoff
             /\ inbox' = [inbox EXCEPT !.reconnects = More(@)]
          \/ listener' = "reading" /\ UNCHANGED <<backoff, inbox>>
      BY <2>1, Zenon DEF Connect, CountReconnect
    <3>3. [inbox EXCEPT !.reconnects = More(@)] \in TickCounts
      BY DEF More, TickCounts, WaitInv, TypeOK
    <3>4. [inbox EXCEPT !.reconnects = More(@)].events = inbox.events
      BY DEF TickCounts, WaitInv, TypeOK
    <3>5. backoff = 0
      BY <3>1 DEF WaitInv, TypeOK
    <3>6. CASE listener' = "retrying" /\ backoff' = Backoff /\ UNCHANGED inbox
      BY <3>1, <3>6 DEF WaitInv, TypeOK, LateCounted, EventsAccounted, NoLostWake
    <3>7. CASE /\ listener' = "noticing" /\ UNCHANGED backoff
               /\ inbox' = [inbox EXCEPT !.reconnects = More(@)]
      <4>1. inbox' \in TickCounts /\ inbox'.events = inbox.events
        BY <3>3, <3>4, <3>7
      <4> QED
        BY <3>1, <3>5, <3>7, <4>1 DEF WaitInv, TypeOK, LateCounted, EventsAccounted, NoLostWake
    <3>8. CASE listener' = "reading" /\ UNCHANGED <<backoff, inbox>>
      BY <3>1, <3>5, <3>8 DEF WaitInv, TypeOK, LateCounted, EventsAccounted, NoLostWake
    <3> QED
      BY <3>2, <3>6, <3>7, <3>8
  <2>2. CASE ReadEvent
    <3>1. inbox' \in TickCounts /\ inbox'.events > 0
      BY <2>2 DEF ReadEvent, CountEvent, More, TickCounts, WaitInv, TypeOK
    <3>2. /\ listener = "reading" /\ listener' = "noticing"
          /\ UNCHANGED <<backoff, permit, pc, pending, interval, debounce>>
      BY <2>2 DEF ReadEvent, CountEvent, waitVars
    <3> QED
      BY <3>1, <3>2 DEF WaitInv, TypeOK, LateCounted, EventsAccounted, NoLostWake
  <2>3. CASE Notice
    BY <2>3 DEF Notice, waitVars, signalVars, historyVars, WaitInv, TypeOK, LateCounted, EventsAccounted, NoLostWake
  <2>4. CASE StreamEnds
    <3>1. /\ listener = "reading" /\ listener' = "retrying" /\ backoff' = Backoff
          /\ UNCHANGED <<inbox, permit, pc, pending, interval, debounce, unseen, late>>
      BY <2>4 DEF StreamEnds, inboxVars, waitVars, historyVars
    <3> QED
      BY <3>1 DEF WaitInv, TypeOK, LateCounted, EventsAccounted, NoLostWake
  <2>5. CASE BackoffEnds
    <3>1. /\ listener = "retrying" /\ backoff' = 0
          /\ UNCHANGED <<inbox, permit, pc, pending, interval, debounce, unseen, late>>
      BY <2>5 DEF BackoffEnds, inboxVars, waitVars, historyVars
    <3> QED
      BY <3>1 DEF WaitInv, TypeOK, LateCounted, EventsAccounted, NoLostWake
  <2> QED
    BY <1>5, <2>1, <2>2, <2>3, <2>4, <2>5 DEF ListenerStep
<1>6. CASE DaemonStep
  <2>1. CASE TakeInventory
    BY <2>1 DEF TakeInventory, listenerVars, inboxVars, waitVars, signalVars, Pcs,
       WaitInv, TypeOK, LateCounted, EventsAccounted, NoLostWake
  <2>2. CASE BeginWait
    <3>1. /\ NonemptyDeadline(inbox) = NoDeadline \/ NonemptyDeadline(inbox) \in 0..Debounce
          /\ HasTicks(inbox) => NonemptyDeadline(inbox) # NoDeadline
      BY DEF NonemptyDeadline
    <3>2. /\ pending' = inbox /\ inbox' = Empty
          /\ interval' = Interval /\ debounce' = NonemptyDeadline(inbox)
          /\ pc = "passing" /\ pc' = "waiting"
          /\ UNCHANGED <<listener, backoff, unseen>>
      BY <2>2 DEF BeginWait, listenerVars, historyVars
    <3>3. pending.events = 0
      <4>1. pending = Empty
        BY <3>2 DEF WaitInv, TypeOK
      <4> QED
        BY <4>1, EmptyHasNone
    <3>4. TypeOK'
      <4>1. Interval \in 0..Interval
        OBVIOUS
      <4> QED
        BY <3>1, <3>2, <4>1, EmptyHasNone DEF WaitInv, TypeOK
    <3>5. EventsAccounted'
      BY <3>2, <3>3 DEF Pcs, WaitInv, EventsAccounted
    <3>6. NoLostWake'
      BY <3>1, <3>2, EmptyHasNone DEF NoLostWake
    <3> QED
      BY <3>2, <3>4, <3>5, <3>6 DEF Pcs, WaitInv, LateCounted
  <2>3. CASE OutputFails
    <3>1. /\ pc' = "stopped" /\ backoff' = 0 /\ pending' = Empty /\ interval' = 0
          /\ debounce' = NoDeadline /\ inbox' = inbox
      BY <2>3 DEF OutputFails, Stop, inboxVars
    <3> QED
      BY <3>1, EmptyHasNone DEF Pcs, WaitInv, TypeOK, LateCounted, EventsAccounted, NoLostWake
  <2>4. CASE Notified
    <3> DEFINE ticks == Added(pending, inbox)
    <3>1. /\ ticks \in TickCounts
          /\ ticks.events > 0 <=> pending.events > 0 \/ inbox.events > 0
      BY AddedKeepsTicks DEF WaitInv, TypeOK
    <3>2. /\ NonemptyDeadline(ticks) = NoDeadline \/ NonemptyDeadline(ticks) \in 0..Debounce
          /\ HasTicks(ticks) => NonemptyDeadline(ticks) # NoDeadline
      BY DEF NonemptyDeadline
    <3>3. /\ Decide(ticks, NonemptyDeadline(ticks))
          /\ pc = "waiting" /\ inbox' = Empty
          /\ UNCHANGED <<listenerVars, unseen>>
      BY <2>4 DEF Notified
    <3> HIDE DEF ticks
    <3>4. /\ pending' \in TickCounts
          /\ interval' \in 0..Interval
          /\ debounce' = NoDeadline \/ debounce' \in 0..Debounce
          /\ \/ pc' = "starting" /\ pending' = Empty /\ debounce' = NoDeadline /\ late' = FALSE
             \/ pc' = "waiting" /\ pending' = ticks /\ (HasTicks(ticks) => debounce' # NoDeadline)
      BY <3>1, <3>2, <3>3, DecideKeepsTicks DEF WaitInv, TypeOK
    <3> QED
      BY <3>1, <3>3, <3>4, EmptyHasNone DEF listenerVars, Pcs,
         WaitInv, TypeOK, LateCounted, EventsAccounted, NoLostWake
  <2>5. CASE DeadlinePasses
    <3>1. /\ Decide(pending, debounce)
          /\ pc = "waiting"
          /\ UNCHANGED <<listenerVars, inboxVars, unseen>>
      BY <2>5 DEF DeadlinePasses
    <3>2. /\ pending' \in TickCounts
          /\ interval' \in 0..Interval
          /\ debounce' = NoDeadline \/ debounce' \in 0..Debounce
          /\ \/ pc' = "starting" /\ pending' = Empty /\ debounce' = NoDeadline /\ late' = FALSE
             \/ pc' = "waiting" /\ pending' = pending /\ (HasTicks(pending) => debounce' # NoDeadline)
      BY <3>1, DecideKeepsTicks DEF WaitInv, TypeOK, NoLostWake
    <3> QED
      BY <3>1, <3>2 DEF listenerVars, inboxVars, Pcs, WaitInv, TypeOK, LateCounted, EventsAccounted, NoLostWake
  <2>6. CASE ReceiveReload
    <3>1. /\ pc' = "starting" /\ late' = FALSE /\ pending' = Empty /\ interval' = 0 /\ debounce' = NoDeadline
          /\ listener' = listener /\ backoff' = backoff /\ inbox' = inbox
      BY <2>6 DEF ReceiveReload, Wake, listenerVars, inboxVars
    <3> QED
      BY <3>1, EmptyHasNone DEF Pcs, WaitInv, TypeOK, LateCounted, EventsAccounted, NoLostWake
  <2>7. CASE ReceiveTerminate
    <3>1. /\ pc' = "stopped" /\ backoff' = 0 /\ pending' = Empty /\ interval' = 0
          /\ debounce' = NoDeadline /\ inbox' = inbox
      BY <2>7 DEF ReceiveTerminate, Stop, inboxVars
    <3> QED
      BY <3>1, EmptyHasNone DEF Pcs, WaitInv, TypeOK, LateCounted, EventsAccounted, NoLostWake
  <2>8. CASE PassFails
    <3>1. /\ pc = "starting" /\ pc' = "passing" /\ unseen' = late
          /\ UNCHANGED <<listener, backoff, inbox, pending, interval, debounce>>
      BY <2>8 DEF PassFails, listenerVars, inboxVars, waitVars
    <3> QED
      BY <3>1 DEF Pcs, WaitInv, TypeOK, LateCounted, EventsAccounted, NoLostWake
  <2> QED
    BY <1>6, <2>1, <2>2, <2>3, <2>4, <2>5, <2>6, <2>7, <2>8 DEF DaemonStep
<1> QED
  BY <1>1, <1>2, <1>3, <1>4, <1>5, <1>6 DEF Next

\* Every reachable state has the invariant.
THEOREM WaitInvariant == Spec => []WaitInv
  BY WaitInvInit, WaitInvStep, PTL DEF Spec

\* next_wake() and the inbox together lose no event between two passes: until an
\* inventory begins after it, or a pass that was woken after it fails without
\* one, it is counted, taken, or the next pass is about to begin.
THEOREM EventsKeptBetweenPasses == Spec => []EventsAccounted
<1>1. WaitInv => EventsAccounted
  BY DEF WaitInv
<1> QED
  BY <1>1, WaitInvariant, PTL

\* No wake-up falls between the counters and the permit.
THEOREM WakesNeverLost == Spec => []NoLostWake
<1>1. WaitInv => NoLostWake
  BY DEF WaitInv
<1> QED
  BY <1>1, WaitInvariant, PTL

=============================================================================
