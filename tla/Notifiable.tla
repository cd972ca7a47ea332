------------------------------ MODULE Notifiable ------------------------------
(***************************************************************************)
(* One Notifiable of the InfinityScript runtime: an Entity or a BaseScript *)
(* with its notification queue, its handler lists and its timers           *)
(* (InfinityScript/ScriptProcessor/Notifiable.cs).                         *)
(*                                                                         *)
(* The runtime is single threaded, but it is re-entrant: while one of its  *)
(* callbacks runs, the script may register handlers, add timers and make   *)
(* the game raise new notifications.  Every point where the C# code calls  *)
(* a delegate is therefore a state of its own ("notified", "handler",      *)
(* "timer") from which any such call may come before the delegate returns  *)
(* or throws.                                                              *)
(***************************************************************************)
EXTENDS Integers, Sequences, FiniteSets

CONSTANTS
  Types,        \* the notification types in use
  Delays,       \* the delays scripts pass to AfterDelay
  Intervals,    \* the intervals scripts pass to OnInterval
  TimersFirst,  \* TRUE for a BaseScript, FALSE for an Entity
  MaxNotifies,  \* bound on the notifications accepted
  MaxHandlers,  \* bound on the handlers of one type
  MaxTimers,    \* bound on the timers created
  MaxTime       \* bound on the game clock

ASSUME ConstantsAssumption ==
  /\ Delays \subseteq Nat
  /\ Intervals \subseteq Int
  /\ TimersFirst \in BOOLEAN
  /\ MaxNotifies \in Nat /\ MaxHandlers \in Nat
  /\ MaxTimers \in Nat /\ MaxTime \in Nat

VARIABLES
  handlers,     \* length of each _notifyHandlers list; a handler is its index
  listened,     \* Notified # null: somebody subscribed to every notification
  queued,       \* all notifications ever accepted, in order (history)
  pending,      \* _pendingNotifys: indices into queued
  batch,        \* what is left of the local snapshot `notifys`
  pos,          \* the enumerator over the handler list: handlers started ...
  version,      \* ... and the length of the list when it was created
  seen,         \* <<notification, handler>> pairs run so far (history)
  lost,         \* notifications dropped with an aborted pass (history)
  disturbed,    \* a callback did what makes a pass abort (history)
  timers,       \* _timers: indices into made, oldest first
  made,         \* all timers ever created
  tbatch,       \* what is left of the local snapshot `timers`
  clock,        \* the game's getTime
  currentTime,  \* _currentTime, the clock at the last timer pass
  stage,        \* passes of this frame already over
  pc            \* where the code is

nvars == <<handlers, listened, queued, pending, batch, pos, version, seen, lost, disturbed>>
tvars == <<timers, made, tbatch, clock, currentTime>>
vars  == <<nvars, tvars, stage, pc>>

PCs == {"idle", "dispatch", "notified", "enum", "handler", "tick", "timer"}
NoTime == -1

RangeOf(s) == {s[i] : i \in 1..Len(s)}

\* List<T>.Remove of an element of the list
Remove(s, e) ==
  LET k == CHOOSE k \in 1..Len(s) : s[k] = e
  IN  SubSeq(s, 1, k - 1) \o SubSeq(s, k + 1, Len(s))

TypeOf(n)  == queued[n].type
Current    == Head(batch)

Init ==
  /\ handlers = [t \in Types |-> 0]
  /\ listened = FALSE
  /\ queued = <<>> /\ pending = <<>> /\ batch = <<>>
  /\ pos = 0 /\ version = 0
  /\ seen = {} /\ lost = {} /\ disturbed = FALSE
  /\ timers = <<>> /\ made = <<>> /\ tbatch = <<>>
  /\ clock \in 0..MaxTime /\ currentTime = 0
  /\ stage = 0 /\ pc = "idle"

-------------------------------------------------------------------------------
(* What script code and the game may call, between passes or from inside a   *)
(* callback.                                                                  *)

ScriptRuns == pc \in {"idle", "notified", "handler", "timer"}

\* protected void OnNotifyInternal(string type, Delegate handler)
OnNotifyInternal(t) ==
  /\ ScriptRuns
  /\ handlers[t] < MaxHandlers
  /\ handlers' = [handlers EXCEPT ![t] = @ + 1]
  /\ disturbed' = (disturbed \/ (pc = "handler" /\ t = TypeOf(Current)))
  /\ UNCHANGED <<listened, queued, pending, batch, pos, version, seen, lost, tvars, stage, pc>>

\* public event Action<string, Parameter[]> Notified: += and -=
SubscribeNotified ==
  /\ ScriptRuns
  /\ listened' = ~listened
  /\ UNCHANGED <<handlers, queued, pending, batch, pos, version, seen, lost, disturbed, tvars, stage, pc>>

\* internal void HandleNotify: only what somebody can hear is queued
HandleNotify(t) ==
  /\ ScriptRuns
  /\ listened \/ handlers[t] > 0
  /\ Len(queued) < MaxNotifies
  /\ queued' = Append(queued, [type |-> t, had |-> handlers[t]])
  /\ pending' = Append(pending, Len(queued) + 1)
  /\ UNCHANGED <<handlers, listened, batch, pos, version, seen, lost, disturbed, tvars, stage, pc>>

AddTimer(trigger, interval) ==
  /\ ScriptRuns
  /\ Len(made) < MaxTimers
  /\ made' = Append(made, [trigger |-> trigger, interval |-> interval,
                           since |-> clock, last |-> NoTime])
  /\ timers' = Append(timers, Len(made) + 1)
  /\ UNCHANGED <<nvars, tbatch, clock, currentTime, stage, pc>>

\* OnInterval: due at once, then every interval
OnInterval(i) == AddTimer(0, i)

\* AfterDelay: counts from _currentTime, not from the clock
AfterDelay(d) == AddTimer(currentTime + d, -1)

-------------------------------------------------------------------------------
(* void ProcessNotifications()                                                *)

NotificationsTurn == pc = "idle" /\ (stage = 1) = TimersFirst
TimersTurn        == pc = "idle" /\ (stage = 1) # TimersFirst
EndPass           == pc' = "idle" /\ stage' = 1 - stage

\* Mutant: the pending list is not cleared after the copy.
BeginNotificationsNoClear ==
  /\ NotificationsTurn
  /\ batch' = pending
  /\ pc' = "dispatch"
  /\ UNCHANGED <<handlers, listened, queued, pending, pos, version, seen, lost, disturbed, tvars, stage>>

BeginNotifications ==
  /\ NotificationsTurn
  /\ batch' = pending
  /\ pending' = <<>>
  /\ pc' = "dispatch"
  /\ UNCHANGED <<handlers, listened, queued, pos, version, seen, lost, disturbed, tvars, stage>>

\* foreach creates an enumerator, or the type has no list
StartHandlers ==
  IF handlers[TypeOf(Current)] > 0
  THEN pos' = 0 /\ version' = handlers[TypeOf(Current)] /\ pc' = "enum" /\ UNCHANGED batch
  ELSE batch' = Tail(batch) /\ pc' = "dispatch" /\ UNCHANGED <<pos, version>>

\* An exception that leaves ProcessNotifications: RunAll logs it, and the rest
\* of the snapshot is gone.
AbortPass ==
  /\ lost' = lost \cup RangeOf(batch)
  /\ batch' = <<>>
  /\ EndPass

NextNotification ==
  /\ pc = "dispatch" /\ batch # <<>>
  /\ IF listened THEN pc' = "notified" /\ UNCHANGED <<batch, pos, version>>
                 ELSE StartHandlers
  /\ UNCHANGED <<handlers, listened, queued, pending, seen, lost, disturbed, tvars, stage>>

NotifiedReturns ==
  /\ pc = "notified"
  /\ StartHandlers
  /\ UNCHANGED <<handlers, listened, queued, pending, seen, lost, disturbed, tvars, stage>>

\* the event is raised outside of the try
NotifiedThrows ==
  /\ pc = "notified"
  /\ AbortPass
  /\ disturbed' = TRUE
  /\ UNCHANGED <<handlers, listened, queued, pending, pos, version, seen, tvars>>

\* List<T>.Enumerator.MoveNext finds another handler
NextHandler ==
  /\ pc = "enum"
  /\ handlers[TypeOf(Current)] = version
  /\ pos < version
  /\ pos' = pos + 1
  /\ seen' = seen \cup {<<Current, pos + 1>>}
  /\ pc' = "handler"
  /\ UNCHANGED <<handlers, listened, queued, pending, batch, version, lost, disturbed, tvars, stage>>

\* Mutant: the loop stops before the last handler.
NoMoreHandlersEarly ==
  /\ pc = "enum"
  /\ pos + 1 = version
  /\ batch' = Tail(batch)
  /\ pc' = "dispatch"
  /\ UNCHANGED <<handlers, listened, queued, pending, pos, version, seen, lost, disturbed, tvars, stage>>

NoMoreHandlers ==
  /\ pc = "enum"
  /\ handlers[TypeOf(Current)] = version
  /\ pos = version
  /\ batch' = Tail(batch)
  /\ pc' = "dispatch"
  /\ UNCHANGED <<handlers, listened, queued, pending, pos, version, seen, lost, disturbed, tvars, stage>>

\* MoveNext on a list that changed throws, also after the last handler
CollectionModified ==
  /\ pc = "enum"
  /\ handlers[TypeOf(Current)] # version
  /\ AbortPass
  /\ UNCHANGED <<handlers, listened, queued, pending, pos, version, seen, disturbed, tvars>>

\* Mutant: the try is around the loop, not in it.
HandlerEndsThePass ==
  /\ pc = "handler"
  /\ \/ pc' = "enum" /\ UNCHANGED <<batch, lost, stage>>
     \/ AbortPass
  /\ UNCHANGED <<handlers, listened, queued, pending, pos, version, seen, disturbed, tvars>>

\* a handler returns, or throws and is logged: the same to the loop
HandlerEnds ==
  /\ pc = "handler"
  /\ pc' = "enum"
  /\ UNCHANGED <<nvars, tvars, stage>>

NotificationsDone ==
  /\ pc = "dispatch" /\ batch = <<>>
  /\ EndPass
  /\ UNCHANGED <<nvars, tvars>>

-------------------------------------------------------------------------------
(* void ProcessTimers()                                                       *)

BeginTimers ==
  /\ TimersTurn
  /\ currentTime' = clock
  /\ tbatch' = timers
  /\ pc' = "tick"
  /\ UNCHANGED <<nvars, timers, made, clock, stage>>

Due(i) == currentTime >= made[i].trigger

FireTimer ==
  /\ pc = "tick" /\ tbatch # <<>>
  /\ Due(Head(tbatch))
  /\ made' = [made EXCEPT ![Head(tbatch)].last = clock]
  /\ pc' = "timer"
  /\ UNCHANGED <<nvars, timers, tbatch, clock, currentTime, stage>>

SkipTimer ==
  /\ pc = "tick" /\ tbatch # <<>>
  /\ ~Due(Head(tbatch))
  /\ tbatch' = Tail(tbatch)
  /\ UNCHANGED <<nvars, timers, made, clock, currentTime, stage, pc>>

\* Mutant: the next run counts from the trigger time, not from the run.
TimerReturnsCatchingUp ==
  /\ pc = "timer"
  /\ LET i == Head(tbatch) IN
       IF made[i].interval # -1
       THEN /\ made' = [made EXCEPT ![i].trigger = @ + made[i].interval]
            /\ UNCHANGED timers
       ELSE /\ timers' = Remove(timers, i)
            /\ UNCHANGED made
  /\ tbatch' = Tail(tbatch)
  /\ pc' = "tick"
  /\ UNCHANGED <<nvars, clock, currentTime, stage>>

\* it returned true or nothing: a one-shot timer goes, another is rearmed
TimerReturns ==
  /\ pc = "timer"
  /\ LET i == Head(tbatch) IN
       IF made[i].interval # -1
       THEN /\ made' = [made EXCEPT ![i].trigger = currentTime + made[i].interval]
            /\ UNCHANGED timers
       ELSE /\ timers' = Remove(timers, i)
            /\ UNCHANGED made
  /\ tbatch' = Tail(tbatch)
  /\ pc' = "tick"
  /\ UNCHANGED <<nvars, clock, currentTime, stage>>

\* Mutant: removing from the list the loop runs over skips a timer.
TimerStopsSkipping ==
  /\ pc = "timer"
  /\ timers' = Remove(timers, Head(tbatch))
  /\ tbatch' = IF Len(tbatch) > 1 THEN Tail(Tail(tbatch)) ELSE <<>>
  /\ pc' = "tick"
  /\ UNCHANGED <<nvars, made, clock, currentTime, stage>>

\* it returned false, or it threw
TimerStops ==
  /\ pc = "timer"
  /\ timers' = Remove(timers, Head(tbatch))
  /\ tbatch' = Tail(tbatch)
  /\ pc' = "tick"
  /\ UNCHANGED <<nvars, made, clock, currentTime, stage>>

TimersDone ==
  /\ pc = "tick" /\ tbatch = <<>>
  /\ EndPass
  /\ UNCHANGED <<nvars, tvars>>

\* the game's time moves between frames
Advance ==
  /\ pc = "idle" /\ stage = 0
  /\ clock < MaxTime
  /\ clock' = clock + 1
  /\ UNCHANGED <<nvars, timers, made, tbatch, currentTime, stage, pc>>

-------------------------------------------------------------------------------
Script ==
  \/ \E t \in Types : OnNotifyInternal(t)
  \/ SubscribeNotified
  \/ \E t \in Types : HandleNotify(t)
  \/ \E i \in Intervals : OnInterval(i)
  \/ \E d \in Delays : AfterDelay(d)

Notifications ==
  \/ BeginNotifications \/ NextNotification \/ NotifiedReturns \/ NotifiedThrows
  \/ NextHandler \/ NoMoreHandlers \/ CollectionModified \/ HandlerEnds
  \/ NotificationsDone

Timing ==
  \/ BeginTimers \/ FireTimer \/ SkipTimer \/ TimerReturns \/ TimerStops \/ TimersDone

Next == Script \/ Notifications \/ Timing \/ Advance

Spec == Init /\ [][Next]_vars
\* The game calls RunFrame every frame and callbacks return: the runtime's own
\* steps are never put off for ever.  Nothing is assumed of the scripts.
FairSpec == Spec /\ WF_vars(Notifications) /\ WF_vars(Timing)

-------------------------------------------------------------------------------
Timers == 1..Len(made)

Notification == [type : Types, had : Nat]
ScriptTimer  == [trigger : Int, interval : Int, since : Nat, last : Nat \cup {NoTime}]

NotificationsOK ==
  /\ handlers \in [Types -> Nat]
  /\ listened \in BOOLEAN /\ disturbed \in BOOLEAN
  /\ queued \in Seq(Notification)
  /\ pending \in Seq(1..Len(queued)) /\ batch \in Seq(1..Len(queued))
  /\ pos \in Nat /\ version \in Nat /\ pos <= version
  /\ seen \subseteq (1..Len(queued)) \X (Nat \ {0})
  /\ lost \subseteq 1..Len(queued)

TimersOK ==
  /\ made \in Seq(ScriptTimer)
  /\ timers \in Seq(Timers) /\ tbatch \in Seq(Timers)
  /\ clock \in Nat /\ currentTime \in Nat

ControlOK ==
  /\ stage \in {0, 1} /\ pc \in PCs
  /\ pc \in {"notified", "enum", "handler"} => batch # <<>>
  /\ pc = "timer" => tbatch # <<>>

TypeOK == NotificationsOK /\ TimersOK /\ ControlOK

\* Handlers hear notifications in the order they were raised, each handler each
\* notification at most once, whatever handlers add while a pass runs
\* (the snapshot-and-clear at the head of ProcessNotifications).
Hears == pc = "enum" /\ pc' = "handler"

InOrder ==
  [][Hears => \A q \in seen : q[1] < Current \/ (q[1] = Current /\ q[2] < pos')]_vars

\* Once a notification is through, and its pass was not aborted, every handler
\* that existed when HandleNotify queued it has run.
Delivered ==
  \A n \in 1..Len(queued) :
    n \notin RangeOf(pending) \cup RangeOf(batch) \cup lost
      => \A h \in 1..queued[n].had : <<n, h>> \in seen

\* A handler that throws costs nobody else anything (the try is inside the
\* loop): notifications are lost only if a Notified subscriber threw, or a
\* handler registered another one for the very type being dispatched.
LossNeedsDisturbance == lost # {} => disturbed

\* Whatever was queued is dispatched or dropped in a bounded number of frames,
\* although handlers may raise notifications for ever.
EventuallyDrained ==
  \A n \in 1..MaxNotifies :
    n \in RangeOf(pending) ~> n \notin RangeOf(pending) \cup RangeOf(batch)

Runs(i) == pc = "tick" /\ pc' = "timer" /\ i = Head(tbatch)

\* AfterDelay runs its function at most once, also if the function throws.
OneShotOnce ==
  [][\A i \in Timers : Runs(i) /\ made[i].interval = -1 => made[i].last = NoTime]_vars

\* Two runs of one OnInterval function are at least its interval apart.
IntervalSpacing ==
  [][\A i \in Timers :
        Runs(i) /\ made[i].last # NoTime => clock >= made[i].last + made[i].interval]_vars

\* A timer pass overlooks nothing: what is still due at its end has just run,
\* or was added by a callback of this pass.
NoDueTimerLeft ==
  pc = "tick" /\ tbatch = <<>>
    => \A i \in RangeOf(timers) : Due(i) => made[i].last = clock \/ made[i].since = clock
===============================================================================
