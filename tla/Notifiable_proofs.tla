--------------------------- MODULE Notifiable_proofs ---------------------------
(***************************************************************************)
(* Proofs about one Notifiable for any number of types, handlers, timers   *)
(* and notifications: its type invariant, the order in which handlers hear *)
(* notifications, and that an aborted pass is the only way to miss one.    *)
(***************************************************************************)
EXTENDS Notifiable, SequenceTheorems, TLAPS

Increasing(s) == \A i, j \in 1..Len(s) : i < j => s[i] < s[j]

\* Notifications are worked off in the order of their number: what handlers
\* heard < what is left of the snapshot < what is queued for the next pass.
QueueOrder ==
  /\ Increasing(batch) /\ Increasing(pending)
  /\ \A n \in RangeOf(batch), m \in RangeOf(pending) : n < m
  /\ \A q \in seen : \A m \in RangeOf(pending) : q[1] < m
  /\ batch # <<>> => \A q \in seen :
        \/ q[1] < Current
        \/ q[1] = Current /\ q[2] <= pos /\ pc \in {"enum", "handler"}

\* The enumerator covers every handler there was when the notification came.
Coverage ==
  /\ \A n \in 1..Len(queued) : queued[n].had <= handlers[queued[n].type]
  /\ pc \in {"idle", "tick", "timer"} => batch = <<>>
  /\ pc \in {"enum", "handler"} =>
        /\ queued[Current].had <= version
        /\ \A h \in 1..pos : <<Current, h>> \in seen

\* A list is longer than its enumerator believes only if a handler made it so.
Blame ==
  pc \in {"enum", "handler"} /\ handlers[TypeOf(Current)] # version => disturbed

\* The timers of a pass are live until their turn, and none comes twice.
TimerOrder ==
  /\ Increasing(timers) /\ Increasing(tbatch)
  /\ RangeOf(tbatch) \subseteq RangeOf(timers)

\* A timer still to come has not run, or it was rearmed a full interval ahead.
Rearmed ==
  /\ pc \in {"tick", "timer"} => currentTime = clock
  /\ pc = "timer" => made[Head(tbatch)].last = clock
  /\ \A i \in RangeOf(timers) :
        made[i].last # NoTime =>
          \/ pc = "timer" /\ i = Head(tbatch)
          \/ /\ made[i].interval # -1
             /\ made[i].trigger >= made[i].last + made[i].interval

IInv == /\ TypeOK /\ TimerOrder /\ Rearmed /\ QueueOrder /\ Coverage /\ Delivered
        /\ Blame /\ LossNeedsDisturbance

-------------------------------------------------------------------------------
(* Sequences.                                                                 *)

LEMMA RangeOfTail ==
  ASSUME NEW S, NEW s \in Seq(S), s # <<>>
  PROVE  /\ RangeOf(s) = {Head(s)} \cup RangeOf(Tail(s))
         /\ Head(s) = s[1] /\ 1 \in 1..Len(s)
  <1>1. /\ Len(s) \in Nat \ {0} /\ Len(Tail(s)) = Len(s) - 1 /\ Head(s) = s[1]
        /\ \A i \in 1..Len(Tail(s)) : Tail(s)[i] = s[i + 1]
    BY HeadTailProperties, EmptySeq
  <1>2. ASSUME NEW e \in RangeOf(s) PROVE e \in {Head(s)} \cup RangeOf(Tail(s))
    <2>1. PICK i \in 1..Len(s) : s[i] = e
      BY DEF RangeOf
    <2>2. CASE i = 1
      BY <1>1, <2>1, <2>2
    <2>3. CASE i # 1
      <3>1. i - 1 \in 1..Len(Tail(s)) /\ Tail(s)[i - 1] = e
        BY <1>1, <2>1, <2>3
      <3> QED BY <3>1 DEF RangeOf
    <2> QED BY <2>2, <2>3
  <1>3. ASSUME NEW e \in RangeOf(Tail(s)) PROVE e \in RangeOf(s)
    <2>1. PICK i \in 1..Len(Tail(s)) : Tail(s)[i] = e
      BY DEF RangeOf
    <2>2. i + 1 \in 1..Len(s) /\ s[i + 1] = e
      BY <1>1, <2>1
    <2> QED BY <2>2 DEF RangeOf
  <1>4. Head(s) \in RangeOf(s)
    BY <1>1 DEF RangeOf
  <1> QED BY <1>1, <1>2, <1>3, <1>4

LEMMA RangeOfAppend ==
  ASSUME NEW S, NEW s \in Seq(S), NEW e \in S
  PROVE  RangeOf(Append(s, e)) = RangeOf(s) \cup {e}
  <1>1. /\ Len(s) \in Nat /\ Len(Append(s, e)) = Len(s) + 1
        /\ Append(s, e)[Len(s) + 1] = e
        /\ \A i \in 1..Len(s) : Append(s, e)[i] = s[i]
    BY AppendProperties, LenProperties
  <1>2. ASSUME NEW x \in RangeOf(Append(s, e)) PROVE x \in RangeOf(s) \cup {e}
    BY <1>1 DEF RangeOf
  <1>3. ASSUME NEW x \in RangeOf(s) \cup {e} PROVE x \in RangeOf(Append(s, e))
    <2>1. CASE x = e
      BY <1>1, <2>1 DEF RangeOf
    <2>2. CASE x # e
      <3>1. PICK i \in 1..Len(s) : s[i] = x
        BY <2>2 DEF RangeOf
      <3> QED BY <1>1, <3>1 DEF RangeOf
    <2> QED BY <2>1, <2>2
  <1> QED BY <1>2, <1>3

LEMMA IncreasingTail ==
  ASSUME NEW s \in Seq(Nat), s # <<>>, Increasing(s)
  PROVE  /\ Increasing(Tail(s))
         /\ \A e \in RangeOf(Tail(s)) : Head(s) < e
  <1>1. /\ Len(s) \in Nat \ {0} /\ Len(Tail(s)) = Len(s) - 1 /\ Head(s) = s[1]
        /\ \A i \in 1..Len(Tail(s)) : Tail(s)[i] = s[i + 1]
    BY HeadTailProperties, EmptySeq
  <1> QED BY <1>1 DEF Increasing, RangeOf

\* What List<T>.Remove leaves of a list without duplicates.
LEMMA RemoveProperties ==
  ASSUME NEW S \in SUBSET Nat, NEW s \in Seq(S), NEW e \in RangeOf(s), Increasing(s)
  PROVE  /\ Remove(s, e) \in Seq(S)
         /\ Increasing(Remove(s, e))
         /\ RangeOf(Remove(s, e)) = RangeOf(s) \ {e}
  <1> DEFINE k == CHOOSE i \in 1..Len(s) : s[i] = e
             a == SubSeq(s, 1, k - 1)
             b == SubSeq(s, k + 1, Len(s))
  <1>1. k \in 1..Len(s) /\ s[k] = e /\ Len(s) \in Nat
    <2>1. \E i \in 1..Len(s) : s[i] = e
      BY DEF RangeOf
    <2> QED BY <2>1, LenProperties
  <1>2. \A i \in 1..Len(s) : s[i] \in S
    BY ElementOfSeq
  <1>3. /\ a \in Seq(S) /\ Len(a) = k - 1
        /\ \A i \in 1..(k - 1) : a[i] = s[i]
    <2> HIDE DEF k
    <2>1. \A i \in 1..(k - 1) : s[i] \in S
      BY <1>1, <1>2
    <2> QED BY <1>1, <2>1, SubSeqProperties, Z3
  <1>4. /\ b \in Seq(S) /\ Len(b) = Len(s) - k
        /\ \A i \in 1..(Len(s) - k) : b[i] = s[k + i]
    <2> HIDE DEF k
    <2>1. \A i \in (k + 1)..Len(s) : s[i] \in S
      BY <1>1, <1>2
    <2> QED BY <1>1, <2>1, SubSeqProperties, Z3
  <1>5. Remove(s, e) = a \o b
    BY DEF Remove
  <1> DEFINE r == Remove(s, e)
  <1> HIDE DEF k, a, b, r
  <1>6. /\ r \in Seq(S) /\ Len(r) = Len(s) - 1
        /\ \A i \in 1..Len(r) : r[i] = IF i < k THEN s[i] ELSE s[i + 1]
    <2>1. /\ a \o b \in Seq(S) /\ Len(a \o b) = Len(a) + Len(b)
          /\ \A i \in 1..(Len(a) + Len(b)) :
               (a \o b)[i] = IF i <= Len(a) THEN a[i] ELSE b[i - Len(a)]
      BY <1>3, <1>4, ConcatProperties
    <2>2. r \in Seq(S) /\ Len(r) = Len(s) - 1
      BY <1>1, <1>3, <1>4, <1>5, <2>1 DEF r
    <2>3. ASSUME NEW i \in 1..Len(r)
          PROVE  r[i] = IF i < k THEN s[i] ELSE s[i + 1]
      <3>1. r[i] = IF i <= k - 1 THEN a[i] ELSE b[i - (k - 1)]
        BY <1>1, <1>3, <1>4, <1>5, <2>1, <2>2 DEF r
      <3>2. CASE i < k
        BY <1>1, <1>3, <3>1, <3>2, <2>2
      <3>3. CASE ~(i < k)
        <4>1. i - (k - 1) \in 1..(Len(s) - k) /\ k + (i - (k - 1)) = i + 1
          BY <1>1, <2>2, <3>3
        <4> QED BY <1>1, <1>4, <3>1, <3>3, <4>1
      <3> QED BY <3>2, <3>3
    <2> QED BY <2>2, <2>3
  <1>7. Increasing(r)
    BY <1>1, <1>2, <1>6 DEF Increasing
  <1>8. ASSUME NEW x \in RangeOf(r) PROVE x \in RangeOf(s) \ {e}
    <2>1. PICK i \in 1..Len(r) : r[i] = x
      BY DEF RangeOf
    <2>2. PICK j \in 1..Len(s) : j # k /\ s[j] = x
      BY <1>1, <1>6, <2>1
    <2>3. x # e
      <3>1. s[j] < s[k] \/ s[k] < s[j]
        BY <1>1, <2>2 DEF Increasing
      <3>2. s[j] \in Nat /\ s[k] \in Nat
        BY <1>1, <1>2, <2>2
      <3> QED BY <1>1, <2>2, <3>1, <3>2
    <2> QED BY <2>2, <2>3 DEF RangeOf
  <1>9. ASSUME NEW x \in RangeOf(s) \ {e} PROVE x \in RangeOf(r)
    <2>1. PICK j \in 1..Len(s) : s[j] = x
      BY DEF RangeOf
    <2>2. j # k
      BY <1>1, <2>1
    <2>3. PICK i \in 1..Len(r) : r[i] = x
      <3>1. CASE j < k
        <4>1. j \in 1..Len(r) /\ r[j] = x
          BY <1>1, <1>6, <2>1, <3>1
        <4> QED BY <4>1
      <3>2. CASE j > k
        <4>1. j - 1 \in 1..Len(r) /\ r[j - 1] = x
          BY <1>1, <1>6, <2>1, <3>2
        <4> QED BY <4>1
      <3> QED BY <1>1, <2>2, <3>1, <3>2
    <2> QED BY <2>3 DEF RangeOf
  <1> QED BY <1>6, <1>7, <1>8, <1>9 DEF r

-------------------------------------------------------------------------------
(* Types.                                                                     *)

LEMMA TypeInit == Init => TypeOK
  <1> SUFFICES ASSUME Init PROVE TypeOK
    OBVIOUS
  <1>1. NotificationsOK
    <2>1. queued \in Seq(Notification) /\ pending \in Seq(1..Len(queued)) /\ batch \in Seq(1..Len(queued))
      BY EmptySeq DEF Init
    <2>2. handlers \in [Types -> Nat]
      BY DEF Init
    <2>3. listened \in BOOLEAN /\ disturbed \in BOOLEAN
      BY DEF Init
    <2> QED BY <2>1, <2>2, <2>3 DEF Init, NotificationsOK
  <1>2. TimersOK
    BY EmptySeq, ConstantsAssumption DEF Init, TimersOK
  <1>3. ControlOK
    BY DEF Init, ControlOK, PCs
  <1> QED BY <1>1, <1>2, <1>3 DEF TypeOK

LEMMA NotificationsUnchanged ==
  ASSUME NotificationsOK, UNCHANGED nvars
  PROVE  NotificationsOK'
  BY DEF NotificationsOK, nvars

LEMMA TimersUnchanged ==
  ASSUME TimersOK, UNCHANGED tvars
  PROVE  TimersOK'
  BY DEF TimersOK, tvars, Timers

LEMMA CurrentType ==
  ASSUME NotificationsOK, batch # <<>>
  PROVE  /\ Current \in 1..Len(queued)
         /\ TypeOf(Current) \in Types
         /\ handlers[TypeOf(Current)] \in Nat
         /\ queued[Current].had \in Nat
         /\ Tail(batch) \in Seq(1..Len(queued))
  <1>1. Current \in 1..Len(queued) /\ Tail(batch) \in Seq(1..Len(queued))
    BY HeadTailProperties DEF NotificationsOK, Current
  <1>2. queued[Current] \in Notification
    BY <1>1, ElementOfSeq DEF NotificationsOK
  <1>3. TypeOf(Current) \in Types /\ queued[Current].had \in Nat
    BY <1>2 DEF Notification, TypeOf
  <1> QED BY <1>1, <1>3 DEF NotificationsOK

LEMMA StartHandlersType ==
  ASSUME NotificationsOK, batch # <<>>, StartHandlers,
         UNCHANGED <<handlers, listened, queued, pending, seen, lost, disturbed>>
  PROVE  NotificationsOK' /\ pc' \in PCs /\ (pc' = "enum" => batch' # <<>>)
                          /\ pc' \notin {"notified", "handler", "timer"}
  <1>1. CASE handlers[TypeOf(Current)] > 0
    <2>1. pos' = 0 /\ version' \in Nat /\ pc' = "enum" /\ batch' = batch
      BY <1>1, CurrentType DEF StartHandlers
    <2> QED BY <2>1 DEF NotificationsOK, PCs
  <1>2. CASE ~(handlers[TypeOf(Current)] > 0)
    <2>1. batch' \in Seq(1..Len(queued)) /\ pc' = "dispatch" /\ pos' = pos /\ version' = version
      BY <1>2, CurrentType DEF StartHandlers
    <2> QED BY <2>1 DEF NotificationsOK, PCs
  <1> QED BY <1>1, <1>2

LEMMA AddTimerType ==
  ASSUME TypeOK, NEW trigger \in Int, NEW interval \in Int,
         AddTimer(trigger, interval)
  PROVE  TypeOK'
  <1>1. [trigger |-> trigger, interval |-> interval, since |-> clock,
         last |-> NoTime] \in ScriptTimer
    BY DEF TypeOK, TimersOK, ScriptTimer
  <1>2. made' \in Seq(ScriptTimer) /\ Len(made') = Len(made) + 1 /\ Len(made) \in Nat
    BY <1>1, AppendProperties, LenProperties DEF TypeOK, TimersOK, AddTimer
  <1>3. Timers \subseteq Timers' /\ Len(made) + 1 \in Timers'
    BY <1>2 DEF Timers
  <1>4. timers \in Seq(Timers') /\ tbatch \in Seq(Timers')
    BY <1>3, SeqMonotonic DEF TypeOK, TimersOK
  <1>5. timers' \in Seq(Timers')
    BY <1>3, <1>4, AppendProperties DEF AddTimer
  <1> QED BY <1>2, <1>4, <1>5, NotificationsUnchanged
          DEF TypeOK, TimersOK, ControlOK, AddTimer, nvars

LEMMA TypeStep ==
  ASSUME TypeOK, TimerOrder, [Next]_vars
  PROVE  TypeOK'
  <1> USE DEF TypeOK
  <1>1. ASSUME NEW t \in Types, OnNotifyInternal(t) PROVE TypeOK'
    <2>1. handlers' \in [Types -> Nat] /\ disturbed' \in BOOLEAN
      BY <1>1 DEF NotificationsOK, OnNotifyInternal
    <2>2. UNCHANGED <<listened, queued, pending, batch, pos, version, seen, lost, tvars, tbatch, stage, pc>>
      BY <1>1 DEF OnNotifyInternal, tvars
    <2> QED BY <2>1, <2>2, TimersUnchanged DEF NotificationsOK, ControlOK
  <1>2. CASE SubscribeNotified
    <2>1. UNCHANGED <<handlers, queued, pending, batch, pos, version, seen, lost, disturbed,
                      tvars, tbatch, stage, pc>>
      BY <1>2 DEF SubscribeNotified, tvars
    <2>2. listened' \in BOOLEAN
      BY <1>2 DEF SubscribeNotified
    <2> QED BY <2>1, <2>2, TimersUnchanged DEF NotificationsOK, ControlOK
  <1>3. ASSUME NEW t \in Types, HandleNotify(t) PROVE TypeOK'
    <2>1. [type |-> t, had |-> handlers[t]] \in Notification
      BY DEF NotificationsOK, Notification
    <2>2. /\ queued' \in Seq(Notification) /\ Len(queued') = Len(queued) + 1
          /\ Len(queued) \in Nat
      BY <1>3, <2>1, AppendProperties, LenProperties DEF NotificationsOK, HandleNotify
    <2>3. 1..Len(queued) \subseteq 1..Len(queued') /\ Len(queued) + 1 \in 1..Len(queued')
      BY <2>2
    <2>4. pending \in Seq(1..Len(queued')) /\ batch \in Seq(1..Len(queued'))
      BY <2>3, SeqMonotonic DEF NotificationsOK
    <2>5. pending' \in Seq(1..Len(queued'))
      BY <1>3, <2>3, <2>4, AppendProperties DEF HandleNotify
    <2>6. /\ seen' \subseteq (1..Len(queued')) \X (Nat \ {0})
          /\ lost' \subseteq 1..Len(queued')
      BY <1>3, <2>3 DEF NotificationsOK, HandleNotify
    <2>7. NotificationsOK'
      BY <1>3, <2>2, <2>4, <2>5, <2>6 DEF HandleNotify, NotificationsOK
    <2>8. UNCHANGED <<batch, tvars, tbatch, stage, pc>>
      BY <1>3 DEF HandleNotify, tvars
    <2> QED BY <2>7, <2>8, TimersUnchanged DEF ControlOK
  <1>4. ASSUME NEW i \in Intervals, OnInterval(i) PROVE TypeOK'
    BY <1>4, AddTimerType, ConstantsAssumption DEF OnInterval
  <1>5. ASSUME NEW d \in Delays, AfterDelay(d) PROVE TypeOK'
    <2>1. currentTime + d \in Int /\ d \in Nat
      BY ConstantsAssumption DEF TimersOK
    <2> QED BY <1>5, <2>1, AddTimerType DEF AfterDelay
  <1>6. CASE BeginNotifications
    BY <1>6, EmptySeq, TimersUnchanged DEF BeginNotifications, NotificationsOK, ControlOK, PCs
  <1>7. CASE NextNotification
    <2>1. CASE listened
      BY <1>7, <2>1, TimersUnchanged DEF NextNotification, NotificationsOK, ControlOK, PCs
    <2>2. CASE ~listened
      BY <1>7, <2>2, StartHandlersType, TimersUnchanged DEF NextNotification, ControlOK
    <2> QED BY <2>1, <2>2
  <1>8. CASE NotifiedReturns
    BY <1>8, StartHandlersType, TimersUnchanged DEF NotifiedReturns, ControlOK
  <1>9. CASE NotifiedThrows \/ CollectionModified
    <2>1. /\ AbortPass /\ disturbed' \in BOOLEAN
          /\ UNCHANGED <<handlers, listened, queued, pending, pos, version, seen, tvars>>
      BY <1>9 DEF NotifiedThrows, CollectionModified, NotificationsOK
    <2>2. lost' \subseteq 1..Len(queued) /\ batch' = <<>>
      <3>1. RangeOf(batch) \subseteq 1..Len(queued)
        BY ElementOfSeq DEF NotificationsOK, RangeOf
      <3> QED BY <2>1, <3>1 DEF AbortPass, NotificationsOK
    <2>3. NotificationsOK'
      BY <2>1, <2>2, EmptySeq DEF NotificationsOK
    <2> QED BY <2>1, <2>3, TimersUnchanged DEF AbortPass, EndPass, ControlOK, PCs
  <1>10. CASE NextHandler
    <2>1. /\ Current \in 1..Len(queued) /\ pos \in Nat /\ version \in Nat /\ pos < version
          /\ pos' = pos + 1 /\ seen' = seen \cup {<<Current, pos + 1>>}
      BY <1>10, CurrentType DEF NotificationsOK, ControlOK, NextHandler
    <2>2. seen' \subseteq (1..Len(queued)) \X (Nat \ {0})
      BY <2>1 DEF NotificationsOK
    <2>3. NotificationsOK'
      BY <1>10, <2>1, <2>2 DEF NextHandler, NotificationsOK
    <2> QED BY <1>10, <2>3, TimersUnchanged DEF NextHandler, ControlOK, PCs
  <1>11. CASE NoMoreHandlers
    <2>1. batch' \in Seq(1..Len(queued))
      BY <1>11, CurrentType DEF NoMoreHandlers, ControlOK
    <2> QED BY <1>11, <2>1, TimersUnchanged DEF NoMoreHandlers, NotificationsOK, ControlOK, PCs
  <1>12. CASE HandlerEnds
    BY <1>12, NotificationsUnchanged, TimersUnchanged DEF HandlerEnds, ControlOK, PCs, nvars
  <1>13. CASE NotificationsDone \/ TimersDone
    BY <1>13, NotificationsUnchanged, TimersUnchanged
    DEF NotificationsDone, TimersDone, EndPass, ControlOK, PCs, nvars
  <1>14. CASE BeginTimers
    BY <1>14, NotificationsUnchanged DEF BeginTimers, TimersOK, Timers, ControlOK, PCs, nvars
  <1>15. CASE FireTimer
    <2>1. Head(tbatch) \in 1..Len(made)
      BY <1>15, HeadTailProperties DEF FireTimer, TimersOK, Timers
    <2>2. [made[Head(tbatch)] EXCEPT !.last = clock] \in ScriptTimer
      <3>1. made[Head(tbatch)] \in ScriptTimer /\ clock \in Nat
        BY <2>1, ElementOfSeq DEF TimersOK
      <3> QED BY <3>1 DEF ScriptTimer
    <2>3. made' = [made EXCEPT ![Head(tbatch)] = [made[Head(tbatch)] EXCEPT !.last = clock]]
      BY <1>15 DEF FireTimer
    <2>4. made' \in Seq(ScriptTimer) /\ Len(made') = Len(made)
      BY <2>1, <2>2, <2>3, ExceptSeq DEF TimersOK
    <2> QED BY <1>15, <2>4, NotificationsUnchanged
            DEF FireTimer, TimersOK, Timers, ControlOK, PCs, nvars
  <1>16. CASE SkipTimer
    BY <1>16, HeadTailProperties, NotificationsUnchanged
    DEF SkipTimer, TimersOK, Timers, ControlOK, PCs, nvars
  <1>17. CASE TimerReturns \/ TimerStops
    <2>1. /\ pc = "timer" /\ tbatch # <<>> /\ Head(tbatch) \in 1..Len(made)
          /\ tbatch' = Tail(tbatch) /\ pc' = "tick"
          /\ UNCHANGED <<nvars, clock, currentTime, stage>>
          /\ Tail(tbatch) \in Seq(Timers)
      BY <1>17, HeadTailProperties DEF TimersOK, ControlOK, Timers, TimerReturns, TimerStops
    <2>2. Remove(timers, Head(tbatch)) \in Seq(Timers)
      <3>1. Head(tbatch) \in RangeOf(timers) /\ Increasing(timers)
        BY <2>1, RangeOfTail DEF TimersOK, TimerOrder
      <3>2. Timers \in SUBSET Nat
        BY DEF Timers
      <3> QED BY <3>1, <3>2, RemoveProperties DEF TimersOK
    <2>3. CASE made' = made /\ timers' = Remove(timers, Head(tbatch))
      BY <2>1, <2>2, <2>3, NotificationsUnchanged DEF TimersOK, Timers, ControlOK, PCs, nvars
    <2>4. CASE /\ made' = [made EXCEPT ![Head(tbatch)].trigger
                                 = currentTime + made[Head(tbatch)].interval]
               /\ timers' = timers
      <3>1. [made[Head(tbatch)] EXCEPT !.trigger
               = currentTime + made[Head(tbatch)].interval] \in ScriptTimer
        <4>1. made[Head(tbatch)] \in ScriptTimer /\ currentTime \in Nat
          BY <2>1, ElementOfSeq DEF TimersOK
        <4>2. currentTime + made[Head(tbatch)].interval \in Int
          BY <4>1 DEF ScriptTimer
        <4> QED BY <4>1, <4>2 DEF ScriptTimer
      <3>2. made' \in Seq(ScriptTimer) /\ Len(made') = Len(made)
        BY <2>1, <2>4, <3>1, ExceptSeq DEF TimersOK
      <3> QED BY <2>1, <2>4, <3>2, NotificationsUnchanged
              DEF TimersOK, Timers, ControlOK, PCs, nvars
    <2> QED BY <1>17, <2>3, <2>4 DEF TimerReturns, TimerStops
  <1>18. CASE Advance
    BY <1>18, NotificationsUnchanged DEF Advance, TimersOK, Timers, ControlOK, nvars
  <1>19. CASE UNCHANGED vars
    <2>1. UNCHANGED nvars /\ UNCHANGED tvars /\ UNCHANGED <<stage, pc>> /\ UNCHANGED batch /\ UNCHANGED tbatch
      BY <1>19 DEF vars, nvars, tvars
    <2> QED BY <2>1, NotificationsUnchanged, TimersUnchanged DEF ControlOK
  <1> QED
    BY <1>1, <1>2, <1>3, <1>4, <1>5, <1>6, <1>7, <1>8, <1>9, <1>10, <1>11, <1>12, <1>13,
       <1>14, <1>15, <1>16, <1>17, <1>18, <1>19
    DEF Next, Script, Notifications, Timing

-------------------------------------------------------------------------------
(* Timers.                                                                    *)

LEMMA IncreasingAppend ==
  ASSUME NEW s \in Seq(Nat), NEW x \in Nat, Increasing(s), \A e \in RangeOf(s) : e < x
  PROVE  Increasing(Append(s, x))
  <1>1. /\ Len(s) \in Nat /\ Len(Append(s, x)) = Len(s) + 1
        /\ Append(s, x)[Len(s) + 1] = x
        /\ \A i \in 1..Len(s) : Append(s, x)[i] = s[i]
    BY AppendProperties, LenProperties
  <1>2. \A i \in 1..Len(s) : s[i] < x
    BY DEF RangeOf
  <1> QED BY <1>1, <1>2 DEF Increasing

LEMMA RangeType ==
  ASSUME NEW S, NEW s \in Seq(S)
  PROVE  RangeOf(s) \subseteq S
  BY ElementOfSeq DEF RangeOf

LEMMA EmptyRange == RangeOf(<<>>) = {} /\ Increasing(<<>>)
  BY DEF RangeOf, Increasing

LEMMA TimersAreNat ==
  ASSUME TimersOK
  PROVE  /\ timers \in Seq(Nat) /\ tbatch \in Seq(Nat) /\ Timers \in SUBSET Nat
         /\ Len(made) \in Nat
  <1>1. Timers \in SUBSET Nat
    BY DEF Timers
  <1> QED BY <1>1, SeqMonotonic, LenProperties DEF TimersOK

LEMMA TimerOrderInit == Init => TimerOrder
  BY RangeType, EmptySeq DEF Init, TimerOrder, Increasing, RangeOf

LEMMA AddTimerOrder ==
  ASSUME TypeOK, TimerOrder, NEW trigger, NEW interval,
         AddTimer(trigger, interval)
  PROVE  TimerOrder'
  <1>1. timers' = Append(timers, Len(made) + 1) /\ tbatch' = tbatch
    BY DEF AddTimer
  <1>2. \A e \in RangeOf(timers) : e < Len(made) + 1
    BY TimersAreNat, RangeType DEF TypeOK, TimersOK, Timers
  <1>3. Increasing(timers')
    BY <1>1, <1>2, TimersAreNat, IncreasingAppend DEF TypeOK, TimerOrder
  <1>4. RangeOf(timers') = RangeOf(timers) \cup {Len(made) + 1}
    BY <1>1, TimersAreNat, RangeOfAppend DEF TypeOK
  <1> QED BY <1>1, <1>3, <1>4 DEF TimerOrder

LEMMA TimerOrderStep ==
  ASSUME TypeOK, TimerOrder, [Next]_vars
  PROVE  TimerOrder'
  <1> USE TimersAreNat DEF TypeOK
  <1>1. CASE UNCHANGED <<timers, tbatch>>
    BY <1>1 DEF TimerOrder
  <1>2. ASSUME NEW i \in Intervals, OnInterval(i) PROVE TimerOrder'
    BY <1>2, AddTimerOrder DEF OnInterval
  <1>3. ASSUME NEW d \in Delays, AfterDelay(d) PROVE TimerOrder'
    BY <1>3, AddTimerOrder DEF AfterDelay
  <1>4. CASE BeginTimers
    BY <1>4 DEF BeginTimers, TimerOrder
  <1>5. CASE SkipTimer \/ TimerReturns \/ TimerStops
    <2>1. tbatch # <<>> /\ tbatch' = Tail(tbatch)
      BY <1>5 DEF SkipTimer, TimerReturns, TimerStops, ControlOK
    <2>2. /\ Increasing(tbatch') /\ RangeOf(tbatch') \subseteq RangeOf(tbatch)
          /\ \A e \in RangeOf(tbatch') : Head(tbatch) < e
          /\ Head(tbatch) \in RangeOf(tbatch) /\ Head(tbatch) \in Nat
      BY <2>1, IncreasingTail, RangeOfTail, HeadTailProperties DEF TimerOrder
    <2>3. CASE timers' = timers
      BY <2>2, <2>3 DEF TimerOrder
    <2>4. CASE timers' = Remove(timers, Head(tbatch))
      <3>1. Increasing(timers') /\ RangeOf(timers') = RangeOf(timers) \ {Head(tbatch)}
        BY <2>2, <2>4, RemoveProperties DEF TimerOrder
      <3>2. Head(tbatch) \notin RangeOf(tbatch')
        BY <2>2
      <3> QED BY <2>2, <3>1, <3>2 DEF TimerOrder
    <2> QED BY <1>5, <2>3, <2>4 DEF SkipTimer, TimerReturns, TimerStops
  <1>6. ASSUME NEW t \in Types, OnNotifyInternal(t) \/ HandleNotify(t)
        PROVE UNCHANGED <<timers, tbatch>>
    BY <1>6 DEF OnNotifyInternal, HandleNotify, tvars
  <1>7. CASE SubscribeNotified \/ Notifications
    BY <1>7, <1>1 DEF SubscribeNotified, Notifications, BeginNotifications, NextNotification,
       NotifiedReturns, NotifiedThrows, NextHandler, NoMoreHandlers, CollectionModified,
       HandlerEnds, NotificationsDone, tvars
  <1>8. CASE FireTimer \/ TimersDone \/ Advance \/ UNCHANGED vars
    BY <1>8, <1>1 DEF FireTimer, TimersDone, Advance, vars, tvars
  <1> QED
    BY <1>1, <1>2, <1>3, <1>4, <1>5, <1>6, <1>7, <1>8 DEF Next, Script, Timing

LEMMA RearmedStep ==
  ASSUME TypeOK, TimerOrder, Rearmed, [Next]_vars
  PROVE  Rearmed'
  <1> USE TimersAreNat DEF TypeOK
  <1>1. CASE /\ UNCHANGED <<timers, made, tbatch, clock, currentTime>>
             /\ pc' = "timer" <=> pc = "timer"
             /\ pc' \in {"tick", "timer"} => pc \in {"tick", "timer"}
    BY <1>1 DEF Rearmed
  <1>2. ASSUME NEW trigger, NEW interval, AddTimer(trigger, interval)
        PROVE  Rearmed'
    <2>1. /\ made' = Append(made, [trigger |-> trigger, interval |-> interval,
                                   since |-> clock, last |-> NoTime])
          /\ timers' = Append(timers, Len(made) + 1)
          /\ UNCHANGED <<tbatch, clock, currentTime, pc>>
      BY <1>2 DEF AddTimer
    <2>2. RangeOf(timers') = RangeOf(timers) \cup {Len(made) + 1}
      <3>1. timers \in Seq(Nat) /\ Len(made) + 1 \in Nat
        BY TimersAreNat
      <3> HIDE TimersAreNat DEF TypeOK
      <3> QED BY <2>1, <3>1, RangeOfAppend
    <2>3. \A i \in RangeOf(timers) : made'[i] = made[i]
      <3>1. \A i \in 1..Len(made) : made'[i] = made[i]
        BY <2>1 DEF TimersOK
      <3> QED BY <3>1, RangeType DEF TimersOK, Timers
    <2>4. made'[Len(made) + 1].last = NoTime
      BY <2>1 DEF TimersOK
    <2>5. pc = "timer" => made'[Head(tbatch)] = made[Head(tbatch)]
      BY <2>3, RangeOfTail DEF TimerOrder, ControlOK, TimersOK
    <2>6. pc' \in {"tick", "timer"} => currentTime' = clock'
      BY <2>1 DEF Rearmed
    <2>7. pc' = "timer" => made'[Head(tbatch')].last = clock'
      BY <2>1, <2>5 DEF Rearmed
    <2>8. ASSUME NEW i \in RangeOf(timers'), made'[i].last # NoTime
          PROVE  \/ pc' = "timer" /\ i = Head(tbatch')
                 \/ made'[i].interval # -1 /\ made'[i].trigger >= made'[i].last + made'[i].interval
      <3>1. i \in RangeOf(timers) /\ made'[i] = made[i]
        BY <2>2, <2>3, <2>4, <2>8
      <3> QED BY <2>1, <2>8, <3>1 DEF Rearmed
    <2> QED BY <2>6, <2>7, <2>8 DEF Rearmed
  <1>3. CASE BeginTimers
    BY <1>3 DEF BeginTimers, TimersTurn, Rearmed
  <1>4. CASE FireTimer
    <2>1. /\ pc = "tick" /\ pc' = "timer" /\ UNCHANGED <<timers, tbatch, clock, currentTime>>
          /\ made' = [made EXCEPT ![Head(tbatch)].last = clock]
          /\ Head(tbatch) \in 1..Len(made)
      BY <1>4, HeadTailProperties DEF FireTimer, TimersOK, Timers
    <2>2. made'[Head(tbatch)].last = clock
      <3>1. made[Head(tbatch)] \in ScriptTimer /\ DOMAIN made = 1..Len(made)
        BY <2>1, ElementOfSeq, LenProperties DEF TimersOK
      <3> QED BY <2>1, <3>1 DEF ScriptTimer
    <2>3. \A i \in 1..Len(made) : i # Head(tbatch) => made'[i] = made[i]
      BY <2>1 DEF TimersOK
    <2>4. RangeOf(timers) \subseteq 1..Len(made)
      BY RangeType DEF TimersOK, Timers
    <2> QED BY <2>1, <2>2, <2>3, <2>4 DEF Rearmed
  <1>5. CASE SkipTimer
    BY <1>5 DEF SkipTimer, Rearmed
  <1>6. CASE TimerReturns \/ TimerStops
    <2>1. /\ pc = "timer" /\ pc' = "tick" /\ UNCHANGED <<clock, currentTime>>
          /\ tbatch # <<>> /\ Head(tbatch) \in RangeOf(timers) /\ Increasing(timers)
          /\ currentTime = clock
      BY <1>6, RangeOfTail DEF TimerReturns, TimerStops, TimerOrder, Rearmed, ControlOK
    <2>2. CASE made' = made /\ timers' = Remove(timers, Head(tbatch))
      <3>1. RangeOf(timers') = RangeOf(timers) \ {Head(tbatch)}
        BY <2>1, <2>2, RemoveProperties
      <3> QED BY <2>1, <2>2, <3>1 DEF Rearmed
    <2>3. CASE /\ timers' = timers /\ made[Head(tbatch)].interval # -1
               /\ made' = [made EXCEPT ![Head(tbatch)].trigger
                                 = currentTime + made[Head(tbatch)].interval]
      <3> DEFINE h == Head(tbatch)
      <3>1. h \in 1..Len(made) /\ DOMAIN made = 1..Len(made) /\ made[h] \in ScriptTimer
        BY <2>1, RangeType, LenProperties, ElementOfSeq DEF TimersOK, Timers
      <3>2. \A i \in 1..Len(made) : i # h => made'[i] = made[i]
        BY <2>3, <3>1
      <3>3. /\ made'[h].trigger = currentTime + made[h].interval
            /\ made'[h].interval = made[h].interval /\ made'[h].last = made[h].last
        BY <2>3, <3>1 DEF ScriptTimer
      <3>4. RangeOf(timers) \subseteq 1..Len(made)
        BY RangeType DEF TimersOK, Timers
      <3>5. made[h].last # NoTime =>
               made'[h].interval # -1 /\ made'[h].trigger >= made'[h].last + made'[h].interval
        <4> SUFFICES ASSUME made[h].last # NoTime
                     PROVE  made'[h].interval # -1
                            /\ made'[h].trigger >= made'[h].last + made'[h].interval
          OBVIOUS
        <4>1. made[h].interval \in Int /\ made[h].last = clock
          BY <2>1, <3>1 DEF ScriptTimer, Rearmed
        <4> QED BY <2>1, <2>3, <3>3, <4>1 DEF TimersOK
      <3> QED BY <2>1, <2>3, <3>2, <3>3, <3>4, <3>5 DEF Rearmed
    <2> QED BY <1>6, <2>2, <2>3 DEF TimerReturns, TimerStops
  <1>7. CASE TimersDone
    BY <1>7 DEF TimersDone, EndPass, tvars, Rearmed
  <1>8. CASE Advance
    BY <1>8 DEF Advance, Rearmed
  <1>9. ASSUME NEW t \in Types, OnNotifyInternal(t) \/ HandleNotify(t) PROVE Rearmed'
    BY <1>9, <1>1 DEF OnNotifyInternal, HandleNotify, tvars
  <1>10. CASE SubscribeNotified \/ Notifications
    BY <1>10, <1>1 DEF SubscribeNotified, Notifications, BeginNotifications, NotificationsTurn,
       NextNotification, StartHandlers, NotifiedReturns, NotifiedThrows, AbortPass, EndPass,
       NextHandler, NoMoreHandlers, CollectionModified, HandlerEnds, NotificationsDone, tvars
  <1>11. CASE UNCHANGED vars
    BY <1>11, <1>1 DEF vars, tvars
  <1> QED
    BY <1>2, <1>3, <1>4, <1>5, <1>6, <1>7, <1>8, <1>9, <1>10, <1>11
    DEF Next, Script, Timing, OnInterval, AfterDelay

LEMMA RearmedInit == Init => Rearmed
  BY EmptyRange DEF Init, Rearmed

-------------------------------------------------------------------------------
(* Notifications.                                                             *)

LEMMA QueuesAreNat ==
  ASSUME NotificationsOK
  PROVE  /\ batch \in Seq(Nat) /\ pending \in Seq(Nat)
         /\ Len(queued) \in Nat /\ 1..Len(queued) \subseteq Nat
         /\ RangeOf(batch) \subseteq 1..Len(queued)
         /\ RangeOf(pending) \subseteq 1..Len(queued)
         /\ \A q \in seen : q[1] \in 1..Len(queued)
  <1>1. Len(queued) \in Nat
    BY LenProperties DEF NotificationsOK
  <1>2. 1..Len(queued) \subseteq Nat
    BY <1>1
  <1>3. batch \in Seq(Nat) /\ pending \in Seq(Nat)
    BY <1>2, SeqMonotonic DEF NotificationsOK
  <1> QED BY <1>1, <1>2, <1>3, RangeType DEF NotificationsOK

\* The head of the snapshot is dealt with.
LEMMA QueueOrderTail ==
  ASSUME NotificationsOK, QueueOrder, batch # <<>>, batch' = Tail(batch),
         UNCHANGED <<pending, seen>>
  PROVE  QueueOrder'
  <1>1. /\ RangeOf(batch) = {Current} \cup RangeOf(batch')
        /\ Increasing(batch') /\ \A e \in RangeOf(batch') : Current < e
    BY QueuesAreNat, RangeOfTail, IncreasingTail DEF QueueOrder, Current
  <1>2. batch' # <<>> => Current' \in RangeOf(batch')
    BY QueuesAreNat, HeadTailProperties, RangeOfTail DEF Current
  <1>3. Current \in Nat /\ RangeOf(batch') \subseteq Nat /\ \A q \in seen : q[1] \in Nat
    BY <1>1, QueuesAreNat
  <1>4. batch' # <<>> => \A q \in seen : q[1] < Current'
    BY <1>1, <1>2, <1>3 DEF QueueOrder
  <1> QED BY <1>1, <1>4 DEF QueueOrder

\* Nothing QueueOrder speaks of changes.
LEMMA QueueOrderSame ==
  ASSUME QueueOrder, UNCHANGED <<batch, pending, seen, pos>>,
         pc \in {"enum", "handler"} => pc' \in {"enum", "handler"}
  PROVE  QueueOrder'
  BY DEF QueueOrder, Current

LEMMA QueueOrderStart ==
  ASSUME NotificationsOK, QueueOrder, batch # <<>>, StartHandlers,
         UNCHANGED <<pending, seen>>, pc \notin {"enum", "handler"}
  PROVE  QueueOrder'
  <1>1. CASE handlers[TypeOf(Current)] > 0
    BY <1>1 DEF StartHandlers, QueueOrder, Current
  <1>2. CASE ~(handlers[TypeOf(Current)] > 0)
    BY <1>2, QueueOrderTail DEF StartHandlers
  <1> QED BY <1>1, <1>2

LEMMA QueueOrderStep ==
  ASSUME TypeOK, QueueOrder, [Next]_vars
  PROVE  QueueOrder'
  <1> USE DEF TypeOK
  <1>1. ASSUME NEW t \in Types, OnNotifyInternal(t) PROVE QueueOrder'
    BY <1>1, QueueOrderSame DEF OnNotifyInternal
  <1>2. CASE SubscribeNotified
    BY <1>2, QueueOrderSame DEF SubscribeNotified
  <1>3. ASSUME NEW t \in Types, HandleNotify(t) PROVE QueueOrder'
    <2>1. /\ pending' = Append(pending, Len(queued) + 1)
          /\ UNCHANGED <<batch, seen, pos, pc>>
      BY <1>3 DEF HandleNotify
    <2>2. RangeOf(pending') = RangeOf(pending) \cup {Len(queued) + 1}
      BY <2>1, QueuesAreNat, RangeOfAppend
    <2>3. /\ \A n \in RangeOf(pending) : n < Len(queued) + 1
          /\ \A n \in RangeOf(batch) : n < Len(queued) + 1
          /\ \A q \in seen : q[1] < Len(queued) + 1
      BY QueuesAreNat
    <2>4. Increasing(pending')
      BY <2>1, <2>3, QueuesAreNat, IncreasingAppend DEF QueueOrder
    <2> QED BY <2>1, <2>2, <2>3, <2>4 DEF QueueOrder, Current
  <1>4. CASE BeginNotifications
    <2>1. batch' = pending /\ pending' = <<>> /\ seen' = seen
      BY <1>4 DEF BeginNotifications
    <2>2. pending # <<>> => Head(pending) \in RangeOf(pending)
      BY QueuesAreNat, RangeOfTail
    <2> QED BY <2>1, <2>2, EmptyRange DEF QueueOrder, Current
  <1>5. CASE NextNotification
    <2>1. CASE listened
      BY <1>5, <2>1, QueueOrderSame DEF NextNotification
    <2>2. CASE ~listened
      BY <1>5, <2>2, QueueOrderStart DEF NextNotification
    <2> QED BY <2>1, <2>2
  <1>6. CASE NotifiedReturns
    BY <1>6, QueueOrderStart DEF NotifiedReturns, ControlOK
  <1>7. CASE NotifiedThrows \/ CollectionModified
    <2>1. batch' = <<>> /\ UNCHANGED <<pending, seen>>
      BY <1>7 DEF NotifiedThrows, CollectionModified, AbortPass
    <2> QED BY <2>1, EmptyRange DEF QueueOrder
  <1>8. CASE NextHandler
    <2>1. /\ seen' = seen \cup {<<Current, pos + 1>>} /\ pos' = pos + 1 /\ pc' = "handler"
          /\ UNCHANGED <<batch, pending>> /\ pos \in Nat /\ batch # <<>>
      BY <1>8 DEF NextHandler, NotificationsOK, ControlOK
    <2>2. Current \in RangeOf(batch) /\ Current' = Current
      BY <2>1, QueuesAreNat, RangeOfTail DEF Current
    <2>3. \A q \in seen' : \A m \in RangeOf(pending') : q[1] < m
      BY <2>1, <2>2 DEF QueueOrder
    <2>4. ASSUME NEW q \in seen'
          PROVE  q[1] < Current \/ (q[1] = Current /\ q[2] <= pos')
      <3>1. CASE q \in seen
        <4>1. q[2] \in Nat
          BY <3>1 DEF NotificationsOK
        <4> QED BY <2>1, <3>1, <4>1 DEF QueueOrder
      <3>2. CASE q = <<Current, pos + 1>>
        BY <2>1, <3>2
      <3> QED BY <2>1, <3>1, <3>2
    <2> QED BY <2>1, <2>2, <2>3, <2>4 DEF QueueOrder
  <1>9. CASE NoMoreHandlers
    BY <1>9, QueueOrderTail DEF NoMoreHandlers, ControlOK
  <1>10. CASE HandlerEnds \/ NotificationsDone \/ Timing \/ Advance \/ UNCHANGED vars
    BY <1>10, QueueOrderSame
    DEF HandlerEnds, NotificationsDone, EndPass, Timing, BeginTimers, TimersTurn, FireTimer,
        SkipTimer, TimerReturns, TimerStops, TimersDone, Advance, vars, nvars
  <1>11. ASSUME NEW trigger, NEW interval, AddTimer(trigger, interval)
         PROVE  QueueOrder'
    BY <1>11, QueueOrderSame DEF AddTimer, nvars
  <1> QED
    BY <1>1, <1>2, <1>3, <1>4, <1>5, <1>6, <1>7, <1>8, <1>9, <1>10, <1>11
    DEF Next, Script, Notifications, OnInterval, AfterDelay

-------------------------------------------------------------------------------
(* What a handler misses.                                                     *)

LEMMA DeliveredStart ==
  ASSUME TypeOK, Coverage, Delivered, batch # <<>>, StartHandlers,
         UNCHANGED <<handlers, queued, pending, seen, lost>>
  PROVE  Coverage' /\ Delivered'
  <1> USE DEF TypeOK
  <1>1. CASE handlers[TypeOf(Current)] > 0
    <2>1. /\ pos' = 0 /\ version' = handlers[TypeOf(Current)] /\ pc' = "enum"
          /\ batch' = batch
      BY <1>1 DEF StartHandlers
    <2>2. queued[Current].had <= version'
      BY <2>1, CurrentType DEF Coverage, TypeOf
    <2>3. Coverage'
      BY <2>1, <2>2 DEF Coverage, Current
    <2> QED BY <2>1, <2>3 DEF Delivered
  <1>2. CASE ~(handlers[TypeOf(Current)] > 0)
    <2>1. batch' = Tail(batch) /\ pc' = "dispatch"
      BY <1>2 DEF StartHandlers
    <2>2. RangeOf(batch) = {Current} \cup RangeOf(batch')
      BY <2>1, QueuesAreNat, RangeOfTail DEF Current
    <2>3. 1..queued[Current].had = {}
      BY <1>2, CurrentType DEF Coverage, TypeOf
    <2>4. Delivered'
      BY <2>1, <2>2, <2>3 DEF Delivered
    <2> QED BY <2>1, <2>4 DEF Coverage
  <1> QED BY <1>1, <1>2

LEMMA DeliveredSame ==
  ASSUME Coverage, Delivered,
         UNCHANGED <<handlers, queued, pending, batch, pos, version, seen, lost>>,
         pc' \in {"enum", "handler"} => pc \in {"enum", "handler"},
         pc' \in {"idle", "tick", "timer"} => pc \in {"idle", "tick", "timer"} \/ batch = <<>>
  PROVE  Coverage' /\ Delivered'
  BY DEF Coverage, Delivered, Current

LEMMA DeliveredStep ==
  ASSUME TypeOK, Coverage, Delivered, [Next]_vars
  PROVE  Coverage' /\ Delivered'
  <1> USE DEF TypeOK
  <1>1. ASSUME NEW t \in Types, OnNotifyInternal(t) PROVE Coverage' /\ Delivered'
    <2>1. /\ handlers' = [handlers EXCEPT ![t] = @ + 1]
          /\ UNCHANGED <<queued, pending, batch, pos, version, seen, lost, pc>>
      BY <1>1 DEF OnNotifyInternal
    <2>2. ASSUME NEW n \in 1..Len(queued) PROVE queued[n].had <= handlers'[queued[n].type]
      <3>1. queued[n].type \in Types /\ queued[n].had \in Nat
        <4>1. queued[n] \in Notification
          BY ElementOfSeq DEF NotificationsOK
        <4> QED BY <4>1 DEF Notification
      <3>2. handlers[queued[n].type] \in Nat /\ handlers'[queued[n].type] >= handlers[queued[n].type]
        BY <2>1, <3>1 DEF NotificationsOK
      <3>3. queued[n].had <= handlers[queued[n].type]
        BY DEF Coverage
      <3> QED BY <2>1, <3>1, <3>2, <3>3 DEF NotificationsOK
    <2> QED BY <2>1, <2>2 DEF Coverage, Delivered, Current
  <1>2. CASE SubscribeNotified
    BY <1>2, DeliveredSame DEF SubscribeNotified
  <1>3. ASSUME NEW t \in Types, HandleNotify(t) PROVE Coverage' /\ Delivered'
    <2>1. /\ queued' = Append(queued, [type |-> t, had |-> handlers[t]])
          /\ pending' = Append(pending, Len(queued) + 1)
          /\ UNCHANGED <<handlers, batch, pos, version, seen, lost, pc>>
      BY <1>3 DEF HandleNotify
    <2>2. RangeOf(pending') = RangeOf(pending) \cup {Len(queued) + 1}
      <3>1. pending \in Seq(Nat) /\ Len(queued) + 1 \in Nat
        BY QueuesAreNat
      <3> HIDE DEF TypeOK
      <3> QED BY <2>1, <3>1, RangeOfAppend
    <2>3. /\ Len(queued') = Len(queued) + 1 /\ Len(queued) \in Nat
          /\ \A n \in 1..Len(queued) : queued'[n] = queued[n]
          /\ queued'[Len(queued) + 1] = [type |-> t, had |-> handlers[t]]
      <3>1. [type |-> t, had |-> handlers[t]] \in Notification
        BY DEF NotificationsOK, Notification
      <3> QED BY <2>1, <3>1, AppendProperties, LenProperties DEF NotificationsOK
    <2>4. ASSUME NEW n \in 1..Len(queued')
          PROVE  n \in 1..Len(queued) \/ n = Len(queued) + 1
      BY <2>3
    <2>5. \A n \in 1..Len(queued') : queued'[n].had <= handlers'[queued'[n].type]
      <3>1. handlers[t] \in Nat
        BY DEF NotificationsOK
      <3>2. ASSUME NEW n \in 1..Len(queued) PROVE queued'[n].had <= handlers'[queued'[n].type]
        BY <2>1, <2>3 DEF Coverage
      <3>3. queued'[Len(queued) + 1].had <= handlers'[queued'[Len(queued) + 1].type]
        BY <2>1, <2>3, <3>1
      <3> QED BY <2>4, <3>2, <3>3
    <2>6. Delivered'
      <3> SUFFICES ASSUME NEW n \in 1..Len(queued'),
                          n \notin RangeOf(pending') \cup RangeOf(batch') \cup lost'
                   PROVE  \A h \in 1..queued'[n].had : <<n, h>> \in seen'
        BY DEF Delivered
      <3>1. n \in 1..Len(queued)
        BY <2>2, <2>4
      <3> QED BY <2>1, <2>2, <2>3, <3>1 DEF Delivered
    <2>7. pc \in {"enum", "handler"} => queued'[Current].had = queued[Current].had
      BY <2>3, CurrentType DEF ControlOK
    <2>8. Coverage'
      BY <2>1, <2>5, <2>7 DEF Coverage, Current
    <2> QED BY <2>6, <2>8
  <1>4. CASE BeginNotifications
    BY <1>4, EmptyRange DEF BeginNotifications, NotificationsTurn, Coverage, Delivered
  <1>5. CASE NextNotification
    <2>1. CASE listened
      BY <1>5, <2>1, DeliveredSame DEF NextNotification
    <2>2. CASE ~listened
      BY <1>5, <2>2, DeliveredStart DEF NextNotification
    <2> QED BY <2>1, <2>2
  <1>6. CASE NotifiedReturns
    BY <1>6, DeliveredStart DEF NotifiedReturns, ControlOK
  <1>7. CASE NotifiedThrows \/ CollectionModified
    <2>1. /\ batch' = <<>> /\ lost' = lost \cup RangeOf(batch) /\ pc' = "idle"
          /\ UNCHANGED <<handlers, queued, pending, seen>>
      BY <1>7 DEF NotifiedThrows, CollectionModified, AbortPass, EndPass
    <2> QED BY <2>1, EmptyRange DEF Coverage, Delivered
  <1>8. CASE NextHandler
    <2>1. /\ seen' = seen \cup {<<Current, pos + 1>>} /\ pos' = pos + 1 /\ pc = "enum"
          /\ pc' = "handler" /\ UNCHANGED <<handlers, queued, pending, batch, version, lost>>
          /\ pos \in Nat
      BY <1>8 DEF NextHandler, NotificationsOK
    <2>2. \A h \in 1..pos' : <<Current, h>> \in seen'
      BY <2>1 DEF Coverage
    <2>3. Coverage'
      BY <2>1, <2>2 DEF Coverage, Current
    <2> QED BY <2>1, <2>3 DEF Delivered
  <1>9. CASE NoMoreHandlers
    <2>1. /\ batch' = Tail(batch) /\ pc = "enum" /\ pc' = "dispatch" /\ pos = version /\ batch # <<>>
          /\ UNCHANGED <<handlers, queued, pending, seen, lost>>
      BY <1>9 DEF NoMoreHandlers, ControlOK
    <2>2. RangeOf(batch) = {Current} \cup RangeOf(batch')
      BY <2>1, QueuesAreNat, RangeOfTail DEF Current
    <2>3. \A h \in 1..queued[Current].had : <<Current, h>> \in seen
      <3>1. queued[Current].had \in Nat /\ pos \in Nat /\ queued[Current].had <= pos
        BY <2>1, CurrentType DEF Coverage, NotificationsOK
      <3> QED BY <2>1, <3>1 DEF Coverage
    <2> QED BY <2>1, <2>2, <2>3 DEF Coverage, Delivered
  <1>10. CASE HandlerEnds \/ NotificationsDone \/ Timing \/ Advance \/ UNCHANGED vars
    BY <1>10, DeliveredSame
    DEF HandlerEnds, NotificationsDone, EndPass, Timing, BeginTimers, TimersTurn, FireTimer,
        SkipTimer, TimerReturns, TimerStops, TimersDone, Advance, vars, nvars
  <1>11. ASSUME NEW trigger, NEW interval, AddTimer(trigger, interval)
         PROVE  Coverage' /\ Delivered'
    BY <1>11, DeliveredSame DEF AddTimer, nvars
  <1> QED
    BY <1>1, <1>2, <1>3, <1>4, <1>5, <1>6, <1>7, <1>8, <1>9, <1>10, <1>11
    DEF Next, Script, Notifications, OnInterval, AfterDelay

LEMMA BlameStart ==
  ASSUME StartHandlers, UNCHANGED <<handlers, queued>>
  PROVE  pc' \in {"enum", "handler"} => handlers'[TypeOf(Current)'] = version'
  BY DEF StartHandlers, TypeOf, Current

LEMMA BlameStep ==
  ASSUME TypeOK, Blame, LossNeedsDisturbance, [Next]_vars
  PROVE  Blame' /\ LossNeedsDisturbance'
  <1> USE DEF TypeOK, LossNeedsDisturbance
  <1>1. ASSUME NEW t \in Types, OnNotifyInternal(t) PROVE Blame' /\ LossNeedsDisturbance'
    <2>1. /\ handlers' = [handlers EXCEPT ![t] = @ + 1]
          /\ disturbed' = (disturbed \/ (pc = "handler" /\ t = TypeOf(Current)))
          /\ UNCHANGED <<queued, batch, version, lost, pc>> /\ pc # "enum"
      BY <1>1 DEF OnNotifyInternal, ScriptRuns
    <2>2. TypeOf(Current)' = TypeOf(Current)
      BY <2>1 DEF TypeOf, Current
    <2>3. ASSUME pc = "handler", t # TypeOf(Current)
          PROVE  handlers'[TypeOf(Current)] = handlers[TypeOf(Current)]
      BY <2>1, <2>3, CurrentType DEF ControlOK, NotificationsOK
    <2>4. Blame'
      BY <2>1, <2>2, <2>3, Zenon DEF Blame
    <2>5. LossNeedsDisturbance'
      BY <2>1, Zenon
    <2> QED BY <2>4, <2>5
  <1>2. CASE SubscribeNotified
    BY <1>2 DEF SubscribeNotified, Blame, TypeOf, Current
  <1>3. ASSUME NEW t \in Types, HandleNotify(t) PROVE Blame' /\ LossNeedsDisturbance'
    <2>1. /\ queued' = Append(queued, [type |-> t, had |-> handlers[t]])
          /\ UNCHANGED <<handlers, batch, version, lost, disturbed, pc>>
      BY <1>3 DEF HandleNotify
    <2>2. \A n \in 1..Len(queued) : queued'[n] = queued[n]
      BY <2>1, QueuesAreNat DEF NotificationsOK
    <2>3. pc \in {"enum", "handler"} => TypeOf(Current)' = TypeOf(Current)
      BY <2>1, <2>2, CurrentType DEF ControlOK, TypeOf, Current
    <2> QED BY <2>1, <2>3 DEF Blame
  <1>4. CASE NextNotification
    <2>1. CASE listened
      BY <1>4, <2>1 DEF NextNotification, Blame
    <2>2. CASE ~listened
      BY <1>4, <2>2, BlameStart DEF NextNotification, Blame
    <2> QED BY <2>1, <2>2
  <1>5. CASE NotifiedReturns
    BY <1>5, BlameStart DEF NotifiedReturns, Blame
  <1>6. CASE NotifiedThrows
    BY <1>6 DEF NotifiedThrows, AbortPass, EndPass, Blame
  <1>7. CASE CollectionModified
    <2>1. disturbed /\ disturbed' = disturbed /\ pc' = "idle"
      BY <1>7 DEF CollectionModified, AbortPass, EndPass, Blame
    <2> QED BY <2>1 DEF Blame
  <1>8. CASE NextHandler \/ HandlerEnds
    BY <1>8 DEF NextHandler, HandlerEnds, nvars, Blame, TypeOf, Current
  <1>9. CASE NoMoreHandlers \/ BeginNotifications \/ NotificationsDone
    BY <1>9 DEF NoMoreHandlers, BeginNotifications, NotificationsDone, EndPass, nvars, Blame
  <1>10. CASE Timing
    BY <1>10 DEF Timing, BeginTimers, FireTimer, SkipTimer, TimerReturns, TimerStops, TimersDone,
        EndPass, nvars, Blame
  <1>11. ASSUME NEW trigger, NEW interval, AddTimer(trigger, interval)
         PROVE  Blame' /\ LossNeedsDisturbance'
    BY <1>11 DEF AddTimer, nvars, Blame, TypeOf, Current
  <1>12. CASE Advance \/ UNCHANGED vars
    BY <1>12 DEF Advance, vars, nvars, Blame, TypeOf, Current
  <1> QED
    BY <1>1, <1>2, <1>3, <1>4, <1>5, <1>6, <1>7, <1>8, <1>9, <1>10, <1>11, <1>12
    DEF Next, Script, Notifications, OnInterval, AfterDelay

-------------------------------------------------------------------------------
LEMMA InitInv == Init => IInv
  <1> SUFFICES ASSUME Init PROVE IInv
    OBVIOUS
  <1>1. QueueOrder
    BY EmptyRange DEF Init, QueueOrder
  <1>2. Coverage /\ Delivered /\ Blame /\ LossNeedsDisturbance
    BY EmptySeq DEF Init, Coverage, Delivered, Blame, LossNeedsDisturbance
  <1> QED BY <1>1, <1>2, TypeInit, TimerOrderInit, RearmedInit DEF IInv

LEMMA InvStep == IInv /\ [Next]_vars => IInv'
  <1> SUFFICES ASSUME IInv, [Next]_vars PROVE IInv'
    OBVIOUS
  <1>1. TypeOK' /\ TimerOrder' /\ Rearmed'
    BY TypeStep, TimerOrderStep, RearmedStep DEF IInv
  <1>2. QueueOrder' /\ Coverage' /\ Delivered'
    BY QueueOrderStep, DeliveredStep DEF IInv
  <1>3. Blame' /\ LossNeedsDisturbance'
    BY BlameStep DEF IInv
  <1> QED BY <1>1, <1>2, <1>3 DEF IInv

THEOREM Invariance == Spec => []IInv
  BY InitInv, InvStep, PTL DEF Spec

\* The variables of a Notifiable keep their types (Notifiable.cs).
THEOREM TypeCorrect == Spec => []TypeOK
  BY Invariance, PTL DEF IInv

\* Every handler there was when a notification was queued has run by the time
\* the notification is through, unless its pass was aborted.
THEOREM NothingMissed == Spec => []Delivered
  BY Invariance, PTL DEF IInv

\* A pass is aborted only through what one of its own callbacks did.
THEOREM LossExplained == Spec => []LossNeedsDisturbance
  BY Invariance, PTL DEF IInv

\* Handlers hear notifications in order, and no notification twice.
THEOREM HeardInOrder == Spec => InOrder
  <1> DEFINE A == Hears => \A q \in seen : q[1] < Current \/ (q[1] = Current /\ q[2] < pos')
  <1>1. IInv /\ [Next]_vars => [A]_vars
    <2> SUFFICES ASSUME IInv, Next, Hears, NEW q \in seen
                 PROVE  q[1] < Current \/ (q[1] = Current /\ q[2] < pos')
      OBVIOUS
    <2>1. NextHandler
      BY DEF Hears, Next, Script, OnNotifyInternal, SubscribeNotified, HandleNotify, OnInterval,
         AfterDelay, AddTimer, Notifications, BeginNotifications, NextNotification,
         NotifiedReturns, NotifiedThrows, NoMoreHandlers, CollectionModified, HandlerEnds,
         NotificationsDone, AbortPass, EndPass, Timing, BeginTimers, TimersTurn, FireTimer,
         SkipTimer, TimerReturns, TimerStops, TimersDone, Advance
    <2>2. batch # <<>> /\ pos \in Nat /\ q[2] \in Nat /\ pos' = pos + 1
      BY <2>1 DEF NextHandler, IInv, TypeOK, ControlOK, NotificationsOK
    <2>3. q[1] < Current \/ (q[1] = Current /\ q[2] <= pos)
      BY <2>2 DEF IInv, QueueOrder
    <2> QED BY <2>2, <2>3
  <1> QED BY <1>1, Invariance, PTL DEF Spec, InOrder

-------------------------------------------------------------------------------
(* Timers.                                                                     *)

LEMMA OnlyFireTimerRuns ==
  ASSUME IInv, [Next]_vars, NEW i, Runs(i)
  PROVE  /\ FireTimer /\ Due(i) /\ i \in RangeOf(timers) /\ i \in 1..Len(made)
         /\ made[i] \in ScriptTimer /\ currentTime = clock /\ clock \in Nat
         /\ made[i].last # NoTime =>
               made[i].interval # -1 /\ made[i].trigger >= made[i].last + made[i].interval
  <1>1. FireTimer
    BY DEF Runs, Next, Script, OnNotifyInternal, SubscribeNotified, HandleNotify, OnInterval,
       AfterDelay, AddTimer, Notifications, BeginNotifications, NextNotification, StartHandlers,
       NotifiedReturns, NotifiedThrows, NextHandler, NoMoreHandlers, CollectionModified,
       HandlerEnds, NotificationsDone, AbortPass, EndPass, Timing, BeginTimers, SkipTimer,
       TimerReturns, TimerStops, TimersDone, Advance, vars
  <1>2. i = Head(tbatch) /\ Due(i) /\ tbatch # <<>> /\ pc = "tick"
    BY <1>1 DEF Runs, FireTimer
  <1>3. tbatch \in Seq(Timers) /\ timers \in Seq(Timers) /\ made \in Seq(ScriptTimer)
        /\ clock \in Nat
    BY DEF IInv, TypeOK, TimersOK
  <1>4. i \in RangeOf(timers)
    BY <1>2, <1>3, RangeOfTail DEF IInv, TimerOrder
  <1>5. i \in 1..Len(made)
    BY <1>3, <1>4, RangeType DEF Timers
  <1>6. made[i] \in ScriptTimer
    BY <1>3, <1>5, ElementOfSeq
  <1>7. /\ currentTime = clock
        /\ made[i].last # NoTime =>
               made[i].interval # -1 /\ made[i].trigger >= made[i].last + made[i].interval
    BY <1>2, <1>4 DEF IInv, Rearmed
  <1> QED BY <1>1, <1>2, <1>3, <1>4, <1>5, <1>6, <1>7

\* The function of an AfterDelay runs once at most: ProcessTimers takes its
\* timer off the list whether it returns or throws.
THEOREM DelayedOnce == Spec => OneShotOnce
  <1> DEFINE A == \A i \in Timers : Runs(i) /\ made[i].interval = -1 => made[i].last = NoTime
  <1>1. IInv /\ [Next]_vars => [A]_vars
    BY OnlyFireTimerRuns
  <1> QED BY <1>1, Invariance, PTL DEF Spec, OneShotOnce

\* ProcessTimers rearms from the time of the run, so two runs of an OnInterval
\* function are never closer than its interval.
THEOREM IntervalsKept == Spec => IntervalSpacing
  <1> DEFINE A == \A i \in Timers :
                    Runs(i) /\ made[i].last # NoTime => clock >= made[i].last + made[i].interval
  <1>1. IInv /\ [Next]_vars => [A]_vars
    <2> SUFFICES ASSUME IInv, [Next]_vars, NEW i \in Timers, Runs(i), made[i].last # NoTime
                 PROVE  clock >= made[i].last + made[i].interval
      OBVIOUS
    <2>1. /\ clock >= made[i].trigger /\ clock \in Nat /\ made[i] \in ScriptTimer
          /\ made[i].trigger >= made[i].last + made[i].interval
      BY OnlyFireTimerRuns DEF Due
    <2>2. made[i].trigger \in Int /\ made[i].last \in Int /\ made[i].interval \in Int
      BY <2>1 DEF ScriptTimer, NoTime
    <2> QED BY <2>1, <2>2
  <1> QED BY <1>1, Invariance, PTL DEF Spec, IntervalSpacing

\* What a timer pass has behind it is not due, or it has just run, or it was
\* added by a callback of the pass.
Passed ==
  pc \in {"tick", "timer"} =>
    \A i \in RangeOf(timers) \ RangeOf(tbatch) :
      Due(i) => made[i].last = clock \/ made[i].since = clock

LEMMA PassedAddTimer ==
  ASSUME TypeOK, Passed, NEW trigger, NEW interval,
         AddTimer(trigger, interval)
  PROVE  Passed'
  <1>1. /\ made' = Append(made, [trigger |-> trigger, interval |-> interval,
                                 since |-> clock, last |-> NoTime])
        /\ timers' = Append(timers, Len(made) + 1)
        /\ UNCHANGED <<tbatch, clock, currentTime, pc>>
    BY DEF AddTimer
  <1>2. /\ timers \in Seq(Nat) /\ Len(made) + 1 \in Nat /\ made \in Seq(ScriptTimer)
        /\ RangeOf(timers) \subseteq 1..Len(made)
    BY TimersAreNat, RangeType DEF TypeOK, TimersOK, Timers
  <1>3. RangeOf(timers') = RangeOf(timers) \cup {Len(made) + 1}
    <2>1. timers \in Seq(Nat) /\ Len(made) + 1 \in Nat
      BY <1>2
    <2> QED BY <1>1, <2>1, RangeOfAppend
  <1>4. \A i \in RangeOf(timers) : made'[i] = made[i]
    BY <1>1, <1>2
  <1>5. made'[Len(made) + 1].since = clock
    BY <1>1, <1>2
  <1>6. \A i \in RangeOf(timers') \ RangeOf(tbatch') :
          i = Len(made) + 1 \/ (i \in RangeOf(timers) \ RangeOf(tbatch) /\ made'[i] = made[i])
    BY <1>1, <1>3, <1>4
  <1> QED BY <1>1, <1>5, <1>6 DEF Passed, Due

LEMMA PassedTurn ==
  ASSUME IInv, Passed, SkipTimer \/ TimerReturns \/ TimerStops
  PROVE  Passed'
  <1> DEFINE h == Head(tbatch)
  <1>1. /\ tbatch # <<>> /\ tbatch' = Tail(tbatch) /\ UNCHANGED <<clock, currentTime>>
        /\ pc \in {"tick", "timer"}
    BY DEF SkipTimer, TimerReturns, TimerStops, IInv, TypeOK, ControlOK
  <1>2. /\ tbatch \in Seq(Timers) /\ timers \in Seq(Timers) /\ made \in Seq(ScriptTimer)
        /\ timers \in Seq(Nat)
    BY TimersAreNat DEF IInv, TypeOK, TimersOK
  <1>3. /\ RangeOf(tbatch) = {h} \cup RangeOf(tbatch')
        /\ h \in RangeOf(timers) /\ RangeOf(timers) \subseteq 1..Len(made)
    BY <1>1, <1>2, RangeOfTail, RangeType DEF IInv, TimerOrder, Timers
  <1>4. RangeOf(timers') \subseteq RangeOf(timers)
    <2>1. CASE timers' = Remove(timers, h)
      BY <1>2, <1>3, <2>1, RemoveProperties DEF IInv, TimerOrder
    <2> QED BY <2>1 DEF SkipTimer, TimerReturns, TimerStops
  <1>5. \A i \in 1..Len(made) : i # h => made'[i] = made[i]
    BY <1>2 DEF SkipTimer, TimerReturns, TimerStops
  <1>6. currentTime' >= made'[h].trigger => made'[h].last = clock'
    <2>1. CASE SkipTimer
      BY <1>1, <2>1 DEF SkipTimer, Due
    <2>2. CASE TimerReturns \/ TimerStops
      <3>1. made[h].last = clock
        BY <2>2 DEF TimerReturns, TimerStops, IInv, Rearmed
      <3>2. h \in DOMAIN made /\ made[h] \in ScriptTimer
        BY <1>2, <1>3, ElementOfSeq
      <3>3. made'[h].last = made[h].last
        BY <2>2, <3>2 DEF TimerReturns, TimerStops, ScriptTimer
      <3> QED BY <1>1, <3>1, <3>3
    <2> QED BY <2>1, <2>2
  <1>7. ASSUME NEW i \in RangeOf(timers') \ RangeOf(tbatch'), Due(i)'
        PROVE  made'[i].last = clock' \/ made'[i].since = clock'
    <2>1. CASE i = h
      BY <1>6, <1>7, <2>1 DEF Due
    <2>2. CASE i # h
      <3>1. i \in RangeOf(timers) \ RangeOf(tbatch) /\ made'[i] = made[i]
        BY <1>3, <1>4, <1>5, <2>2
      <3> QED BY <1>1, <1>7, <3>1 DEF Passed, Due
    <2> QED BY <2>1, <2>2
  <1> QED BY <1>7 DEF Passed

LEMMA PassedStep ==
  ASSUME IInv, Passed, [Next]_vars
  PROVE  Passed'
  <1>1. CASE /\ UNCHANGED <<timers, made, tbatch, clock, currentTime>>
             /\ pc' \in {"tick", "timer"} => pc \in {"tick", "timer"}
    BY <1>1 DEF Passed, Due
  <1>2. ASSUME NEW t \in Types, OnNotifyInternal(t) \/ HandleNotify(t) PROVE Passed'
    BY <1>2, <1>1 DEF OnNotifyInternal, HandleNotify, tvars
  <1>3. ASSUME NEW trigger, NEW interval, AddTimer(trigger, interval)
        PROVE  Passed'
    BY <1>3, PassedAddTimer DEF IInv
  <1>4. CASE SubscribeNotified \/ Notifications
    BY <1>4, <1>1 DEF SubscribeNotified, Notifications, BeginNotifications, NotificationsTurn,
       NextNotification, StartHandlers, NotifiedReturns, NotifiedThrows, AbortPass, EndPass,
       NextHandler, NoMoreHandlers, CollectionModified, HandlerEnds, NotificationsDone, tvars
  <1>5. CASE BeginTimers
    BY <1>5 DEF BeginTimers, Passed
  <1>6. CASE FireTimer
    <2>1. /\ pc = "tick" /\ UNCHANGED <<timers, tbatch, clock, currentTime>>
          /\ made' = [made EXCEPT ![Head(tbatch)].last = clock]
          /\ Head(tbatch) \in RangeOf(tbatch)
      BY <1>6, RangeOfTail DEF FireTimer, IInv, TypeOK, TimersOK
    <2>2. \A i \in RangeOf(timers) \ RangeOf(tbatch) : made'[i] = made[i]
      BY <2>1, RangeType DEF IInv, TypeOK, TimersOK, Timers
    <2> QED BY <2>1, <2>2 DEF Passed, Due
  <1>7. CASE SkipTimer \/ TimerReturns \/ TimerStops
    BY <1>7, PassedTurn
  <1>8. CASE TimersDone \/ Advance
    BY <1>8 DEF TimersDone, Advance, EndPass, Passed
  <1>9. CASE UNCHANGED vars
    BY <1>9, <1>1 DEF vars, tvars
  <1> QED
    BY <1>2, <1>3, <1>4, <1>5, <1>6, <1>7, <1>8, <1>9
    DEF Next, Script, Timing, OnInterval, AfterDelay

\* ProcessTimers overlooks no timer, although its callbacks change the list.
THEOREM NoneOverlooked == Spec => []NoDueTimerLeft
  <1>1. Init => Passed
    BY DEF Init, Passed
  <1>2. Passed => NoDueTimerLeft
    <2> SUFFICES ASSUME Passed, pc = "tick", tbatch = <<>>
                 PROVE  \A i \in RangeOf(timers) :
                          Due(i) => made[i].last = clock \/ made[i].since = clock
      BY DEF NoDueTimerLeft
    <2>1. RangeOf(tbatch) = {}
      BY EmptyRange
    <2> QED BY <2>1 DEF Passed
  <1> QED BY <1>1, <1>2, PassedStep, Invariance, PTL DEF Spec
===============================================================================
