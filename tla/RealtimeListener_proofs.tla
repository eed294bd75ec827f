----------------------- MODULE RealtimeListener_proofs -----------------------
(***************************************************************************)
(* Theorems about the listener, for every inventory, both windows, any       *)
(* number of events at a time and any interleaving of their handlers.        *)
(***************************************************************************)
EXTENDS RealtimeListener, TLAPS

(***************************************************************************)
(* The inductive invariant: what the two caches say of the alerts.          *)
(***************************************************************************)
\* A recent alert has its entry in both caches, at least as fresh.
CachesKnow ==
    /\ \A e \in Events : since[e] < RateLimit =>
           lastAlert[e[1]] # Absent /\ lastAlert[e[1]] <= since[e]
    /\ \A e \in Events : since[e] < DedupWindow =>
           dedup[e] # Absent /\ dedup[e] <= since[e]

\* An entry of its window was made by an alert, or, that of an event, while the
\* rate limit still held for its device.
CachesTrue ==
    /\ \A n \in Names : Recent(lastAlert[n], RateLimit) =>
           \E c \in Contents : since[<<n, c>>] <= lastAlert[n]
    /\ \A e \in Events : Recent(dedup[e], DedupWindow) =>
           \E c \in Contents : \/ since[<<e[1], c>>] <= dedup[e]
                               \/ since[<<e[1], c>>] < dedup[e] + RateLimit

\* The last hash is that of what the device has, unless the device changed since the
\* last good poll or the hash is that of an answer cut short.
PollsTrue == \A d \in Devices : Drifted(d, config[d]) => changed[d] \/ seen[d] \in Cuts

RInv == ListenerTypeOK /\ CachesKnow /\ CachesTrue

-----------------------------------------------------------------------------
LEMMA SomeEvent == NoEvent \in Events
<1>1. PICK n \in Names, c \in Contents : TRUE
  BY AlertAssumption DEF AlertAssumption
<1>2. <<n, c>> \in Events
  BY <1>1 DEF Events
<1>3. QED
  BY <1>2 DEF NoEvent

LEMMA EventOf == \A e \in Events : e[1] \in Names /\ e[2] \in Contents /\ e = <<e[1], e[2]>>
BY DEF Events

LEMMA EventsFrom == \A n \in Names, c \in Contents : <<n, c>> \in Events /\ <<n, c>>[1] = n
BY DEF Events

\* What a cache f of window W becomes when k is recorded, and with a tick.
RecordedWell(f, g, k, W) ==
    /\ g[k] = IF W > 0 THEN 0 ELSE Absent
    /\ \A x \in DOMAIN f : x # k =>
           /\ g[x] # Absent => g[x] = f[x]
           /\ f[x] # Absent /\ f[x] < 2 * W => g[x] = f[x]

OlderWell(f, g, W) ==
    \A x \in DOMAIN f :
        /\ f[x] = Absent <=> g[x] = Absent
        /\ f[x] # Absent => g[x] <= f[x] + 1
        /\ f[x] # Absent /\ f[x] < 2 * W => g[x] = f[x] + 1
        /\ f[x] # Absent /\ f[x] >= 2 * W => g[x] = f[x]

Ages(W) == {Absent} \cup 0..(2 * W)

LEMMA CacheTyped ==
    ASSUME NEW S, NEW W \in Nat, NEW f \in [S -> Ages(W)]
    PROVE  /\ \A k \in S : /\ Recorded(f, k, W) \in [S -> Ages(W)]
                           /\ RecordedWell(f, Recorded(f, k, W), k, W)
           /\ Older(f, W) \in [S -> Ages(W)]
           /\ OlderWell(f, Older(f, W), W)
<1>1. ASSUME NEW k \in S
      PROVE  /\ Recorded(f, k, W) \in [S -> Ages(W)]
             /\ RecordedWell(f, Recorded(f, k, W), k, W)
  BY DEF Recorded, RecordedWell, Ages, Absent
<1>2. /\ Older(f, W) \in [S -> Ages(W)]
      /\ OlderWell(f, Older(f, W), W)
  BY DEF Older, OlderWell, Ages, Absent
<1>3. QED
  BY <1>1, <1>2

LEMMA Caches ==
    ASSUME ListenerTypeOK
    PROVE  /\ \A e \in Events :
                  /\ Recorded(dedup, e, DedupWindow) \in [Events -> Ages(DedupWindow)]
                  /\ RecordedWell(dedup, Recorded(dedup, e, DedupWindow), e, DedupWindow)
           /\ \A n \in Names :
                  /\ Recorded(lastAlert, n, RateLimit) \in [Names -> Ages(RateLimit)]
                  /\ RecordedWell(lastAlert, Recorded(lastAlert, n, RateLimit), n, RateLimit)
           /\ Older(dedup, DedupWindow) \in [Events -> Ages(DedupWindow)]
           /\ OlderWell(dedup, Older(dedup, DedupWindow), DedupWindow)
           /\ Older(lastAlert, RateLimit) \in [Names -> Ages(RateLimit)]
           /\ OlderWell(lastAlert, Older(lastAlert, RateLimit), RateLimit)
<1>1. dedup \in [Events -> Ages(DedupWindow)] /\ lastAlert \in [Names -> Ages(RateLimit)]
  BY DEF ListenerTypeOK, Ages
<1>2. DedupWindow \in Nat /\ RateLimit \in Nat
  BY AlertAssumption DEF AlertAssumption
<1>3. QED
  BY <1>1, <1>2, CacheTyped

-----------------------------------------------------------------------------
(* Type correctness.                                                        *)

LEMMA TypeInit == Init => ListenerTypeOK
BY SomeEvent, AlertAssumption, ListenerAssumption
   DEF AlertAssumption, ListenerAssumption, Init, AlertInit, ListenerTypeOK, NoAlerts, NoEvents, Unheard, Horizon, Unpolled, Absent

LEMMA TypeNext == ListenerTypeOK /\ [Next]_vars => ListenerTypeOK'
<1> SUFFICES ASSUME ListenerTypeOK, [Next]_vars PROVE ListenerTypeOK'
  OBVIOUS
<1> USE DEF ListenerTypeOK
<1>1. ASSUME NEW h \in Handlers, HandlerStep(h) PROVE ListenerTypeOK'
  <2>1. CASE Suppress(h)
                /\ stage[h] \in {"queued", "collecting"}
                /\ UNCHANGED <<mode, options, config, pollVars>>
    <3>1. dedup' \in [Events -> {Absent} \cup 0..(2 * DedupWindow)]
      BY <2>1, Caches
         DEF Ages, Suppress, DropDuplicate, DropLimited, cacheVars
    <3>2. QED
      BY <2>1, <3>1, SomeEvent
         DEF Suppress, DropDuplicate, DropLimited, EndHandler, cacheVars, deliveryVars, pollVars
  <2>2. CASE Alert(h)
                /\ stage[h] \in {"queued", "collecting"}
                /\ UNCHANGED <<mode, options, config, pollVars>>
    <3>1. /\ dedup' \in [Events -> {Absent} \cup 0..(2 * DedupWindow)]
          /\ lastAlert' \in [Names -> {Absent} \cup 0..(2 * RateLimit)]
          /\ since' \in [Events -> 0..Horizon]
      BY <2>2, Caches, AlertAssumption, EventOf
         DEF AlertAssumption, Ages, Alert, Raise, Horizon
    <3>2. posts' \in [Handlers -> 0..Retries] /\ mail' \in [Handlers -> BOOLEAN]
      BY <2>2, AlertAssumption, ListenerAssumption
         DEF AlertAssumption, ListenerAssumption, Alert, BeginDelivery
    <3>3. QED
      BY <2>2, <3>1, <3>2 DEF Alert, BeginDelivery, pollVars
  <2>3. CASE Begin(h)
    <3>1. CASE Enriched(h)
      BY <2>3, <3>1 DEF Begin, alertVars, pollVars
    <3>2. CASE ~Enriched(h)
      BY <2>3, <3>2, <2>1, <2>2 DEF Begin, Send
    <3>3. QED
      BY <3>1, <3>2
  <2>4. CASE Collected(h)
    BY <2>4, <2>1, <2>2 DEF Collected, Send
  <2>5. CASE CollectRaises(h)
    BY <2>5, SomeEvent DEF CollectRaises, EndHandler, alertVars, pollVars
  <2>6. CASE Delivering(h)
    <3> USE DEF Delivering, cacheVars, handlerVars, pollVars
    <3>1. CASE TakeClient(h)
      BY <2>6, <3>1 DEF TakeClient
    <3>2. CASE PostAccepted(h) \/ PostFails(h)
      <4>1. posts' \in [Handlers -> 0..Retries]
        BY <3>2, AlertAssumption DEF AlertAssumption, PostAccepted, PostFails
      <4>2. QED
        BY <2>6, <3>2, <4>1 DEF PostAccepted, PostFails
    <3>3. CASE MailEnds(h)
      BY <2>6, <3>3 DEF MailEnds
    <3>4. QED
      BY <2>6, <3>1, <3>2, <3>3 DEF Deliver
  <2>7. CASE AlertDone(h)
    BY <2>7, SomeEvent
       DEF AlertDone, EndDelivery, Delivered, EndHandler, cacheVars, pollVars
  <2>8. QED
    BY <1>1, <2>3, <2>4, <2>5, <2>6, <2>7 DEF HandlerStep
<1>2. ASSUME NEW e \in Events, Spawn(e)
      PROVE  /\ stage' \in [Handlers -> {"idle", "queued", "collecting", "delivering"}]
             /\ event' \in [Handlers -> Events]
             /\ \A h \in Handlers : stage'[h] # "delivering" => stage[h] # "delivering"
  BY <1>2 DEF Spawn
<1>3. ASSUME NEW d \in Devices, PollAnswers(d) \/ PollCut(d) \/ PollFails(d) PROVE ListenerTypeOK'
  <2>1. <<d, "poll">> \in Events
    BY ListenerAssumption DEF ListenerAssumption, Events
  <2>2. /\ stage' \in [Handlers -> {"idle", "queued", "collecting", "delivering"}]
        /\ event' \in [Handlers -> Events]
        /\ \A h \in Handlers : stage'[h] # "delivering" => stage[h] # "delivering"
    BY <1>2, <1>3, <2>1 DEF PollAnswers, PollCut, Hashed, PollFails, handlerVars
  <2>3. turn' \in 0..N /\ timer' \in 0..PollInterval
    BY <1>3, ListenerAssumption
       DEF ListenerAssumption, PollAnswers, PollCut, Hashed, PollFails, NextTurn, Devices
  <2>4. /\ seen' \in [Devices -> Configs \cup Cuts \cup {"none"}]
        /\ reported' \in [Devices -> Configs \cup {"none"}]
        /\ changed' \in [Devices -> BOOLEAN]
    <3>1. CASE PollFails(d)
      BY <3>1 DEF PollFails
    <3>2. CASE PollAnswers(d)
      <4>1. config[d] \in Configs /\ reported[d] \in Configs \cup {"none"}
        OBVIOUS
      <4>2. seen' = [seen EXCEPT ![d] = config[d]] /\ changed' = [changed EXCEPT ![d] = FALSE]
        BY <3>2 DEF PollAnswers, Hashed
      <4>3. \E c \in Configs \cup {"none"} : reported' = [reported EXCEPT ![d] = c]
        BY <3>2, <4>1 DEF PollAnswers
      <4>4. QED
        BY <4>1, <4>2, <4>3
    <3>3. CASE PollCut(d)
      BY <3>3 DEF PollCut, Hashed
    <3>4. QED
      BY <1>3, <3>1, <3>2, <3>3
  <2>5. UNCHANGED <<alertVars, mode, options, config>>
    BY <1>3 DEF PollAnswers, PollCut, Hashed, PollFails
  <2>6. QED
    BY <2>2, <2>3, <2>4, <2>5 DEF alertVars
<1>4. ASSUME NEW e \in Events, Message(e) PROVE ListenerTypeOK'
  BY <1>2, <1>4 DEF Message, alertVars, pollVars
<1>5. CASE Tick
  <2>1. /\ dedup' \in [Events -> {Absent} \cup 0..(2 * DedupWindow)]
        /\ lastAlert' \in [Names -> {Absent} \cup 0..(2 * RateLimit)]
        /\ since' \in [Events -> 0..Horizon]
    BY <1>5, Caches, AlertAssumption DEF AlertAssumption, Ages, Tick, AlertTick, Horizon
  <2>2. QED
    BY <1>5, <2>1, ListenerAssumption
       DEF ListenerAssumption, Tick, AlertTick, deliveryVars, handlerVars
<1>6. CASE Start \/ Bind \/ StopBegins
  BY <1>6 DEF Start, Bind, StopBegins, alertVars, handlerVars, pollVars
<1>7. CASE Exit
  BY <1>7, SomeEvent, AlertAssumption, ListenerAssumption
     DEF AlertAssumption, ListenerAssumption, Exit, AlertGone, NoAlerts, NoEvents, Unheard,
         Horizon, Unpolled, Absent
<1>8. CASE StopEnds
  BY <1>8, ListenerAssumption DEF ListenerAssumption, StopEnds, CloseClient, cacheVars, handlerVars
<1>9. ASSUME NEW d \in Devices, Change(d) PROVE ListenerTypeOK'
  BY <1>9 DEF Change, alertVars, handlerVars
<1>10. CASE PollWakes
  BY <1>10, ListenerAssumption DEF ListenerAssumption, PollWakes, alertVars, handlerVars
<1>11. CASE UNCHANGED vars
  BY <1>11 DEF vars, alertVars, handlerVars, pollVars
<1>12. QED
  BY <1>1, <1>3, <1>4, <1>5, <1>6, <1>7, <1>8, <1>9, <1>10, <1>11 DEF Next, Poll

\* The listener keeps the types of its state; a sender that has something left to
\* deliver belongs to a handler that waits for it.
THEOREM TypeCorrect == Spec => []ListenerTypeOK
BY TypeInit, TypeNext, PTL DEF Spec

-----------------------------------------------------------------------------
(* The caches and the alerts.                                               *)

\* What a step does to them: nothing, or one of four things.
LEMMA CacheSteps ==
    ASSUME ListenerTypeOK, [Next]_vars
    PROVE  \/ UNCHANGED cacheVars
           \/ AlertGone
           \/ AlertTick
           \/ \E e \in Events : DropLimited(e) \/ Raise(e)
<1>1. ASSUME NEW h \in Handlers, HandlerStep(h)
      PROVE  UNCHANGED cacheVars \/ \E e \in Events : DropLimited(e) \/ Raise(e)
  <2>1. event[h] \in Events
    BY DEF ListenerTypeOK
  <2>2. ASSUME Send(h) PROVE UNCHANGED cacheVars \/ DropLimited(event[h]) \/ Raise(event[h])
    BY <2>2 DEF Send, Suppress, Alert, DropDuplicate
  <2>3. CASE Begin(h) \/ Collected(h)
    BY <2>1, <2>2, <2>3 DEF Begin, Collected, alertVars, cacheVars
  <2>4. CASE CollectRaises(h) \/ Delivering(h) \/ AlertDone(h)
    BY <2>4 DEF CollectRaises, Delivering, Deliver, TakeClient, PostAccepted, PostFails, MailEnds,
                AlertDone, EndDelivery, alertVars, cacheVars
  <2>5. QED
    BY <1>1, <2>3, <2>4 DEF HandlerStep
<1>2. CASE Start \/ Bind \/ StopBegins \/ StopEnds \/ Poll
           \/ (\E e \in Events : Message(e)) \/ (\E d \in Devices : Change(d))
  BY <1>2 DEF Start, Bind, StopBegins, StopEnds, CloseClient, Poll, PollWakes, PollAnswers, PollCut, Hashed,
              PollFails, Message, Change, alertVars, cacheVars
<1>3. QED
  BY <1>1, <1>2 DEF Next, Exit, Tick, vars, alertVars, cacheVars

LEMMA CachesInit == ListenerTypeOK /\ AlertInit => CachesKnow /\ CachesTrue
BY AlertAssumption
   DEF AlertAssumption, AlertInit, ListenerTypeOK, CachesKnow, CachesTrue, Recent, NoAlerts, NoEvents,
       Unheard, Horizon, Absent

LEMMA CachesNext ==
    ASSUME RInv, [Next]_vars
    PROVE  (CachesKnow /\ CachesTrue)'
<1> USE DEF RInv
<1> USE AlertAssumption DEF AlertAssumption
<1>1. /\ dedup \in [Events -> Ages(DedupWindow)]
      /\ lastAlert \in [Names -> Ages(RateLimit)]
      /\ since \in [Events -> 0..Horizon]
  BY DEF ListenerTypeOK, Ages
<1>2. CASE UNCHANGED cacheVars
  BY <1>2 DEF cacheVars, CachesKnow, CachesTrue
<1>3. CASE AlertGone
  BY <1>3 DEF AlertGone, CachesKnow, CachesTrue, Recent, NoAlerts, NoEvents, Unheard, Horizon, Absent
<1>4. CASE AlertTick
  <2>1. /\ dedup' = Older(dedup, DedupWindow) /\ OlderWell(dedup, dedup', DedupWindow)
        /\ lastAlert' = Older(lastAlert, RateLimit) /\ OlderWell(lastAlert, lastAlert', RateLimit)
        /\ \A e \in Events : /\ since'[e] \in Nat /\ since'[e] <= since[e] + 1
                             /\ since[e] < Horizon => since'[e] = since[e] + 1
                             /\ since[e] = Horizon => since'[e] = Horizon
    BY <1>1, <1>4, Caches DEF AlertTick, Horizon
  <2>2. CachesKnow'
    <3>1. ASSUME NEW e \in Events, since'[e] < RateLimit
          PROVE  lastAlert'[e[1]] # Absent /\ lastAlert'[e[1]] <= since'[e]
      <4> e[1] \in Names
        BY EventOf
      <4>1. since[e] \in Nat /\ since'[e] = since[e] + 1
        BY <1>1, <2>1, <3>1 DEF Horizon
      <4>2. lastAlert[e[1]] # Absent /\ lastAlert[e[1]] <= since[e] /\ lastAlert[e[1]] \in Nat
        BY <1>1, <3>1, <4>1 DEF CachesKnow, Ages
      <4>3. lastAlert'[e[1]] # Absent /\ lastAlert'[e[1]] <= lastAlert[e[1]] + 1
        BY <1>1, <2>1, <4>1, <4>2 DEF OlderWell
      <4>4. lastAlert' \in [Names -> Ages(RateLimit)]
        BY <2>1, Caches
      <4>5. QED
        BY <4>1, <4>2, <4>3, <4>4 DEF Ages, Absent
    <3>2. ASSUME NEW e \in Events, since'[e] < DedupWindow
          PROVE  dedup'[e] # Absent /\ dedup'[e] <= since'[e]
      <4>1. since[e] \in Nat /\ since'[e] = since[e] + 1
        BY <1>1, <2>1, <3>2 DEF Horizon
      <4>2. dedup[e] # Absent /\ dedup[e] <= since[e] /\ dedup[e] \in Nat
        BY <1>1, <3>2, <4>1 DEF CachesKnow, Ages
      <4>3. dedup'[e] # Absent /\ dedup'[e] <= dedup[e] + 1
        BY <1>1, <2>1, <4>2 DEF OlderWell
      <4>4. dedup' \in [Events -> Ages(DedupWindow)]
        BY <2>1, Caches
      <4>5. QED
        BY <4>1, <4>2, <4>3, <4>4 DEF Ages, Absent
    <3>3. QED
      BY <3>1, <3>2 DEF CachesKnow
  <2>3. ASSUME NEW n \in Names, Recent(lastAlert[n], RateLimit)'
        PROVE  \E c \in Contents : since'[<<n, c>>] <= lastAlert'[n]
    <3>1. Recent(lastAlert[n], RateLimit) /\ lastAlert'[n] = lastAlert[n] + 1
      BY <1>1, <2>1, <2>3 DEF Recent, OlderWell, Ages, Absent
    <3>2. PICK c \in Contents : since[<<n, c>>] <= lastAlert[n]
      BY <3>1 DEF CachesTrue
    <3>3. since'[<<n, c>>] <= lastAlert'[n]
      BY <1>1, <2>1, <3>1, <3>2, EventsFrom DEF Ages, Absent, Horizon, Recent
    <3>4. QED
      BY <3>3
  <2>4. ASSUME NEW e \in Events, Recent(dedup[e], DedupWindow)'
        PROVE  \E c \in Contents : \/ since'[<<e[1], c>>] <= dedup'[e]
                                   \/ since'[<<e[1], c>>] < dedup'[e] + RateLimit
    <3>1. Recent(dedup[e], DedupWindow) /\ dedup'[e] = dedup[e] + 1
      BY <1>1, <2>1, <2>4 DEF Recent, OlderWell, Ages, Absent
    <3>2. PICK c \in Contents : \/ since[<<e[1], c>>] <= dedup[e]
                                \/ since[<<e[1], c>>] < dedup[e] + RateLimit
      BY <3>1 DEF CachesTrue
    <3>3. \/ since'[<<e[1], c>>] <= dedup'[e]
          \/ since'[<<e[1], c>>] < dedup'[e] + RateLimit
      BY <1>1, <2>1, <3>1, <3>2, EventOf, EventsFrom DEF Ages, Absent, Horizon, Recent
    <3>4. QED
      BY <3>3
  <2>5. QED
    BY <2>2, <2>3, <2>4 DEF CachesTrue
<1>5. ASSUME NEW e \in Events, DropLimited(e) PROVE (CachesKnow /\ CachesTrue)'
  <2>1. RecordedWell(dedup, dedup', e, DedupWindow) /\ UNCHANGED <<lastAlert, since>>
    BY <1>5, Caches DEF DropLimited
  <2>2. CachesKnow'
    BY <1>1, <2>1 DEF CachesKnow, RecordedWell, Ages, Absent
  <2>3. PICK c \in Contents : since[<<e[1], c>>] < RateLimit
    <3>1. Recent(lastAlert[e[1]], RateLimit) /\ e[1] \in Names
      BY <1>5, EventOf DEF DropLimited
    <3>2. PICK c \in Contents : since[<<e[1], c>>] <= lastAlert[e[1]]
      BY <3>1 DEF CachesTrue
    <3>3. since[<<e[1], c>>] < RateLimit
      BY <1>1, <3>1, <3>2, EventsFrom DEF Recent, Ages, Absent, Horizon
    <3>4. QED
      BY <3>3
  <2>4. ASSUME NEW x \in Events, Recent(dedup[x], DedupWindow)'
        PROVE  \E d \in Contents : \/ since'[<<x[1], d>>] <= dedup'[x]
                                   \/ since'[<<x[1], d>>] < dedup'[x] + RateLimit
    <3>1. CASE x = e
      <4>1. dedup'[x] = 0
        BY <1>1, <2>1, <2>4, <3>1 DEF RecordedWell, Recent
      <4>2. QED
        BY <2>1, <2>3, <3>1, <4>1
    <3>2. CASE x # e
      BY <1>1, <2>1, <2>4, <3>2 DEF CachesTrue, RecordedWell, Recent
    <3>3. QED
      BY <3>1, <3>2
  <2>5. QED
    BY <2>1, <2>2, <2>4 DEF CachesTrue, Recent
<1>6. ASSUME NEW e \in Events, Raise(e) PROVE (CachesKnow /\ CachesTrue)'
  <2>1. /\ RecordedWell(dedup, dedup', e, DedupWindow)
        /\ RecordedWell(lastAlert, lastAlert', e[1], RateLimit)
        /\ since' = [since EXCEPT ![e] = 0]
        /\ e[1] \in Names /\ e[2] \in Contents /\ e = <<e[1], e[2]>>
    BY <1>6, Caches, EventOf DEF Raise
  <2>2. CachesKnow'
    BY <1>1, <2>1, EventOf DEF CachesKnow, RecordedWell, Ages, Absent
  <2>3. ASSUME NEW n \in Names, Recent(lastAlert[n], RateLimit)'
        PROVE  \E c \in Contents : since'[<<n, c>>] <= lastAlert'[n]
    <3>1. CASE n = e[1]
      <4>1. lastAlert'[n] = 0 /\ since'[<<n, e[2]>>] = 0
        BY <1>1, <2>1, <2>3, <3>1 DEF RecordedWell, Recent
      <4>2. QED
        BY <2>1, <4>1
    <3>2. CASE n # e[1]
      <4>1. lastAlert'[n] = lastAlert[n] /\ Recent(lastAlert[n], RateLimit)
        BY <1>1, <2>1, <2>3, <3>2 DEF RecordedWell, Recent
      <4>2. PICK c \in Contents : since[<<n, c>>] <= lastAlert[n]
        BY <4>1 DEF CachesTrue
      <4>3. since'[<<n, c>>] = since[<<n, c>>]
        BY <1>1, <2>1, <3>2, EventsFrom
      <4>4. QED
        BY <4>1, <4>2, <4>3
    <3>3. QED
      BY <3>1, <3>2
  <2>4. ASSUME NEW x \in Events, Recent(dedup[x], DedupWindow)'
        PROVE  \E d \in Contents : \/ since'[<<x[1], d>>] <= dedup'[x]
                                   \/ since'[<<x[1], d>>] < dedup'[x] + RateLimit
    <3>1. CASE x = e
      <4>1. dedup'[x] = 0 /\ since'[<<x[1], e[2]>>] = 0
        BY <1>1, <2>1, <2>4, <3>1 DEF RecordedWell, Recent
      <4>2. QED
        BY <2>1, <4>1
    <3>2. CASE x # e
      <4>1. dedup'[x] = dedup[x] /\ Recent(dedup[x], DedupWindow)
        BY <1>1, <2>1, <2>4, <3>2 DEF RecordedWell, Recent
      <4>2. PICK c \in Contents : \/ since[<<x[1], c>>] <= dedup[x]
                                  \/ since[<<x[1], c>>] < dedup[x] + RateLimit
        BY <4>1 DEF CachesTrue
      <4>3. since'[<<x[1], c>>] <= since[<<x[1], c>>] /\ since'[<<x[1], c>>] \in Nat
        BY <1>1, <2>1, EventOf, EventsFrom DEF Horizon
      <4>4. dedup[x] \in Nat /\ since[<<x[1], c>>] \in Nat
        BY <1>1, <4>1, EventOf, EventsFrom DEF Ages, Recent, Horizon
      <4>5. QED
        BY <4>1, <4>2, <4>3, <4>4
    <3>3. QED
      BY <3>1, <3>2
  <2>5. QED
    BY <2>2, <2>3, <2>4 DEF CachesTrue
<1>7. QED
  BY <1>2, <1>3, <1>4, <1>5, <1>6, CacheSteps

LEMMA InvariantHolds == Spec => []RInv
<1>1. Init => RInv
  BY TypeInit, CachesInit DEF Init, RInv
<1>2. RInv /\ [Next]_vars => RInv'
  BY TypeNext, CachesNext DEF RInv
<1>3. QED
  BY <1>1, <1>2, PTL DEF Spec

\* Whatever it drops, there was an alert of the device within both windows.
THEOREM DropsExcused == Spec => []DropsAreExcused
<1>1. RInv => DropsAreExcused
  <2> SUFFICES ASSUME RInv, NEW e \in Events, Blocked(e)
               PROVE  AlertedWithin(e[1], RateLimit + DedupWindow)
    BY DEF DropsAreExcused
  <2> USE AlertAssumption DEF AlertAssumption
  <2>1. /\ dedup \in [Events -> Ages(DedupWindow)]
        /\ lastAlert \in [Names -> Ages(RateLimit)]
        /\ since \in [Events -> 0..Horizon]
        /\ e[1] \in Names
    BY EventOf DEF RInv, ListenerTypeOK, Ages
  <2>2. CASE Recent(dedup[e], DedupWindow)
    <3>1. PICK c \in Contents : \/ since[<<e[1], c>>] <= dedup[e]
                                \/ since[<<e[1], c>>] < dedup[e] + RateLimit
      BY <2>2 DEF RInv, CachesTrue
    <3>2. since[<<e[1], c>>] < RateLimit + DedupWindow
      BY <2>1, <2>2, <3>1, EventsFrom DEF Recent, Ages, Absent, Horizon
    <3>3. QED
      BY <3>2 DEF AlertedWithin
  <2>3. CASE Recent(lastAlert[e[1]], RateLimit)
    <3>1. PICK c \in Contents : since[<<e[1], c>>] <= lastAlert[e[1]]
      BY <2>1, <2>3 DEF RInv, CachesTrue
    <3>2. since[<<e[1], c>>] < RateLimit + DedupWindow
      BY <2>1, <2>3, <3>1, EventsFrom DEF Recent, Ages, Absent, Horizon
    <3>3. QED
      BY <3>2 DEF AlertedWithin
  <2>4. QED
    BY <2>2, <2>3 DEF Blocked
<1>2. QED
  BY <1>1, InvariantHolds, PTL

\* Two alerts of a device are the rate limit apart, two of an event the window.
THEOREM Spaced == Spec => AlertsSpaced
<1>1. ASSUME RInv, [Next]_vars, NEW h \in Handlers, Alerts(h)
      PROVE  /\ ~AlertedWithin(event[h][1], RateLimit)
             /\ since[event[h]] >= DedupWindow
  <2> USE AlertAssumption DEF AlertAssumption
  <2>1. /\ dedup \in [Events -> Ages(DedupWindow)]
        /\ lastAlert \in [Names -> Ages(RateLimit)]
        /\ since \in [Events -> 0..Horizon]
        /\ event[h] \in Events /\ event[h][1] \in Names
        /\ stage \in [Handlers -> {"idle", "queued", "collecting", "delivering"}]
    BY EventOf, <1>1 DEF RInv, ListenerTypeOK, Ages
  <2>2. Raise(event[h])
    <3>1. ASSUME NEW g \in Handlers, HandlerStep(g) PROVE g = h /\ Alert(h)
      BY <1>1, <2>1, <3>1
         DEF Alerts, HandlerStep, Begin, Collected, Send, Suppress, Alert, EndHandler, CollectRaises,
             Delivering, AlertDone, handlerVars
    <3>2. ASSUME NEW e \in Events, Spawn(e) PROVE FALSE
      BY <1>1, <2>1, <3>2 DEF Spawn, Alerts
    <3>3. ASSUME NEW d \in Devices, PollAnswers(d) \/ PollCut(d) \/ PollFails(d) PROVE FALSE
      <4>1. <<d, "poll">> \in Events
        BY ListenerAssumption DEF ListenerAssumption, Events
      <4>2. QED
        BY <1>1, <3>2, <3>3, <4>1 DEF PollAnswers, PollCut, Hashed, PollFails, handlerVars, Alerts
    <3>4. ASSUME NEW e \in Events, Message(e) PROVE FALSE
      BY <3>2, <3>4 DEF Message
    <3>5. CASE \/ Start \/ Bind \/ Exit \/ StopBegins \/ StopEnds \/ Tick \/ PollWakes
               \/ (\E d \in Devices : Change(d)) \/ UNCHANGED vars
      BY <1>1, <2>1, <3>5
         DEF Start, Bind, Exit, StopBegins, StopEnds, Tick, PollWakes, Change, vars, handlerVars, Alerts
    <3>6. QED
      BY <1>1, <3>1, <3>3, <3>4, <3>5 DEF Next, Poll, Alert
  <2>3. since[event[h]] >= DedupWindow
    BY <1>1, <2>1, <2>2 DEF Raise, RInv, CachesKnow, Recent, Ages, Absent, Horizon
  <2>4. ASSUME NEW c \in Contents PROVE ~(since[<<event[h][1], c>>] < RateLimit)
    BY <1>1, <2>1, <2>2, EventsFrom DEF Raise, RInv, CachesKnow, Recent, Ages, Absent, Horizon
  <2>5. QED
    BY <2>3, <2>4 DEF AlertedWithin
<1>2. RInv /\ [Next]_vars =>
        [\A h \in Handlers : Alerts(h) =>
            /\ ~AlertedWithin(event[h][1], RateLimit)
            /\ since[event[h]] >= DedupWindow]_vars
  BY <1>1
<1>3. QED
  BY <1>2, InvariantHolds, PTL DEF Spec, AlertsSpaced

-----------------------------------------------------------------------------
(* The poll.                                                                *)

LEMMA PollsInit == ListenerTypeOK /\ Init => PollsTrue
BY DEF Init, PollsTrue, Drifted, Unpolled, ListenerTypeOK

LEMMA PollsNext ==
    ASSUME ListenerTypeOK, PollsTrue, [Next]_vars
    PROVE  PollsTrue'
<1> USE DEF PollsTrue, Drifted, ListenerTypeOK
<1>1. CASE Exit
  BY <1>1 DEF Exit, Unpolled
<1>2. ASSUME NEW d \in Devices, Change(d) PROVE PollsTrue'
  BY <1>2 DEF Change
<1>3. ASSUME NEW d \in Devices, PollAnswers(d) \/ PollCut(d) PROVE PollsTrue'
  BY <1>3 DEF PollAnswers, PollCut, Hashed
<1>4. CASE UNCHANGED <<config, seen, changed>>
  BY <1>4
<1>5. ASSUME NEW h \in Handlers, HandlerStep(h) PROVE UNCHANGED <<config, seen, changed>>
  BY <1>5 DEF HandlerStep, Begin, Collected, CollectRaises, Delivering, AlertDone, pollVars
<1>6. CASE \/ Start \/ Bind \/ StopBegins \/ StopEnds \/ Tick \/ PollWakes
           \/ (\E e \in Events : Message(e)) \/ (\E d \in Devices : PollFails(d)) \/ UNCHANGED vars
  BY <1>4, <1>6 DEF Start, Bind, StopBegins, StopEnds, Tick, PollWakes, Message, PollFails, vars, pollVars
<1>7. QED
  BY <1>1, <1>2, <1>3, <1>4, <1>5, <1>6 DEF Next, Poll

\* A poll event tells of a change made since the last good poll, or of an answer that
\* was cut short, this one or the one before it.
THEOREM DriftIsExplained == Spec => DriftExplained
<1>1. ASSUME ListenerTypeOK, PollsTrue, [Next]_vars, NEW h \in Handlers, NEW d \in Devices,
             stage[h] = "idle", stage'[h] = "queued", event'[h] = <<d, "poll">>
      PROVE  changed[d] \/ seen'[d] \in Cuts \/ seen[d] \in Cuts
  <2>1. /\ stage \in [Handlers -> {"idle", "queued", "collecting", "delivering"}]
        /\ event \in [Handlers -> Events]
    BY <1>1 DEF ListenerTypeOK
  <2>2. ASSUME NEW g \in Handlers, HandlerStep(g) PROVE FALSE
    BY <1>1, <2>1, <2>2
       DEF HandlerStep, Begin, Collected, Send, Suppress, Alert, EndHandler, CollectRaises, Delivering,
           AlertDone, handlerVars
  <2>3. ASSUME NEW e \in Events, Spawn(e) PROVE event'[h] = e
    BY <1>1, <2>1, <2>3 DEF Spawn
  <2>4. ASSUME NEW e \in Events, Message(e) PROVE FALSE
    BY <1>1, <2>3, <2>4 DEF Message
  <2>5. ASSUME NEW x \in Devices, NEW t, Hashed(x, t)
        PROVE  x = d /\ Drifted(d, t) /\ seen' = [seen EXCEPT ![d] = t]
    <3>1. <<x, "poll">> \in Events
      BY ListenerAssumption DEF ListenerAssumption, Events
    <3>2. Drifted(x, t) /\ Spawn(<<x, "poll">>)
      BY <1>1, <2>5 DEF Hashed, handlerVars
    <3>3. <<x, "poll">> = <<d, "poll">>
      BY <1>1, <2>3, <3>1, <3>2
    <3>4. QED
      BY <2>5, <3>2, <3>3 DEF Hashed
  <2>6. ASSUME NEW x \in Devices, PollAnswers(x) PROVE changed[d] \/ seen[d] \in Cuts
    BY <1>1, <2>5, <2>6 DEF PollAnswers, PollsTrue
  <2>7. ASSUME NEW x \in Devices, PollCut(x) PROVE seen'[d] \in Cuts
    BY <1>1, <2>5, <2>7 DEF PollCut, ListenerTypeOK
  <2>8. CASE \/ Start \/ Bind \/ Exit \/ StopBegins \/ StopEnds \/ Tick \/ PollWakes
             \/ (\E x \in Devices : Change(x) \/ PollFails(x)) \/ UNCHANGED vars
    BY <1>1, <2>1, <2>8
       DEF Start, Bind, Exit, StopBegins, StopEnds, Tick, PollWakes, PollFails, Change, vars, handlerVars
  <2>9. QED
    BY <1>1, <2>2, <2>4, <2>6, <2>7, <2>8 DEF Next, Poll
<1>2. ListenerTypeOK /\ PollsTrue /\ [Next]_vars =>
        [\A h \in Handlers : \A d \in Devices :
            stage[h] = "idle" /\ stage'[h] = "queued" /\ event'[h] = <<d, "poll">>
                => changed[d] \/ seen'[d] \in Cuts \/ seen[d] \in Cuts]_vars
  BY <1>1
<1>3. Init => PollsTrue
  BY TypeInit, PollsInit
<1>4. ListenerTypeOK /\ PollsTrue /\ [Next]_vars => PollsTrue'
  BY PollsNext
<1>5. QED
  BY <1>2, <1>3, <1>4, TypeCorrect, PTL DEF Spec, DriftExplained

=============================================================================
