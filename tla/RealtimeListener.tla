-------------------------- MODULE RealtimeListener --------------------------
(***************************************************************************)
(* RealtimeListener (realtime.py) under the listen command (cli.py): syslog *)
(* messages, SNMP traps and a poll of every device give rise to events; a    *)
(* task of its own handles each event, collects the device when there is a   *)
(* baseline, and hands it to the alert manager of module Alerts.             *)
(*                                                                          *)
(* One asyncio loop: an action is what happens between two awaits.  Nobody   *)
(* keeps or awaits the tasks that handle events.  A poll of a device is one  *)
(* step: its answer is compared with a dictionary no other task sees.  The   *)
(* text of messages, severities and the results of the checks are left out.  *)
(***************************************************************************)
EXTENDS Alerts

CONSTANTS
    N,              \* the inventory is 1..N, polled in this order
    Configs,        \* what a device's configuration may be
    Cuts,           \* what a poll may read instead: nothing, a part, an error text
    Options,        \* what the command may be called with
    PollInterval    \* in ticks

Devices == 1..N

\* dryRun: alerts are only logged; baseline: events are enriched; poll: the
\* interval is not 0; webhook, email: where alerts go.
ASSUME ListenerAssumption ==
    /\ N \in Nat
    /\ Devices \subseteq Names
    /\ "poll" \in Contents
    /\ PollInterval \in Nat \ {0}
    /\ "none" \notin Configs \cup Cuts /\ Configs # {}
    /\ Configs \cap Cuts = {}
    /\ Options \subseteq [dryRun : BOOLEAN, baseline : BOOLEAN, poll : BOOLEAN,
                          webhook : BOOLEAN, email : BOOLEAN]
    /\ Options # {}

VARIABLES
    mode,           \* "down", "binding", "up", "stopping" or "stopped"
    options,        \* the options it runs with
    config,         \* the configuration each device has
    stage,          \* of each handler: "idle", "queued", "collecting", "delivering"
    event,          \* the event it handles
    timer,          \* ticks until the poll wakes up
    turn,           \* the device it polls, 0 while it sleeps
    seen,           \* last_configs, "none" for a device that is not in it
    changed,        \* history: the configuration changed since the last good poll
    reported        \* history: the configuration of the last poll event, or of the first poll

pollVars == <<timer, turn, seen, changed, reported>>
handlerVars == <<stage, event>>
vars == <<alertVars, mode, options, config, handlerVars, pollVars>>

NoEvent == CHOOSE e \in Events : TRUE

Unpolled == [d \in Devices |-> "none"]

Init ==
    /\ AlertInit
    /\ mode = "down"
    /\ options \in Options
    /\ config \in [Devices -> Configs]
    /\ stage = [h \in Handlers |-> "idle"]
    /\ event = [h \in Handlers |-> NoEvent]
    /\ timer = PollInterval /\ turn = 0
    /\ seen = Unpolled /\ reported = Unpolled
    /\ changed = [d \in Devices |-> FALSE]

-----------------------------------------------------------------------------
(* The command and the listening tasks.                                     *)

\* listen: everything the last process knew is gone.
Start ==
    /\ mode = "down"
    /\ mode' = "binding"
    /\ options' \in Options
    /\ UNCHANGED <<alertVars, config, handlerVars, pollVars>>

\* The syslog socket is bound.
Bind ==
    /\ mode = "binding"
    /\ mode' = "up"
    /\ UNCHANGED <<alertVars, options, config, handlerVars, pollVars>>

\* The process ends: the socket cannot be bound, which ends start, or Ctrl-C;
\* asyncio.run cancels the handlers.
Exit ==
    /\ mode # "down"
    /\ mode' = "down"
    /\ AlertGone
    /\ stage' = [h \in Handlers |-> "idle"]
    /\ event' = [h \in Handlers |-> NoEvent]
    /\ timer' = PollInterval /\ turn' = 0
    /\ seen' = Unpolled /\ reported' = Unpolled
    /\ changed' = [d \in Devices |-> FALSE]
    /\ UNCHANGED <<options, config>>

\* stop: the listening tasks are cancelled and awaited, the handlers are not,
\* and the client is closed under them.
StopBegins ==
    /\ mode \in {"binding", "up"}
    /\ mode' = "stopping"
    /\ UNCHANGED <<alertVars, options, config, handlerVars, pollVars>>

StopEnds ==
    /\ mode = "stopping"
    /\ mode' = "stopped"
    /\ turn' = 0
    /\ timer' = PollInterval
    /\ CloseClient
    /\ UNCHANGED <<options, config, handlerVars, seen, changed, reported>>

-----------------------------------------------------------------------------
(* Events.                                                                  *)

\* ensure_future of _handle_change.
Spawn(e) ==
    \E h \in Handlers :
        /\ stage[h] = "idle"
        /\ stage' = [stage EXCEPT ![h] = "queued"]
        /\ event' = [event EXCEPT ![h] = e]

\* A message that tells of a change, or any trap; the trap receiver is bound first.
Message(e) ==
    /\ e[2] # "poll"
    /\ mode \in {"up", "stopping"} \/ (mode = "binding" /\ e[2] = "trap")
    /\ Spawn(e)
    /\ UNCHANGED <<alertVars, mode, options, config, pollVars>>

\* Somebody reconfigures a device.
Change(d) ==
    /\ \E c \in Configs \ {config[d]} : config' = [config EXCEPT ![d] = c]
    /\ changed' = [changed EXCEPT ![d] = TRUE]
    /\ UNCHANGED <<alertVars, mode, options, handlerVars, timer, turn, seen, reported>>

Polling == options.poll /\ mode \in {"binding", "up"}

\* The sleep of the poll is over, and so is the last round.
PollWakes ==
    /\ Polling /\ turn = 0 /\ timer = 0
    /\ IF N > 0 THEN turn' = 1 /\ timer' = timer
                ELSE turn' = 0 /\ timer' = PollInterval
    /\ UNCHANGED <<alertVars, mode, options, config, handlerVars, seen, changed, reported>>

\* The poll of d is over; with a bounded number of handlers it waits for one to be free.
Polled(d) ==
    /\ Polling /\ turn = d
    /\ \E h \in Handlers : stage[h] = "idle"

NextTurn(d) ==
    IF d < N THEN turn' = d + 1 /\ timer' = timer
             ELSE turn' = 0 /\ timer' = PollInterval

\* The poll of d gave the hash of text t, and another one before.
Drifted(d, t) == seen[d] # "none" /\ seen[d] # t

\* A hash: an event if there was another before, and remembered in any case.
Hashed(d, t) ==
    /\ Polled(d)
    /\ IF Drifted(d, t) THEN Spawn(<<d, "poll">>) ELSE UNCHANGED handlerVars
    /\ seen' = [seen EXCEPT ![d] = t]
    /\ NextTurn(d)
    /\ UNCHANGED <<alertVars, mode, options, config>>

\* Mutant: the hash of the first poll is kept.
PollAnswersFirst(d) ==
    /\ Hashed(d, config[d])
    /\ reported' = [reported EXCEPT ![d] = IF seen[d] = "none" THEN config[d] ELSE @]
    /\ changed' = [changed EXCEPT ![d] = FALSE]

\* A good poll: the whole configuration was read.
PollAnswers(d) ==
    /\ Hashed(d, config[d])
    /\ reported' = [reported EXCEPT ![d] =
                       IF seen[d] = "none" \/ Drifted(d, config[d]) THEN config[d] ELSE @]
    /\ changed' = [changed EXCEPT ![d] = FALSE]

\* The session was closed before the end, which leaves no exit status, or the device
\* gave an error text with status 0: whatever was read is hashed like a configuration.
PollCut(d) ==
    /\ \E t \in Cuts : Hashed(d, t)
    /\ UNCHANGED <<changed, reported>>

\* Mutant: a poll that raised is remembered as a hash of its own.
PollFailsHashed(d) == Hashed(d, "raised") /\ UNCHANGED <<changed, reported>>

\* None, when the connection or the command raised or ended with another status: the
\* last hash is kept.
PollFails(d) ==
    /\ Polled(d)
    /\ NextTurn(d)
    /\ UNCHANGED <<alertVars, mode, options, config, handlerVars, seen, changed, reported>>

-----------------------------------------------------------------------------
(* _handle_change.                                                          *)

EndHandler(h) == stage' = [stage EXCEPT ![h] = "idle"] /\ event' = [event EXCEPT ![h] = NoEvent]

\* send_alert drops the event: a dry run, a duplicate, or the rate limit.
Suppress(h) ==
    /\ \/ options.dryRun /\ UNCHANGED cacheVars
       \/ ~options.dryRun /\ DropDuplicate(event[h])
       \/ ~options.dryRun /\ DropLimited(event[h])
    /\ EndHandler(h)
    /\ UNCHANGED deliveryVars

\* Or raises the alert, and waits for its delivery.
Alert(h) ==
    /\ ~options.dryRun
    /\ Raise(event[h])
    /\ stage' = [stage EXCEPT ![h] = "delivering"]
    /\ UNCHANGED event
    /\ BeginDelivery(h, options.webhook, options.email)

Send(h) == Suppress(h) \/ Alert(h)

Enriched(h) == options.baseline /\ event[h][1] \in Devices

\* The task runs until it has to wait.
Begin(h) ==
    /\ stage[h] = "queued"
    /\ IF Enriched(h)
       THEN /\ stage' = [stage EXCEPT ![h] = "collecting"]
            /\ UNCHANGED <<event, alertVars>>
       ELSE Send(h)
    /\ UNCHANGED <<mode, options, config, pollVars>>

\* Collected, with or without an error.
Collected(h) ==
    /\ stage[h] = "collecting"
    /\ Send(h)
    /\ UNCHANGED <<mode, options, config, pollVars>>

\* The collection or a check raises: nobody awaits the task, the event is lost.
CollectRaises(h) ==
    /\ stage[h] = "collecting"
    /\ EndHandler(h)
    /\ UNCHANGED <<alertVars, mode, options, config, pollVars>>

Delivering(h) ==
    /\ stage[h] = "delivering"
    /\ Deliver(h)
    /\ UNCHANGED <<mode, options, config, handlerVars, pollVars>>

AlertDone(h) ==
    /\ stage[h] = "delivering"
    /\ EndDelivery(h)
    /\ EndHandler(h)
    /\ UNCHANGED <<mode, options, config, pollVars>>

HandlerStep(h) == Begin(h) \/ Collected(h) \/ CollectRaises(h) \/ Delivering(h) \/ AlertDone(h)

Tick ==
    /\ mode # "down"
    /\ AlertTick
    /\ timer' = IF Polling /\ turn = 0 /\ timer > 0 THEN timer - 1 ELSE timer
    /\ UNCHANGED <<mode, options, config, handlerVars, turn, seen, changed, reported>>

Poll == PollWakes \/ \E d \in Devices : PollAnswers(d) \/ PollCut(d) \/ PollFails(d)

Next ==
    \/ Start \/ Bind \/ Exit \/ StopBegins \/ StopEnds
    \/ \E e \in Events : Message(e)
    \/ \E d \in Devices : Change(d)
    \/ Poll
    \/ \E h \in Handlers : HandlerStep(h)
    \/ Tick

\* The loop runs every task that can go on and time passes.  Every wait for a
\* device or an endpoint ends, by its answer or by its timeout.  A device that
\* is polled again and again answers again and again, and in full.
Fairness ==
    /\ WF_vars(Tick) /\ WF_vars(Bind) /\ WF_vars(StopEnds)
    /\ WF_vars(Poll)
    /\ \A h \in Handlers : WF_vars(HandlerStep(h))
    /\ \A d \in Devices : SF_vars(PollAnswers(d))

Spec == Init /\ [][Next]_vars /\ Fairness

-----------------------------------------------------------------------------
(* Properties.                                                              *)

\* The caches hold ages of their windows, and a sender is part of a handler.
ListenerTypeOK ==
    /\ lastAlert \in [Names -> {Absent} \cup 0..(2 * RateLimit)]
    /\ dedup \in [Events -> {Absent} \cup 0..(2 * DedupWindow)]
    /\ since \in [Events -> 0..Horizon]
    /\ client \in {"none", "open"}
    /\ holds \in [Handlers -> {"none", "open", "closed"}]
    /\ posts \in [Handlers -> 0..Retries]
    /\ mail \in [Handlers -> BOOLEAN]
    /\ mode \in {"down", "binding", "up", "stopping", "stopped"}
    /\ options \in Options
    /\ config \in [Devices -> Configs]
    /\ stage \in [Handlers -> {"idle", "queued", "collecting", "delivering"}]
    /\ event \in [Handlers -> Events]
    /\ timer \in 0..PollInterval
    /\ turn \in 0..N
    /\ seen \in [Devices -> Configs \cup Cuts \cup {"none"}]
    /\ changed \in [Devices -> BOOLEAN]
    /\ reported \in [Devices -> Configs \cup {"none"}]
    /\ \A h \in Handlers : stage[h] # "delivering" => posts[h] = 0 /\ ~mail[h] /\ holds[h] = "none"

AlertedWithin(n, window) == \E c \in Contents : since[<<n, c>>] < window

\* The step in which handler h raises an alert.
Alerts(h) == stage[h] # "delivering" /\ stage'[h] = "delivering"

\* Whatever the order in which the handlers of a device's events go on, the
\* listener raises two alerts of a device at least the rate limit apart, and two
\* of the same event at least the window (AlertConfig: "min seconds between
\* alerts per device", "dedup window in seconds").
AlertsSpaced ==
    [][\A h \in Handlers : Alerts(h) =>
          /\ ~AlertedWithin(event[h][1], RateLimit)
          /\ since[event[h]] >= DedupWindow]_vars

\* send_alert drops this event if it comes now.
Blocked(e) == Recent(dedup[e], DedupWindow) \/ Recent(lastAlert[e[1]], RateLimit)

\* An event is dropped only if there was an alert of its device, no longer ago
\* than both windows together; one of them is not enough, because an event that
\* the rate limit drops has entered the dedup cache before.
DropsAreExcused ==
    \A e \in Events : Blocked(e) => AlertedWithin(e[1], RateLimit + DedupWindow)

\* A poll event tells of a change that was made since the last good poll, however
\* many polls failed meanwhile ("to avoid false change events on transient SSH
\* failures"), or of an answer that was cut short: this one, or the one before it.
DriftExplained ==
    [][\A h \in Handlers : \A d \in Devices :
          stage[h] = "idle" /\ stage'[h] = "queued" /\ event'[h] = <<d, "poll">>
              => changed[d] \/ seen'[d] \in Cuts \/ seen[d] \in Cuts]_vars

\* A configuration that stays is reported, whatever was read in between: polling is the fallback "for reliable
\* change detection".
DriftReported ==
    \A d \in Devices : \A c \in Configs :
        <>[](mode = "up" /\ options.poll /\ config[d] = c) => <>[](reported[d] = c)

=============================================================================
