------------------------------- MODULE Alerts -------------------------------
(***************************************************************************)
(* AlertManager (realtime.py): whether an event becomes an alert, and how   *)
(* the alert is delivered.  Its two caches map a device, and an event, to    *)
(* the time of the last one; here they hold how long ago that was, in        *)
(* ticks.  send_alert decides between two awaits, so a decision is one step; *)
(* the deliveries of several alerts interleave.                              *)
(***************************************************************************)
EXTENDS Integers

CONSTANTS
    Names,          \* the devices events are about
    Contents,       \* type and summary of an event
    RateLimit,      \* rate_limit_seconds, in ticks
    DedupWindow,    \* dedup_window, in ticks
    Retries,        \* webhook_retries
    Handlers        \* bound: as many events are handled at a time

ASSUME AlertAssumption ==
    /\ Names # {} /\ Contents # {}
    /\ RateLimit \in Nat
    /\ DedupWindow \in Nat
    /\ Retries \in Nat

VARIABLES
    lastAlert,      \* _last_alert_time: per device the age of the entry, or Absent
    dedup,          \* _dedup_cache: per event the age of the entry, or Absent
    client,         \* the shared HTTP client: "none" or "open"
    holds,          \* the client each sender took: "none", "open" or "closed"
    posts,          \* attempts each sender has left
    mail,           \* whether its e-mail is on the way
    since           \* history: ticks since an alert of this event, at most Horizon

alertVars == <<lastAlert, dedup, client, holds, posts, mail, since>>
cacheVars == <<lastAlert, dedup, since>>
deliveryVars == <<client, holds, posts, mail>>

Absent == -1
Events == Names \X Contents

\* Beyond it the history does not count.
Horizon == RateLimit + DedupWindow

\* A manager that has just been created.
NoAlerts == [n \in Names |-> Absent]
NoEvents == [e \in Events |-> Absent]
Unheard == [e \in Events |-> Horizon]

AlertInit ==
    /\ lastAlert = NoAlerts /\ dedup = NoEvents /\ since = Unheard
    /\ client = "none"
    /\ holds = [h \in Handlers |-> "none"]
    /\ posts = [h \in Handlers |-> 0]
    /\ mail = [h \in Handlers |-> FALSE]

\* The process is gone, and its memory with it.
AlertGone ==
    /\ lastAlert' = NoAlerts /\ dedup' = NoEvents /\ since' = Unheard
    /\ client' = "none"
    /\ holds' = [h \in Handlers |-> "none"]
    /\ posts' = [h \in Handlers |-> 0]
    /\ mail' = [h \in Handlers |-> FALSE]

-----------------------------------------------------------------------------
(* The two caches.                                                          *)

\* now - last < window.
Recent(age, window) == age # Absent /\ age < window

\* The entry of k is made now, and those of twice the window are deleted.
Recorded(cache, k, window) ==
    [x \in DOMAIN cache |->
        LET age == IF x = k THEN 0 ELSE cache[x]
        IN  IF age >= 2 * window THEN Absent ELSE age]

\* A tick passes; an age beyond twice the window is as good as that.
Older(cache, window) ==
    [x \in DOMAIN cache |->
        IF cache[x] = Absent \/ cache[x] >= 2 * window THEN cache[x] ELSE cache[x] + 1]

AlertTick ==
    /\ lastAlert' = Older(lastAlert, RateLimit)
    /\ dedup' = Older(dedup, DedupWindow)
    /\ since' = [e \in Events |-> IF since[e] < Horizon THEN since[e] + 1 ELSE Horizon]
    /\ UNCHANGED deliveryVars

-----------------------------------------------------------------------------
(* send_alert, up to the delivery: drop the event or raise the alert.       *)

\* Mutant: a duplicate starts its window again.
DropDuplicateAgain(e) ==
    /\ Recent(dedup[e], DedupWindow)
    /\ dedup' = Recorded(dedup, e, DedupWindow)
    /\ UNCHANGED <<lastAlert, since>>

\* _is_duplicate: a duplicate leaves the cache alone.
DropDuplicate(e) ==
    /\ Recent(dedup[e], DedupWindow)
    /\ UNCHANGED cacheVars

\* _is_rate_limited is asked after _is_duplicate has recorded the event.
DropLimited(e) ==
    /\ ~Recent(dedup[e], DedupWindow)
    /\ Recent(lastAlert[e[1]], RateLimit)
    /\ dedup' = Recorded(dedup, e, DedupWindow)
    /\ UNCHANGED <<lastAlert, since>>

\* Mutant: the time of the alert is kept per event, not per device.
RaiseUnlimited(e) ==
    /\ ~Recent(dedup[e], DedupWindow)
    /\ dedup' = Recorded(dedup, e, DedupWindow)
    /\ lastAlert' = Recorded(lastAlert, e[1], RateLimit)
    /\ since' = [since EXCEPT ![e] = 0]

\* Neither: both caches know of the alert.
Raise(e) ==
    /\ ~Recent(dedup[e], DedupWindow)
    /\ ~Recent(lastAlert[e[1]], RateLimit)
    /\ dedup' = Recorded(dedup, e, DedupWindow)
    /\ lastAlert' = Recorded(lastAlert, e[1], RateLimit)
    /\ since' = [since EXCEPT ![e] = 0]

-----------------------------------------------------------------------------
(* The delivery of one alert: the webhook with its retries, and the e-mail. *)

\* A task for each that is configured, to be awaited together.
BeginDelivery(h, webhook, email) ==
    /\ posts' = [posts EXCEPT ![h] = IF webhook THEN Retries ELSE 0]
    /\ mail' = [mail EXCEPT ![h] = email]
    /\ UNCHANGED <<client, holds>>

\* _get_client: the first sender opens it, the others share it.
TakeClient(h) ==
    /\ posts[h] > 0 /\ holds[h] = "none"
    /\ client' = "open"
    /\ holds' = [holds EXCEPT ![h] = "open"]
    /\ UNCHANGED <<posts, mail, cacheVars>>

\* A 2xx ends it.
PostAccepted(h) ==
    /\ posts[h] > 0 /\ holds[h] = "open"
    /\ posts' = [posts EXCEPT ![h] = 0]
    /\ UNCHANGED <<client, holds, mail, cacheVars>>

\* Any other status, or any exception, that of a closed client among them.
PostFails(h) ==
    /\ posts[h] > 0 /\ holds[h] # "none"
    /\ posts' = [posts EXCEPT ![h] = @ - 1]
    /\ UNCHANGED <<client, holds, mail, cacheVars>>

\* One attempt, whose failure is only logged.
MailEnds(h) ==
    /\ mail[h]
    /\ mail' = [mail EXCEPT ![h] = FALSE]
    /\ UNCHANGED <<client, holds, posts, cacheVars>>

\* gather has both results.
Delivered(h) == posts[h] = 0 /\ ~mail[h]

EndDelivery(h) ==
    /\ Delivered(h)
    /\ holds' = [holds EXCEPT ![h] = "none"]
    /\ UNCHANGED <<client, posts, mail, cacheVars>>

Deliver(h) == TakeClient(h) \/ PostAccepted(h) \/ PostFails(h) \/ MailEnds(h)

\* close: senders that hold the client find out at their next attempt.
CloseClient ==
    /\ client' = "none"
    /\ holds' = [h \in Handlers |-> IF holds[h] = "open" THEN "closed" ELSE holds[h]]
    /\ UNCHANGED <<posts, mail, cacheVars>>

=============================================================================
