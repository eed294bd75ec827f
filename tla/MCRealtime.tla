----------------------------- MODULE MCRealtime -----------------------------
(* An instance of RealtimeListener for TLC.                                 *)
EXTENDS RealtimeListener, TLC

MCPolling == [dryRun |-> FALSE, baseline |-> TRUE, poll |-> TRUE,
              webhook |-> FALSE, email |-> FALSE]

\* Polls and traps, with alerts that are delivered nowhere; deliveries of both kinds,
\* of alerts on traps alone; a rehearsal.
MCOptions == {MCPolling,
              [MCPolling EXCEPT !.poll = FALSE, !.baseline = FALSE,
                                !.webhook = TRUE, !.email = TRUE],
              [MCPolling EXCEPT !.poll = FALSE, !.dryRun = TRUE]}

=============================================================================
