---------------------------- MODULE AtLeastOnce ----------------------------
(***************************************************************************)
(* What the event consumer promises, without channels, tags or             *)
(* acknowledgements: published messages wait in a queue until they have    *)
(* been processed.  While no connection has been lost a message is         *)
(* attended by one worker at a time, and only the worker that has          *)
(* processed it takes it off the queue.  Afterwards a worker that is done  *)
(* may take nothing off, or the wrong message, but never one that nobody   *)
(* has begun to process.                                                   *)
(***************************************************************************)
CONSTANTS
  Msgs,      \* messages, each published once
  Malformed, \* those that processEvent gives up on
  Hooks,     \* webhooks
  Workers    \* invocations of the consumer callback that may run at once

VARIABLES
  queue,   \* messages published and not yet taken off
  removed, \* messages taken off the queue for ever
  jobs,    \* worker -> the message it attends and the webhooks still to answer
  done,    \* messages that some worker has processed to the end
  wanted,  \* webhooks that want the events
  sound    \* no connection has been lost so far

vars == <<queue, removed, jobs, done, wanted, sound>>

Job == [msg : Msgs, todo : SUBSET Hooks]

Idle == [w \in {} |-> w]

Attended == {jobs[w].msg : w \in DOMAIN jobs}

Publish(m) ==
  /\ m \notin queue \cup removed
  /\ queue' = queue \cup {m}
  /\ UNCHANGED <<removed, jobs, done, wanted, sound>>

\* A worker begins with a message, for the webhooks that want it at that moment
Take(w, m) ==
  /\ w \notin DOMAIN jobs
  /\ m \in queue
  /\ sound => m \notin Attended
  /\ LET job == [msg |-> m, todo |-> IF m \in Malformed THEN {} ELSE wanted]
     IN  jobs' = [v \in DOMAIN jobs \cup {w} |-> IF v = w THEN job ELSE jobs[v]]
  /\ UNCHANGED <<queue, removed, done, wanted, sound>>

\* A webhook has answered, or failed to
Attempt(w, h) ==
  /\ w \in DOMAIN jobs
  /\ h \in jobs[w].todo
  /\ jobs' = [jobs EXCEPT ![w].todo = @ \ {h}]
  /\ UNCHANGED <<queue, removed, done, wanted, sound>>

Remove(m) ==
  /\ m \in queue
  /\ queue' = queue \ {m}
  /\ removed' = removed \cup {m}

\* The worker that has nothing left to do takes its message off the queue; after a
\* lost connection that may fail, or hit another message that has a worker or had one
Complete(w) ==
  /\ w \in DOMAIN jobs
  /\ jobs[w].todo = {}
  /\ done' = done \cup {jobs[w].msg}
  /\ jobs' = [v \in DOMAIN jobs \ {w} |-> jobs[v]]
  /\ \/ Remove(jobs[w].msg)
     \/ ~sound /\ \E m \in Attended \cup done : Remove(m)
     \/ ~sound /\ UNCHANGED <<queue, removed>>
  /\ UNCHANGED <<wanted, sound>>

\* The process ends and is started again
Interrupt ==
  /\ jobs' = Idle
  /\ wanted' \in SUBSET Hooks
  /\ UNCHANGED <<queue, removed, done, sound>>

Degrade ==
  /\ sound' = FALSE
  /\ UNCHANGED <<queue, removed, jobs, done, wanted>>

ChangeWanted ==
  /\ wanted' \in SUBSET Hooks
  /\ UNCHANGED <<queue, removed, jobs, done, sound>>

Init ==
  /\ queue = {}
  /\ removed = {}
  /\ jobs = Idle
  /\ done = {}
  /\ wanted \in SUBSET Hooks
  /\ sound = TRUE

Next ==
  \/ \E m \in Msgs : Publish(m) \/ \E w \in Workers : Take(w, m)
  \/ \E w \in Workers : Complete(w) \/ \E h \in Hooks : Attempt(w, h)
  \/ Interrupt
  \/ Degrade
  \/ ChangeWanted

Spec == Init /\ [][Next]_vars
=============================================================================
