----------------------------- MODULE RecordFate -----------------------------
(* What the output stage promises about the records of closed flows.  A record *)
(* that was accepted is delivered or has failed after a while; a caller who    *)
(* leaves, with its record accepted or not, leaves nothing settled untold; no  *)
(* more than QueueMax records are open at a time; and only closing the         *)
(* exporter, which waits for its callers, may lose a record or its report.     *)
EXTENDS Naturals, FiniteSets

CONSTANTS Records,      \* identities of records, used again once told
          Callers,      \* who offers records
          QueueMax      \* how many records may be open

VARIABLES fate,         \* what became of each record
          open,         \* whether the exporter takes records
          asked         \* the callers whose offer has not been answered

vars == <<fate, open, asked>>

Idle == [r \in Records |-> "free"]
Held == {r \in Records : fate[r] = "queued"}
Settled == {r \in Records : fate[r] \in {"delivered", "failed"}}
Told == [r \in Records |-> IF r \in Settled THEN "free" ELSE fate[r]]

Init == fate = Idle /\ open = FALSE /\ asked = {}

Open == ~open /\ fate = Idle /\ open' = TRUE /\ UNCHANGED <<fate, asked>>

Offer(c) ==
    /\ open /\ c \notin asked
    /\ asked' = asked \cup {c}
    /\ UNCHANGED <<fate, open>>

Accept(r) ==
    /\ open /\ asked # {} /\ fate[r] = "free"
    /\ Cardinality(Held \cup Settled) < QueueMax
    /\ fate' = [fate EXCEPT ![r] = "queued"]
    /\ UNCHANGED <<open, asked>>

\* The caller has been told of everything that is settled.
Answer(c) ==
    /\ open /\ c \in asked
    /\ asked' = asked \ {c}
    /\ fate' = Told
    /\ UNCHANGED open

Settle(r) ==
    /\ fate[r] = "queued"
    /\ \E outcome \in {"delivered", "failed"} :
         fate' = [fate EXCEPT ![r] = outcome]
    /\ UNCHANGED <<open, asked>>

\* An exporter about to close tells what is settled while it waits.
Tell ==
    /\ open /\ asked = {}
    /\ fate' = Told
    /\ UNCHANGED <<open, asked>>

Close ==
    /\ open /\ asked = {}
    /\ open' = FALSE
    /\ fate' = [r \in Records |-> IF r \in Held THEN "lost"
                                  ELSE IF r \in Settled THEN "untold" ELSE "free"]
    /\ UNCHANGED asked

Next ==
    \/ Open \/ Tell \/ Close
    \/ \E r \in Records : Accept(r) \/ Settle(r)
    \/ \E c \in Callers : Offer(c) \/ Answer(c)

\* The client settles every record it holds (message.timeout.ms bounds the wait)
\* and every offer is answered.
Spec ==
    /\ Init /\ [][Next]_vars
    /\ \A r \in Records : WF_vars(Settle(r))
    /\ \A c \in Callers : WF_vars(Answer(c))
=============================================================================
