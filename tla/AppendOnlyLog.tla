--------------------------- MODULE AppendOnlyLog ---------------------------
(***************************************************************************)
(* What the transparency log promises its auditors: a sequence of entries  *)
(* that only grows at its end and holds an idempotency key once, and       *)
(* published roots that commit to prefixes of it.                          *)
(***************************************************************************)
EXTENDS Naturals, Sequences

CONSTANTS
    Key,       \* idempotency keys
    Payload    \* token bytes

VARIABLES
    log,       \* the entries, oldest first
    published  \* the prefixes that published roots commit to

logVars == <<log, published>>

Entry == [key : Key, payload : Payload]

Keys == {log[i].key : i \in 1..Len(log)}

LogInit == log = <<>> /\ published = {}

AddEntry(e) ==
    /\ e.key \notin Keys
    /\ log' = Append(log, e)
    /\ UNCHANGED published

PublishRoot ==
    /\ published' = published \cup {log}
    /\ UNCHANGED log

LogNext == PublishRoot \/ \E e \in Entry : AddEntry(e)

LogSpec == LogInit /\ [][LogNext]_logVars

\* Whatever was published stays a prefix of the log, so any two published
\* roots are consistent with each other.
PublishedArePrefixes ==
    \A p \in published :
        /\ Len(p) <= Len(log)
        /\ \A i \in 1..Len(p) : p[i] = log[i]
=============================================================================
