------------------------------- MODULE EventLog -------------------------------
(***************************************************************************)
(* What domain.EventStore promises its callers: per entry an append-only   *)
(* sequence of events with increasing server_seq, in which a request id    *)
(* occurs at most once over all entries.                                   *)
(***************************************************************************)
EXTENDS Naturals

CONSTANTS Entry, Request

VARIABLE log    \* a set of records [entry, seq, req]

Init == log = {}

Add(r) ==
    /\ r.entry \in Entry
    /\ r.req \in Request
    /\ r.seq > 0
    /\ \A old \in log : old.req # r.req
    /\ \A old \in log : old.entry = r.entry => old.seq < r.seq
    /\ log' = log \cup {r}

Next == \E r \in log' \ log : Add(r)

Spec == Init /\ [][Next]_log

=============================================================================
