-------------------------- MODULE LinkRepository --------------------------
(* The tables links and link_access_logs behind                            *)
(* adapters/postgres/link_repository.go.  Each operator is one SQL         *)
(* statement, which PostgreSQL runs atomically; no method of the link      *)
(* repository runs inside a transaction.                                   *)
EXTENDS LinkDomain

VARIABLES
    links,      \* links[id] is the row, or Nil
    logs        \* ids of the links that have an access log row

LinkRows == [Links -> Link \cup {Nil}]

RepositoryInit ==
    /\ links = [id \in Links |-> Nil]
    /\ logs = {}

Exists(id) == links[id] # Nil

(* hashed_key is UNIQUE, and so are id and slug. *)
CreateConflicts(id, link) ==
    Exists(id) \/ \E other \in Links :
        Exists(other) /\ links[other].hashed_key = link.hashed_key

Create(id, link) ==
    /\ links' = [links EXCEPT ![id] = link]
    /\ UNCHANGED logs

(* Faulty variant: INSERT ... ON CONFLICT DO UPDATE. *)
UpdateUpserts(id, link) ==
    /\ links' = [links EXCEPT ![id] = link]
    /\ UNCHANGED logs

(* Every column but created_by is overwritten with the caller's copy,      *)
(* whatever the row holds by now; a missing row is no error.               *)
Update(id, link) ==
    /\ links' = [links EXCEPT ![id] =
                    IF @ = Nil THEN Nil
                    ELSE [link EXCEPT !.created_by = links[id].created_by]]
    /\ UNCHANGED logs

(* link_id is a foreign key and UNIQUE: one log per link that exists. *)
LogAccepted(id) == Exists(id) /\ id \notin logs

CreateAccessLog(id) ==
    /\ logs' = logs \cup {id}
    /\ UNCHANGED links

(* Faulty variant: the statement only looks behind one more interval. *)
OverdueOneTickLate(id, now) ==
    /\ Exists(id)
    /\ links[id].status = StatusWaiting
    /\ IsExpired(links[id], now - 1)

Overdue(id, now) ==
    /\ Exists(id)
    /\ links[id].status = StatusWaiting
    /\ IsExpired(links[id], now)

(* The janitor's statement: only the status changes, the text stays. *)
InvalidateExpiredLinks(now) ==
    /\ links' = [id \in Links |-> IF Overdue(id, now)
                                  THEN Invalidated(links[id]) ELSE links[id]]
    /\ UNCHANGED logs

(* Faulty variant: no cascade. *)
DeleteLeavesLog(id) ==
    /\ links' = [links EXCEPT ![id] = Nil]
    /\ UNCHANGED logs

(* ON DELETE CASCADE takes the access log with the row. *)
Delete(id) ==
    /\ links' = [links EXCEPT ![id] = Nil]
    /\ logs' = logs \ {id}
===========================================================================
