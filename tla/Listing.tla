------------------------------ MODULE Listing ------------------------------
(* The paged lists: links, my links, users and access logs, from the query *)
(* string (adapters/http) through the services' limits to ORDER BY, LIMIT  *)
(* and OFFSET (adapters/postgres).  A client walks a list page by page     *)
(* while rows come and go under it.  The lists share no rows but for the   *)
(* cascade from a link to its one log, so one list is looked at at a time. *)
EXTENDS Integers, FiniteSets, Functions

CONSTANTS
    Rows,           \* ids of the rows that the list may come to hold
    Owners,         \* values of created_by, Nil for an anonymous creator
    Me,             \* the caller of ListMyLinks
    Nil,            \* NULL; an absent or unreadable query parameter
    Asked,          \* limits that clients ask for
    DefaultLimit,   \* 50: default of the services and of three handlers
    LogsLimit,      \* 100: default of the handler of access logs
    MaxAt           \* bound on the clock

ASSUME ListingNilAssumption == Nil \notin Rows \cup Int \cup [at : Int, owner : Owners]
ASSUME ListingAssumption ==
    /\ IsFiniteSet(Rows)
    /\ Asked \subseteq Int \cup {Nil}
    /\ DefaultLimit \in Nat \ {0}
    /\ LogsLimit \in Nat \ {0}
    /\ MaxAt \in Nat

VARIABLES
    list,       \* the list under consideration
    now,        \* the clock that stamps rows
    rows,       \* rows[r] is the committed row, or Nil
    inserting,  \* inserting[r]: the row of an INSERT that has its time stamp
    limit,      \* the walk's limit parameter
    offset,     \* the walk's next offset
    page,       \* rows of the answer under way
    pc          \* where the walk is

(* History, read by no guard but the first of BeginInsert. *)
VARIABLES
    began,      \* rows on the list when the walk began
    seen,       \* rows that answers of the walk carried
    tied,       \* rows whose time stamp was not their own in some query
    removed,    \* rows removed from the list since the walk began
    gone        \* rows ever removed

table   == <<rows, inserting, now, gone>>
walk    == <<limit, offset, page, pc>>
history == <<began, seen, tied, removed>>
vars    == <<list, table, walk, history>>

Lists == {"links", "mine", "users", "logs"}
Row   == [at : 0..MaxAt, owner : Owners]
PCs   == {"idle", "ask", "answered"}

Init ==
    /\ list \in Lists
    /\ now = 0
    /\ rows = [r \in Rows |-> Nil]
    /\ inserting = [r \in Rows |-> Nil]
    /\ gone = {}
    /\ limit = Nil /\ offset = 0 /\ page = {} /\ pc = "idle"
    /\ began = {} /\ seen = {} /\ tied = {} /\ removed = {}

NoWalk ==
    /\ limit' = Nil /\ offset' = 0 /\ page' = {} /\ pc' = "idle"
    /\ began' = {} /\ seen' = {} /\ tied' = {} /\ removed' = {}

-----------------------------------------------------------------------------
(* Rows come and go *)

(* Faulty variant: created_at, which may be NULL, is listed and not set. *)
BeginInsertUnstamped(r, owner) ==
    /\ rows[r] = Nil /\ inserting[r] = Nil /\ r \notin gone
    /\ list # "mine" => owner = Me
    /\ inserting' = [inserting EXCEPT ![r] = [at |-> Nil, owner |-> owner]]
    /\ UNCHANGED <<list, rows, now, gone, walk, history>>

(* created_at is the start of the INSERT, opened_at is read before it: a   *)
(* row may appear below rows that were committed earlier.  The owner       *)
(* matters to one list only.                                               *)
BeginInsert(r, owner) ==
    /\ rows[r] = Nil /\ inserting[r] = Nil /\ r \notin gone
    /\ list # "mine" => owner = Me
    /\ inserting' = [inserting EXCEPT ![r] = [at |-> now, owner |-> owner]]
    /\ UNCHANGED <<list, rows, now, gone, walk, history>>

CommitInsert(r) ==
    /\ inserting[r] # Nil
    /\ rows' = [rows EXCEPT ![r] = inserting[r]]
    /\ inserting' = [inserting EXCEPT ![r] = Nil]
    /\ UNCHANGED <<list, now, gone, walk, history>>

(* The filter of the list: created_by = the caller. *)
Matches(row) == list = "mine" => row.owner = Me

Listed == {r \in Rows : rows[r] # Nil /\ Matches(rows[r])}

(* DeleteLink takes a link, and by the cascade its log; no operation       *)
(* deletes a user.                                                         *)
Remove(r) ==
    /\ list # "users"
    /\ rows[r] # Nil
    /\ rows' = [rows EXCEPT ![r] = Nil]
    /\ gone' = gone \cup {r}
    /\ removed' = IF pc = "idle" THEN {} ELSE removed \cup ({r} \cap Listed)
    /\ UNCHANGED <<list, inserting, now, walk, began, seen, tied>>

Tick ==
    /\ now < MaxAt
    /\ now' = now + 1
    /\ UNCHANGED <<list, rows, inserting, gone, walk, history>>

-----------------------------------------------------------------------------
(* One query *)

QueryInt(v, default) == IF v = Nil THEN default ELSE IF v < 0 THEN default ELSE v

ServiceLimit(l) == IF l <= 0 THEN DefaultLimit ELSE l

Newer(r) == {s \in Listed : rows[s].at > rows[r].at}

(* Faulty variant: no ORDER BY. *)
OrdersAny == Bijection(Listed, 0..(Cardinality(Listed) - 1))

(* ORDER BY ... DESC: the row numbers that the database may give; rows     *)
(* with one time stamp come in any order, and not the same in each query.  *)
Orders ==
    {rank \in Bijection(Listed, 0..(Cardinality(Listed) - 1)) :
        \A r, s \in Listed : rows[r].at > rows[s].at => rank[r] < rank[s]}

(* Faulty variant: the placeholder of OFFSET gets the next argument's      *)
(* number and the clause is lost.                                          *)
BetweenNoOffset(rank, l, o) == {r \in DOMAIN rank : rank[r] < l}

(* LIMIT l OFFSET o *)
Between(rank, l, o) == {r \in DOMAIN rank : o <= rank[r] /\ rank[r] < o + l}

(* The links' repository leaves out LIMIT 0 and OFFSET 0. *)
SelectLinks(rank, l, o) ==
    IF l > 0 THEN Between(rank, l, IF o > 0 THEN o ELSE 0)
             ELSE {r \in DOMAIN rank : o > 0 => o <= rank[r]}

ListLinks(rank, l, o)      == SelectLinks(rank, ServiceLimit(l), o)
ListMyLinks(rank, l, o)    == SelectLinks(rank, ServiceLimit(l), o)
ListUsers(rank, l, o)      == Between(rank, ServiceLimit(l), o)
ListAccessLogs(rank, l, o) == Between(rank, ServiceLimit(l), o)

(* GET /links *)
List(rank, l, o) == ListMyLinks(rank, QueryInt(l, DefaultLimit), QueryInt(o, 0))

(* The answers of the handlers to the parameters l and o. *)
Answer(rank, l, o) ==
    CASE list = "links" -> ListLinks(rank, QueryInt(l, DefaultLimit), QueryInt(o, 0))
      [] list = "mine"  -> List(rank, l, o)
      [] list = "users" -> ListUsers(rank, QueryInt(l, DefaultLimit), QueryInt(o, 0))
      [] list = "logs"  -> ListAccessLogs(rank, QueryInt(l, LogsLimit), QueryInt(o, 0))

-----------------------------------------------------------------------------
(* A walk *)

BeginWalk(l) ==
    /\ pc = "idle"
    /\ pc' = "ask"
    /\ limit' = l
    /\ began' = Listed
    /\ UNCHANGED <<list, table, offset, page, seen, tied, removed>>

Tied == {r \in Listed : \E s \in Listed \ {r} : rows[s].at = rows[r].at}

(* A query that fails is asked again. *)
Query ==
    /\ pc = "ask"
    /\ \E rank \in Orders : page' = Answer(rank, limit, offset)
    /\ pc' = "answered"
    /\ tied' = tied \cup Tied
    /\ UNCHANGED <<list, table, limit, offset, began, seen, removed>>

LoseAnswer ==
    /\ pc = "answered"
    /\ pc' = "ask"
    /\ page' = {}
    /\ UNCHANGED <<list, table, limit, offset, history>>

(* The client goes on after the rows it was given, until there are none.   *)
(* MaxOffset bounds a walk whose pages would never be empty: the number of *)
(* rows there ever were, beyond which no page of the list begins.          *)
MaxOffset == Cardinality(gone \cup {r \in Rows : rows[r] # Nil})

Receive ==
    /\ pc = "answered"
    /\ page # {}
    /\ offset + Cardinality(page) <= MaxOffset
    /\ pc' = "ask"
    /\ offset' = offset + Cardinality(page)
    /\ seen' = seen \cup page
    /\ page' = {}
    /\ UNCHANGED <<list, table, limit, began, tied, removed>>

EndWalk ==
    /\ pc = "answered"
    /\ page = {}
    /\ NoWalk
    /\ UNCHANGED <<list, table>>

-----------------------------------------------------------------------------
(* Specification *)

Next ==
    \/ \E r \in Rows, owner \in Owners : BeginInsert(r, owner)
    \/ \E r \in Rows : CommitInsert(r) \/ Remove(r)
    \/ Tick
    \/ \E l \in Asked : BeginWalk(l)
    \/ Query
    \/ LoseAnswer
    \/ Receive
    \/ EndWalk

Spec == Init /\ [][Next]_vars

(* The server answers, and not every answer is lost. *)
FairSpec == Spec /\ WF_vars(Query) /\ SF_vars(Receive) /\ SF_vars(EndWalk)

-----------------------------------------------------------------------------
(* Properties *)

TypeOK ==
    /\ list \in Lists
    /\ now \in 0..MaxAt
    /\ rows \in [Rows -> Row \cup {Nil}]
    /\ inserting \in [Rows -> Row \cup {Nil}]
    /\ limit \in Asked \cup {Nil}
    /\ offset \in Nat
    /\ page \subseteq Rows
    /\ pc \in PCs
    /\ began \subseteq Rows
    /\ seen \subseteq Rows
    /\ tied \subseteq Rows
    /\ removed \subseteq Rows
    /\ gone \subseteq Rows

(* Rows above the first n that the walk has not shown: there from its      *)
(* beginning, with a time stamp of their own.                              *)
Passed(shown, n) ==
    {r \in (began \cap Listed) \ (shown \cup tied) : Cardinality(Newer(r)) < n}

SkipsOnlyForRemovals ==
    /\ Cardinality(Passed(seen, offset)) <= Cardinality(removed)
    /\ Cardinality(Passed(seen \cup page, offset + Cardinality(page)))
         <= Cardinality(removed)

(* Rows there from the beginning of the walk to now, with a time stamp of  *)
(* their own, that no answer carried.                                      *)
Unshown == (began \cap Listed) \ (seen \cup tied)

(* The walk ends with the page that is empty.                              *)
EndsInFull == pc = "answered" /\ page = {} => Cardinality(Unshown) <= Cardinality(removed)

(* A walk misses no more rows than were removed under it, on its way and   *)
(* when it has come to its end: new rows, however they commit, make it     *)
(* repeat rows and never skip one, and no page ends the walk before its    *)
(* time, so that the list of users, which only grows, is shown in full.    *)
(* The same holds when the answer under way is counted.                    *)
MissesOnlyForRemovals == SkipsOnlyForRemovals /\ EndsInFull

(* A walk ends, whatever limit was asked for: no page is full for ever.    *)
WalkEnds == pc # "idle" ~> pc = "idle"
===========================================================================
