---------------------------- MODULE LinkDomain ----------------------------
(* The link entity of internal/domain/link.go: its fields, its status and  *)
(* the pure part of its methods.  time.Now() is a parameter, because every *)
(* method of the source reads the clock anew.                              *)
EXTENDS Integers

CONSTANTS
    Links,      \* row ids; the slug is an injective encoding of the id
    Keys,       \* access keys, identified with their SHA-256
    Users,      \* authenticated user ids
    Nil         \* Go's nil, SQL's NULL

StatusWaiting == "WAITING"
StatusOpened  == "OPENED"
StatusExpired == "EXPIRED"
LinkStatus    == {StatusWaiting, StatusOpened, StatusExpired}

Secret == "ciphertext"
Erased == ""

Link == [hashed_key    : Keys,
         ciphered_text : {Secret, Erased},
         expires_at    : Int \cup {Nil},
         status        : LinkStatus,
         created_by    : Users \cup {Nil}]

ASSUME NilAssumption ==
    Nil \notin Links \cup Keys \cup Users \cup Int \cup Link

IsExpired(link, now) == link.expires_at # Nil /\ link.expires_at < now

CanAccess(link, now) == link.status = StatusWaiting /\ ~IsExpired(link, now)

(* Faulty variants of Open: the status forgotten, the text kept.           *)
OpenedStatusForgotten(link) == [link EXCEPT !.ciphered_text = Erased]
OpenedTextKept(link) == [link EXCEPT !.status = StatusOpened]

(* Open's two guards re-examine the status and the clock. *)
OpenSucceeds(link, now) == link.status = StatusWaiting /\ ~IsExpired(link, now)
Opened(link) == [link EXCEPT !.status = StatusOpened, !.ciphered_text = Erased]

InvalidateSucceeds(link) == link.status # StatusOpened
Invalidated(link) == [link EXCEPT !.status = StatusExpired]
===========================================================================
