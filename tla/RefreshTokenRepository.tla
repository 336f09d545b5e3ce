---------------------- MODULE RefreshTokenRepository ----------------------
(* The table refresh_tokens behind adapters/postgres and the token entity  *)
(* of internal/domain/user.go.  The table holds what is committed; a       *)
(* transaction holds its row locks until it ends.                          *)
EXTENDS Integers

CONSTANTS
    Tokens,         \* row ids; the raw token is an injective image of the id
    Users,          \* usernames
    Handlers,       \* request goroutines
    Nil,            \* SQL's NULL
    UnstoredId,     \* a generated uuid that is the id of no row
    TTL,            \* refreshTokenTTL, in clock ticks
    PurgeAge,       \* age from which the hourly worker deletes tokens
    ReplacedByFK    \* TRUE: replaced_by REFERENCES refresh_tokens(id)

ASSUME TokenIdsAssumption ==
    /\ Nil \notin Tokens \cup Users \cup Handlers \cup {UnstoredId}
    /\ UnstoredId \notin Tokens
ASSUME TokenTimesAssumption == TTL \in Nat \ {0} /\ PurgeAge \in Nat
ASSUME ReplacedByFKAssumption == ReplacedByFK \in BOOLEAN

VARIABLES
    tokens,     \* tokens[id] is the committed row, or Nil
    locks       \* locks[id] is the transaction that updated the row, or Nil

RefreshToken == [user_id     : Users,
                 issued_at   : Int,
                 revoked     : BOOLEAN,     \* revoked_at IS NOT NULL
                 replaced_by : {Nil, UnstoredId}]

ASSUME NilNoTokenAssumption == Nil \notin RefreshToken

TokensInit ==
    /\ tokens = [id \in Tokens |-> Nil]
    /\ locks = [id \in Tokens |-> Nil]

Stored(id) == tokens[id] # Nil

IsValid(token, now) == ~token.revoked /\ token.issued_at + TTL > now

Revoked(token) == [token EXCEPT !.revoked = TRUE]

NewToken(user, now) ==
    [user_id |-> user, issued_at |-> now, revoked |-> FALSE, replaced_by |-> Nil]

(* Faulty variant: an UPDATE that leaves out revoked_at. *)
WrittenWithoutRevoked(row, token) == [row EXCEPT !.replaced_by = token.replaced_by]

(* A row after UPDATE: revoked_at and replaced_by of the caller's copy. *)
Written(row, token) ==
    [row EXCEPT !.revoked = token.revoked, !.replaced_by = token.replaced_by]

(* The constraint looks at a changed, non-null reference. *)
UpdateRejected(id, token) ==
    /\ ReplacedByFK
    /\ Stored(id)
    /\ token.replaced_by \notin {Nil, tokens[id].replaced_by}
    /\ token.replaced_by \in Tokens => ~Stored(token.replaced_by)

(* Faulty variant: the cutoff joined with OR. *)
PurgeableByAge(id, now) ==
    /\ Stored(id)
    /\ \/ tokens[id].revoked
       \/ tokens[id].issued_at + TTL < now
       \/ tokens[id].issued_at < now - PurgeAge

Purgeable(id, now) ==
    /\ Stored(id)
    /\ tokens[id].revoked \/ tokens[id].issued_at + TTL < now
    /\ tokens[id].issued_at < now - PurgeAge

(* The DELETE waits for the transactions that hold its rows. *)
DeleteExpiredAndRevoked(now) ==
    /\ \A id \in Tokens : Purgeable(id, now) => locks[id] = Nil
    /\ tokens' = [id \in Tokens |-> IF Purgeable(id, now) THEN Nil ELSE tokens[id]]
    /\ UNCHANGED locks
===========================================================================
