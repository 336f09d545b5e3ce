--------------------------- MODULE AuthService ---------------------------
(* internal/core/auth_service.go under concurrent requests: accounts and   *)
(* refresh tokens.  A handler's step is one statement, one transaction end *)
(* or one reading of the clock; the purge worker of cmd/api/main.go, the   *)
(* clock and a crash interleave with them.                                 *)
EXTENDS RefreshTokenRepository

CONSTANTS
    MaxNow,     \* bound on the clock
    Failures    \* TRUE: database calls may fail and the process may crash

ASSUME AuthBoundsAssumption == MaxNow \in Nat /\ Failures \in BOOLEAN

VARIABLES
    now,        \* time.Now(), and the database's NOW()
    users,      \* usernames that have a row in users
    issued,     \* token ids generated so far
    pc,         \* pc[h] is the call handler h is about to make
    req         \* req[h] is the handler's request and its local variables

(* History, read by no guard except held: raw tokens are unguessable. *)
VARIABLES
    held,       \* tokens some response carried
    committed,  \* tokens whose row was ever committed
    parent,     \* parent[c]: the token whose rotation stored c, or Nil
    ended       \* tokens whose rotation was committed or logout acknowledged

tables  == <<tokens, locks, users>>
history == <<held, committed, parent, ended>>
vars    == <<tables, now, issued, pc, req, history>>

(* user: the account; token: the refresh token presented; stored: the copy *)
(* of its row; child: the id of the token to store; row: its row, in the   *)
(* transaction; late: the token was spent on arrival (history).            *)
NoRequest == [user |-> Nil, token |-> Nil, stored |-> Nil, child |-> Nil,
              row |-> Nil, late |-> FALSE]

Request == [user : Users \cup {Nil}, token : Tokens \cup {Nil},
            stored : RefreshToken \cup {Nil}, child : Tokens \cup {Nil},
            row : RefreshToken \cup {Nil}, late : BOOLEAN]

Idle == "idle"
SignUpPCs  == {"LookupNewUser", "CreateUser"}
LoginPCs   == {"LookupUser"}
RefreshPCs == {"LookupForRefresh", "CheckRefresh", "GetUser", "InsertChild",
               "UpdateParent", "Commit", "Rollback"}
LogoutPCs  == {"LookupForLogout", "CheckLogout", "UpdateRevoked"}
PCs == {Idle, "StoreToken", "Respond"}
         \cup SignUpPCs \cup LoginPCs \cup RefreshPCs \cup LogoutPCs

TypeOK ==
    /\ tokens \in [Tokens -> RefreshToken \cup {Nil}]
    /\ locks \in [Tokens -> Handlers \cup {Nil}]
    /\ users \subseteq Users
    /\ now \in 0..MaxNow
    /\ issued \subseteq Tokens
    /\ pc \in [Handlers -> PCs]
    /\ req \in [Handlers -> Request]
    /\ held \subseteq Tokens
    /\ committed \subseteq Tokens
    /\ parent \in [Tokens -> Tokens \cup {Nil}]
    /\ ended \subseteq Tokens

Init ==
    /\ TokensInit
    /\ users = {}
    /\ now = 0
    /\ issued = {}
    /\ pc = [h \in Handlers |-> Idle]
    /\ req = [h \in Handlers |-> NoRequest]
    /\ held = {} /\ committed = {} /\ ended = {}
    /\ parent = [id \in Tokens |-> Nil]

Expired(id) == Stored(id) /\ tokens[id].issued_at + TTL <= now

-----------------------------------------------------------------------------
(* Moves of a handler *)

Arrive(h, call, request) ==
    /\ pc[h] = Idle
    /\ pc' = [pc EXCEPT ![h] = call]
    /\ req' = [req EXCEPT ![h] = request]

Goto(h, call) ==
    /\ pc' = [pc EXCEPT ![h] = call]
    /\ UNCHANGED req

Return(h) ==
    /\ pc' = [pc EXCEPT ![h] = Idle]
    /\ req' = [req EXCEPT ![h] = NoRequest]

(* A call that fails, or answers the request with an error. *)
Fail(h) == Failures /\ Return(h)

(* The id that the request may store a token under is fresh. *)
Reserve(id) == id \notin issued /\ issued' = issued \cup {id}

-----------------------------------------------------------------------------
(* SignUp and Login *)

BeginSignUp(h, user, child) ==
    /\ Reserve(child)
    /\ Arrive(h, "LookupNewUser", [NoRequest EXCEPT !.user = user, !.child = child])
    /\ UNCHANGED <<tables, now, history>>

(* A username in use is answered with ErrUsernameTaken. *)
LookupNewUser(h) ==
    /\ pc[h] = "LookupNewUser"
    /\ \/ req[h].user \notin users /\ Goto(h, "CreateUser")
       \/ req[h].user \in users /\ Return(h)
       \/ Fail(h)
    /\ UNCHANGED <<tables, now, issued, history>>

(* username is UNIQUE: the loser of a race gets a plain error. *)
CreateUser(h) ==
    /\ pc[h] = "CreateUser"
    /\ \/ /\ req[h].user \notin users
          /\ users' = users \cup {req[h].user}
          /\ Goto(h, "StoreToken")
       \/ req[h].user \in users /\ Return(h) /\ UNCHANGED users
       \/ Fail(h) /\ users' \in {users, users \cup {req[h].user}}
    /\ UNCHANGED <<tokens, locks, now, issued, history>>

BeginLogin(h, user, child) ==
    /\ Reserve(child)
    /\ Arrive(h, "LookupUser", [NoRequest EXCEPT !.user = user, !.child = child])
    /\ UNCHANGED <<tables, now, history>>

(* The password may be wrong; no operation bans a user. *)
LookupUser(h) ==
    /\ pc[h] = "LookupUser"
    /\ \/ req[h].user \in users /\ Goto(h, "StoreToken")
       \/ Return(h)
    /\ UNCHANGED <<tables, now, issued, history>>

(* issueTokenPair outside a transaction. *)
StoreToken(h) ==
    LET child == req[h].child
        stored == [tokens EXCEPT ![child] = NewToken(req[h].user, now)] IN
    /\ pc[h] = "StoreToken"
    /\ \/ /\ tokens' = stored
          /\ committed' = committed \cup {child}
          /\ Goto(h, "Respond")
       \/ /\ Fail(h)
          /\ \/ tokens' = stored /\ committed' = committed \cup {child}
             \/ UNCHANGED <<tokens, committed>>
    /\ UNCHANGED <<locks, users, now, issued, held, parent, ended>>

(* The token pair leaves for the client, who may be gone. *)
Respond(h) ==
    /\ pc[h] = "Respond"
    /\ \/ held' = held \cup {req[h].child}
       \/ Failures /\ UNCHANGED held
    /\ Return(h)
    /\ UNCHANGED <<tables, now, issued, committed, parent, ended>>

-----------------------------------------------------------------------------
(* RefreshTokens *)

BeginRefresh(h, id, child) ==
    /\ id \in held
    /\ Reserve(child)
    /\ Arrive(h, "LookupForRefresh",
              [NoRequest EXCEPT !.token = id, !.child = child,
                                !.late = id \in ended \/ Expired(id)])
    /\ UNCHANGED <<tables, now, history>>

(* GetByHash, for RefreshTokens and for Logout. *)
Lookup(h, call, next) ==
    /\ pc[h] = call
    /\ \/ /\ pc' = [pc EXCEPT ![h] = next]
          /\ req' = [req EXCEPT ![h].stored = tokens[req[h].token]]
       \/ Fail(h)
    /\ UNCHANGED <<tables, now, issued, history>>

(* Faulty variant: the row is found, and its validity not asked. *)
CheckFoundOnly(h, call, next) ==
    /\ pc[h] = call
    /\ \/ req[h].stored # Nil /\ Goto(h, next)
       \/ req[h].stored = Nil /\ Return(h)
    /\ UNCHANGED <<tables, now, issued, history>>

Check(h, call, next) ==
    LET valid == req[h].stored # Nil /\ IsValid(req[h].stored, now) IN
    /\ pc[h] = call
    /\ \/ valid /\ Goto(h, next)
       \/ ~valid /\ Return(h)
    /\ UNCHANGED <<tables, now, issued, history>>

LookupForRefresh(h) == Lookup(h, "LookupForRefresh", "CheckRefresh")
CheckRefresh(h)     == Check(h, "CheckRefresh", "GetUser")

(* GetByID: user rows are never deleted; IsDeleted is not looked at. *)
GetUser(h) ==
    /\ pc[h] = "GetUser"
    /\ \/ Goto(h, "InsertChild")
       \/ Fail(h)
    /\ UNCHANGED <<tables, now, issued, history>>

(* Faulty variant: a repository that ignores the transaction in the        *)
(* context, so that the INSERT commits by itself.                          *)
InsertChildAutocommits(h) ==
    LET row == NewToken(req[h].stored.user_id, now) IN
    /\ pc[h] = "InsertChild"
    /\ tokens' = [tokens EXCEPT ![req[h].child] = row]
    /\ parent' = [parent EXCEPT ![req[h].child] = req[h].token]
    /\ committed' = committed \cup {req[h].child}
    /\ pc' = [pc EXCEPT ![h] = "UpdateParent"]
    /\ req' = [req EXCEPT ![h].row = row]
    /\ UNCHANGED <<locks, users, now, issued, held, ended>>

(* RunInTx begins; the INSERT is seen by no one until the commit. *)
InsertChild(h) ==
    /\ pc[h] = "InsertChild"
    /\ \/ /\ pc' = [pc EXCEPT ![h] = "UpdateParent"]
          /\ req' = [req EXCEPT ![h].row = NewToken(req[h].stored.user_id, now)]
       \/ Failures /\ Goto(h, "Rollback")
    /\ UNCHANGED <<tables, now, issued, history>>

(* ReplacedBy is set to an id of its own, not to the id of the child. *)
Rotated(stored) == [Revoked(stored) EXCEPT !.replaced_by = UnstoredId]

(* The UPDATE waits for the row's lock and keeps it until the transaction  *)
(* ends; it may be refused, fail, or be cancelled while it waits.  A row   *)
(* that is gone is no error and no lock.                                   *)
UpdateParent(h) ==
    LET id == req[h].token
        refused == UpdateRejected(id, Rotated(req[h].stored)) IN
    /\ pc[h] = "UpdateParent"
    /\ \/ /\ Stored(id)
          /\ locks[id] = Nil
          /\ locks' = [locks EXCEPT ![id] = h]
          /\ \/ ~refused /\ Goto(h, "Commit")
             \/ (refused \/ Failures) /\ Goto(h, "Rollback")
       \/ ~Stored(id) /\ Goto(h, "Commit") /\ UNCHANGED locks
       \/ Failures /\ Goto(h, "Rollback") /\ UNCHANGED locks
    /\ UNCHANGED <<tokens, users, now, issued, history>>

Unlock(h) == locks' = [id \in Tokens |-> IF locks[id] = h THEN Nil ELSE locks[id]]

CommitRotation(h) ==
    LET id == req[h].token
        child == req[h].child IN
    /\ tokens' = [t \in Tokens |->
                    IF t = child THEN req[h].row
                    ELSE IF t = id /\ locks[id] = h
                    THEN Written(tokens[id], Rotated(req[h].stored))
                    ELSE tokens[t]]
    /\ committed' = committed \cup {child}
    /\ parent' = [parent EXCEPT ![child] = id]
    /\ ended' = ended \cup {id}

(* Faulty variant: the answer does not depend on the commit's outcome. *)
CommitIgnoresError(h) ==
    /\ pc[h] = "Commit"
    /\ \/ CommitRotation(h)
       \/ Failures /\ UNCHANGED <<tokens, committed, parent, ended>>
    /\ Goto(h, "Respond")
    /\ Unlock(h)
    /\ UNCHANGED <<users, now, issued, held>>

(* A commit that fails may or may not have taken effect. *)
Commit(h) ==
    /\ pc[h] = "Commit"
    /\ \/ CommitRotation(h) /\ Goto(h, "Respond")
       \/ CommitRotation(h) /\ Fail(h)
       \/ Fail(h) /\ UNCHANGED <<tokens, committed, parent, ended>>
    /\ Unlock(h)
    /\ UNCHANGED <<users, now, issued, held>>

(* Faulty variant: RunInTx returns the error and leaves the transaction. *)
RollbackForgotten(h) ==
    /\ pc[h] = "Rollback"
    /\ Return(h)
    /\ UNCHANGED <<tables, now, issued, history>>

Rollback(h) ==
    /\ pc[h] = "Rollback"
    /\ Unlock(h)
    /\ Return(h)
    /\ UNCHANGED <<tokens, users, now, issued, history>>

-----------------------------------------------------------------------------
(* Logout *)

BeginLogout(h, id) ==
    /\ id \in held
    /\ Arrive(h, "LookupForLogout", [NoRequest EXCEPT !.token = id])
    /\ UNCHANGED <<tables, now, issued, history>>

LookupForLogout(h) == Lookup(h, "LookupForLogout", "CheckLogout")
CheckLogout(h)     == Check(h, "CheckLogout", "UpdateRevoked")

(* An autocommitted UPDATE of the copy: it waits for the row's lock, and   *)
(* writes the replaced_by that the copy holds.                             *)
UpdateRevoked(h) ==
    LET id == req[h].token
        write == tokens' = [tokens EXCEPT ![id] =
                     IF @ = Nil THEN Nil ELSE Written(@, Revoked(req[h].stored))] IN
    /\ pc[h] = "UpdateRevoked"
    /\ locks[id] = Nil
    /\ \/ /\ write
          /\ ended' = ended \cup {id}
          /\ Return(h)
       \/ /\ Fail(h)
          /\ write \/ UNCHANGED tokens
          /\ UNCHANGED ended
    /\ UNCHANGED <<locks, users, now, issued, held, committed, parent>>

-----------------------------------------------------------------------------
(* The environment *)

(* The hourly worker; a tick that finds nothing or fails changes nothing. *)
Purge ==
    /\ \E id \in Tokens : Purgeable(id, now)
    /\ DeleteExpiredAndRevoked(now)
    /\ UNCHANGED <<users, now, issued, pc, req, history>>

Tick ==
    /\ now < MaxNow
    /\ now' = now + 1
    /\ UNCHANGED <<tables, issued, pc, req, history>>

(* The database rolls back the transactions of a process that dies. *)
Crash ==
    /\ Failures
    /\ pc' = [h \in Handlers |-> Idle]
    /\ req' = [h \in Handlers |-> NoRequest]
    /\ locks' = [id \in Tokens |-> Nil]
    /\ UNCHANGED <<tokens, users, now, issued, history>>

-----------------------------------------------------------------------------
(* Specification *)

HandlerStep(h) ==
    \/ LookupNewUser(h) \/ CreateUser(h) \/ LookupUser(h)
    \/ StoreToken(h) \/ Respond(h)
    \/ LookupForRefresh(h) \/ CheckRefresh(h) \/ GetUser(h) \/ InsertChild(h)
    \/ UpdateParent(h) \/ Commit(h) \/ Rollback(h)
    \/ LookupForLogout(h) \/ CheckLogout(h) \/ UpdateRevoked(h)

Arrival(h) ==
    \/ \E user \in Users, child \in Tokens :
          BeginSignUp(h, user, child) \/ BeginLogin(h, user, child)
    \/ \E id \in Tokens, child \in Tokens : BeginRefresh(h, id, child)
    \/ \E id \in Tokens : BeginLogout(h, id)

Next ==
    \/ \E h \in Handlers : Arrival(h) \/ HandlerStep(h)
    \/ Purge
    \/ Tick
    \/ Crash

Spec == Init /\ [][Next]_vars

-----------------------------------------------------------------------------
(* Safety *)

Alive(id) == Stored(id) /\ IsValid(tokens[id], now)

(* RunInTx: a rotated token and its replacement are never good at the same *)
(* time, through failures of any step, old copies written by Logout, and   *)
(* the purge.                                                              *)
RotationAtomic ==
    \A c \in Tokens : (Stored(c) /\ parent[c] # Nil) => ~Alive(parent[c])

(* A refresh that arrives after its token was rotated, logged out or       *)
(* expired never reaches the transaction.                                  *)
NoLateRotation ==
    \A h \in Handlers :
        pc[h] \in RefreshPCs \ {"LookupForRefresh", "CheckRefresh"} => ~req[h].late

(* Nothing brings an ended token back: no old copy written by Update. *)
EndedStaysEnded == \A id \in ended : ~Alive(id)

(* A response carries only tokens the table has seen: a rolled back        *)
(* rotation leaks nothing to the client.                                   *)
HeldWasCommitted ==
    /\ held \subseteq committed
    /\ \A h \in Handlers : pc[h] = "Respond" => req[h].child \in committed

(* A good session ends by its own token, presented to Logout or to         *)
(* RefreshTokens, or by the clock: never by the purge or by the rotation   *)
(* of another token.                                                       *)
SessionEndsByHolder ==
    [][\A id \in Tokens : (Alive(id) /\ ~Alive(id)') =>
          \/ now' # now
          \/ \E h \in Handlers : /\ pc[h] \in {"Commit", "UpdateRevoked"}
                                 /\ req[h].token = id]_vars

(* No deadlock: a row's lock belongs to a transaction that was started for *)
(* that row and has only to end.  Updates and purges that wait for a row   *)
(* so wait for a request that itself waits for nothing.                    *)
WaitsEnd ==
    \A id \in Tokens : locks[id] # Nil =>
        /\ pc[locks[id]] \in {"Commit", "Rollback"}
        /\ req[locks[id]].token = id

(* Calls made with an id under which no row was ever committed. *)
FreshPCs == SignUpPCs \cup LoginPCs \cup RefreshPCs \cup {"StoreToken"}

(* What a handler's variables hold at each of its calls. *)
LocalsFit(h) ==
    /\ req[h].child # Nil => req[h].child \in issued
    /\ pc[h] \in FreshPCs => req[h].child \in Tokens \ committed
    /\ pc[h] \in SignUpPCs \cup LoginPCs \cup {"StoreToken"} => req[h].user # Nil
    /\ pc[h] \in RefreshPCs \cup LogoutPCs => req[h].token \in committed
    /\ pc[h] \in {"GetUser", "InsertChild", "UpdateParent", "Commit", "UpdateRevoked"}
          => req[h].stored # Nil
    /\ pc[h] \in {"UpdateParent", "Commit"} => req[h].row # Nil
    /\ pc[h] = "Commit" => (Stored(req[h].token) => locks[req[h].token] = h)

(* A request that came too late for its token meets a row, or has read a   *)
(* copy, that is no longer good.                                           *)
LateRefused(h) ==
    (pc[h] \in RefreshPCs /\ req[h].late) =>
        /\ pc[h] \in {"LookupForRefresh", "CheckRefresh"}
        /\ ~Alive(req[h].token)
        /\ pc[h] = "CheckRefresh" =>
              req[h].stored = Nil \/ ~IsValid(req[h].stored, now)

(* An id names one row: it is given to one request, and its row is         *)
(* committed once, with no way back from the purge.                        *)
IdsUnique ==
    /\ committed \subseteq issued
    /\ \A id \in Tokens : Stored(id) => id \in committed
    /\ \A h, g \in Handlers :
          h # g /\ req[h].child # Nil => req[h].child # req[g].child

(* The inductive invariant: what is committed, held, replaced and locked   *)
(* fits what the requests under way have read and are about to write.      *)
AuthInv ==
    /\ TypeOK /\ IdsUnique /\ HeldWasCommitted
    /\ ended \subseteq committed /\ EndedStaysEnded
    /\ \A id \in Tokens : locks[id] # Nil => Stored(id)
    /\ \A c \in Tokens : parent[c] # Nil => c \in committed /\ parent[c] \in ended
    /\ \A h \in Handlers : LocalsFit(h) /\ LateRefused(h)

-----------------------------------------------------------------------------
(* Refinement: the service implements TokenLineage *)

(* A request claims its token from the read of a valid row on. *)
Claims(h, id) ==
    /\ req[h].token = id
    /\ \/ pc[h] = "CheckRefresh" /\ req[h].stored # Nil
                                 /\ IsValid(req[h].stored, now)
       \/ pc[h] \in {"GetUser", "InsertChild", "UpdateParent", "Commit"}

TokenPhase ==
    [id \in Tokens |-> IF id \notin committed THEN "unborn"
                       ELSE IF Alive(id) THEN "good" ELSE "ended"]
TokenClaims == [id \in Tokens |-> {h \in Handlers : Claims(h, id)}]

Lineage == INSTANCE TokenLineage WITH
    Requests <- Handlers, phase <- TokenPhase, claims <- TokenClaims

(* Every behaviour of the four operations, the purge and the clock maps to *)
(* issuing, claiming, replacing and ending tokens: no token comes back,    *)
(* none is issued to a request that did not see a good one, and none is    *)
(* left good by its replacement.                                           *)
ImplementsTokenLineage == Lineage!LSpec

-----------------------------------------------------------------------------
(* What the documentation says of sessions *)

(* refresh.bru: a token pair for a good token, 401 for an already-used one.*)
(* A rotation that nothing fails returns its pair.                         *)
RefreshReturnsPair ==
    [][\A h \in Handlers : pc[h] = "UpdateParent" => pc'[h] # "Rollback"]_vars
===========================================================================
