----------------------------- MODULE Accounts -----------------------------
(* Who may sign in to an account and who is an administrator: the account  *)
(* half of internal/core/auth_service.go, internal/core/                   *)
(* admin_user_service.go, and the access tokens of                         *)
(* adapters/token_manager.go that carry id and role past the middleware.   *)
(* A handler's step is one repository call.  Refresh tokens, whose rows    *)
(* AuthService models, are good or refused here as they like.              *)
EXTENDS UserRepository

CONSTANTS
    Handlers,   \* request goroutines
    Failures    \* TRUE: database calls may fail and the process may crash

ASSUME AccountsBoundsAssumption == Failures \in BOOLEAN
ASSUME NilNoHandlerAssumption == Nil \notin Handlers

VARIABLES
    access,     \* access tokens in somebody's hands that have not expired
    sessions,   \* refresh tokens in somebody's hands, by account
    pc,         \* pc[h] is the call handler h is about to make
    req         \* req[h] is the handler's request and its local variables

(* History, read by no guard. *)
VARIABLES
    promoted    \* accounts whose promotion was acknowledged

vars == <<users, access, sessions, pc, req, promoted>>

AccessToken == [holder : Clients, user : Ids, role : Roles]
Session     == [holder : Clients, user : Ids]

(* client: who asks; name: the username given; user: the account signed in *)
(* to, or the administrator of a grant; target: the account to promote;    *)
(* copy: the row read; late: the account's promotion was acknowledged when *)
(* the request arrived (history).                                          *)
NoRequest == [client |-> Nil, name |-> Nil, user |-> Nil, target |-> Nil,
              copy |-> Nil, late |-> FALSE]
Request == [client : Clients \cup {Nil}, name : Names \cup {Nil},
            user : Ids \cup {Nil}, target : Ids \cup {Nil},
            copy : User \cup {Nil}, late : BOOLEAN]

Idle == "idle"
PCs == {Idle, "LookupNewUser", "CreateUser", "LookupUser", "GetUser",
        "IssuePair", "GetTarget", "UpdateRole"}

Init ==
    /\ UsersInit
    /\ access = {}
    /\ sessions = {}
    /\ pc = [h \in Handlers |-> Idle]
    /\ req = [h \in Handlers |-> NoRequest]
    /\ promoted = {}

IsAdmin(id) == Exists(id) /\ users[id].role = RoleAdmin

-----------------------------------------------------------------------------
(* Moves of a handler *)

Arrive(h, call, request) ==
    /\ pc[h] = Idle
    /\ pc' = [pc EXCEPT ![h] = call]
    /\ req' = [req EXCEPT ![h] = request]
    /\ UNCHANGED <<users, access, sessions, promoted>>

Continue(h, call, request) ==
    /\ pc' = [pc EXCEPT ![h] = call]
    /\ req' = [req EXCEPT ![h] = request]

Return(h) ==
    /\ pc' = [pc EXCEPT ![h] = Idle]
    /\ req' = [req EXCEPT ![h] = NoRequest]

Fail(h) == Failures /\ Return(h)

-----------------------------------------------------------------------------
(* SignUp *)

BeginSignUp(h, c, name) ==
    Arrive(h, "LookupNewUser", [NoRequest EXCEPT !.client = c, !.name = name])

(* A username in use is answered with ErrUsernameTaken. *)
LookupNewUser(h) ==
    /\ pc[h] = "LookupNewUser"
    /\ \/ ByUsername(req[h].name) = {} /\ Continue(h, "CreateUser", req[h])
       \/ ByUsername(req[h].name) # {} /\ Return(h)
       \/ Fail(h)
    /\ UNCHANGED <<users, access, sessions, promoted>>

NewUser(h) == [username |-> req[h].name, password |-> req[h].client,
               role |-> RoleUser]

(* The loser of a race for the name gets a plain error; an INSERT that     *)
(* fails may have stored the account.                                      *)
CreateUser(h) ==
    /\ pc[h] = "CreateUser"
    /\ \/ \E id \in Ids :
             /\ ~CreateConflicts(id, NewUser(h))
             /\ Create(id, NewUser(h))
             /\ \/ Continue(h, "IssuePair", [req[h] EXCEPT !.user = id,
                                                           !.copy = NewUser(h)])
                \/ Fail(h)
       \/ ByUsername(req[h].name) # {} /\ Return(h) /\ UNCHANGED users
       \/ Fail(h) /\ UNCHANGED users
    /\ UNCHANGED <<access, sessions, promoted>>

-----------------------------------------------------------------------------
(* Login and RefreshTokens *)

BeginLogin(h, c, name) ==
    Arrive(h, "LookupUser",
           [NoRequest EXCEPT !.client = c, !.name = name,
                             !.late = ByUsername(name) \cap promoted # {}])

(* Faulty variant: the hash is read and not compared. *)
VerifyFound(password, user) == TRUE

Verify(password, user) == user.password = password

LookupUser(h) ==
    /\ pc[h] = "LookupUser"
    /\ \/ \E id \in ByUsername(req[h].name) :
             /\ Verify(req[h].client, users[id])
             /\ Continue(h, "IssuePair", [req[h] EXCEPT !.user = id,
                                                        !.copy = users[id]])
       \/ /\ \A id \in ByUsername(req[h].name) : ~Verify(req[h].client, users[id])
          /\ Return(h)
       \/ Fail(h)
    /\ UNCHANGED <<users, access, sessions, promoted>>

BeginRefresh(h, s) ==
    /\ s \in sessions
    /\ Arrive(h, "GetUser",
              [NoRequest EXCEPT !.client = s.holder, !.user = s.user,
                                !.late = s.user \in promoted])

(* GetByHash may find the token refused, or fail; the role is that of the  *)
(* row that GetByID finds.                                                 *)
GetUser(h) ==
    /\ pc[h] = "GetUser"
    /\ \/ /\ Exists(req[h].user)
          /\ Continue(h, "IssuePair", [req[h] EXCEPT !.copy = users[req[h].user]])
       \/ Return(h)
    /\ UNCHANGED <<users, access, sessions, promoted>>

(* GenerateAccessToken writes the role of the copy into the token. *)
Claims(h) == [holder |-> req[h].client, user |-> req[h].user,
              role |-> req[h].copy.role]

(* issueTokenPair and the answer: the refresh token may not be stored, the *)
(* client may be gone.                                                     *)
IssuePair(h) ==
    /\ pc[h] = "IssuePair"
    /\ \/ /\ access' = access \cup {Claims(h)}
          /\ sessions' = sessions \cup {[holder |-> req[h].client,
                                         user |-> req[h].user]}
       \/ Failures /\ UNCHANGED <<access, sessions>>
    /\ Return(h)
    /\ UNCHANGED <<users, promoted>>

-----------------------------------------------------------------------------
(* GrantAdmin *)

(* Faulty variant: RequireAuth alone. *)
RequireAuthOnly(t) == t \in access

(* AuthMiddleware, RequireAuth and RequireAdmin look at the token, and at  *)
(* no row; the others are answered with 401 and 403.                       *)
RequireAdmin(t) == t \in access /\ t.role = RoleAdmin

BeginGrant(h, t, target) ==
    /\ RequireAdmin(t)
    /\ Arrive(h, "GetTarget", [NoRequest EXCEPT !.client = t.holder,
                                                !.user = t.user,
                                                !.target = target])

GetTarget(h) ==
    /\ pc[h] = "GetTarget"
    /\ \/ /\ Exists(req[h].target)
          /\ Continue(h, "UpdateRole", [req[h] EXCEPT !.copy = users[req[h].target]])
       \/ ~Exists(req[h].target) /\ Return(h)
       \/ Fail(h)
    /\ UNCHANGED <<users, access, sessions, promoted>>

Granted(copy) == [copy EXCEPT !.role = RoleAdmin]

(* Faulty variant: 204 whatever became of the UPDATE. *)
UpdateRoleIgnoresError(h) ==
    /\ pc[h] = "UpdateRole"
    /\ \/ Update(req[h].target, Granted(req[h].copy))
       \/ Failures /\ UNCHANGED users
    /\ promoted' = promoted \cup {req[h].target}
    /\ Return(h)
    /\ UNCHANGED <<access, sessions>>

UpdateRole(h) ==
    /\ pc[h] = "UpdateRole"
    /\ \/ /\ Update(req[h].target, Granted(req[h].copy))
          /\ promoted' = promoted \cup {req[h].target}
          /\ Return(h)
       \/ /\ Update(req[h].target, Granted(req[h].copy)) \/ UNCHANGED users
          /\ Fail(h)
          /\ UNCHANGED promoted
    /\ UNCHANGED <<access, sessions>>

-----------------------------------------------------------------------------
(* The environment *)

(* The first administrator is made by hand: no endpoint makes one. *)
OperatorPromotes(id) ==
    /\ Exists(id) /\ ~IsAdmin(id)
    /\ users' = [users EXCEPT ![id].role = RoleAdmin]
    /\ promoted' = promoted \cup {id}
    /\ UNCHANGED <<access, sessions, pc, req>>

(* ValidateAccessToken refuses a token fifteen minutes after its issue. *)
Expire(t) ==
    /\ access' = access \ {t}
    /\ UNCHANGED <<users, sessions, pc, req, promoted>>

Crash ==
    /\ Failures
    /\ pc' = [h \in Handlers |-> Idle]
    /\ req' = [h \in Handlers |-> NoRequest]
    /\ UNCHANGED <<users, access, sessions, promoted>>

-----------------------------------------------------------------------------
(* Specification *)

Arrival(h) ==
    \/ \E c \in Clients, name \in Names :
          BeginSignUp(h, c, name) \/ BeginLogin(h, c, name)
    \/ \E s \in sessions : BeginRefresh(h, s)
    \/ \E t \in access, target \in Ids : BeginGrant(h, t, target)

HandlerStep(h) ==
    \/ LookupNewUser(h) \/ CreateUser(h)
    \/ LookupUser(h) \/ GetUser(h) \/ IssuePair(h)
    \/ GetTarget(h) \/ UpdateRole(h)

Next ==
    \/ \E h \in Handlers : Arrival(h) \/ HandlerStep(h)
    \/ \E id \in Ids : OperatorPromotes(id)
    \/ \E t \in access : Expire(t)
    \/ Crash

Spec == Init /\ [][Next]_vars

-----------------------------------------------------------------------------
(* Safety *)

TypeOK ==
    /\ users \in [Ids -> User \cup {Nil}]
    /\ access \subseteq AccessToken
    /\ sessions \subseteq Session
    /\ pc \in [Handlers -> PCs]
    /\ req \in [Handlers -> Request]
    /\ promoted \subseteq Ids

(* Two sign-ups that both found the name free never both store an account. *)
OneAccountPerName ==
    \A i, j \in Ids :
        Exists(i) /\ Exists(j) /\ users[i].username = users[j].username => i = j

Owns(c, id) == Exists(id) /\ users[id].password = c

(* Tokens of an account go to the client whose password it stores: not to  *)
(* the loser of a race for the name, nor, after a grant wrote back its     *)
(* copy of the whole row, to anybody else.                                 *)
PairsGoToOwner ==
    /\ \A t \in access : Owns(t.holder, t.user)
    /\ \A s \in sessions : Owns(s.holder, s.user)
    /\ \A h \in Handlers :
          pc[h] \in {"GetUser", "IssuePair"} => Owns(req[h].client, req[h].user)

(* What a handler has read still fits the row when it acts on it: a copy   *)
(* to write back holds the row's password, a role in a copy or in a token  *)
(* may be older than the row and never claims more.                        *)
CopiesFit ==
    /\ \A t \in access : t.role = RoleAdmin => IsAdmin(t.user)
    /\ \A h \in Handlers :
          /\ pc[h] = "IssuePair" =>
                /\ req[h].copy # Nil
                /\ req[h].copy.role = RoleAdmin => IsAdmin(req[h].user)
          /\ pc[h] \in {"GetTarget", "UpdateRole"} =>
                IsAdmin(req[h].user) /\ req[h].target # Nil
          /\ pc[h] = "UpdateRole" =>
                req[h].copy # Nil /\ Owns(req[h].copy.password, req[h].target)

(* A sign-in that arrives after a promotion was acknowledged hands out an  *)
(* administrator's token: an old role lasts no longer than the tokens and  *)
(* the requests of the time before.                                        *)
RoleIsCurrent ==
    \A h \in Handlers :
        pc[h] = "IssuePair" /\ req[h].late => req[h].copy.role = RoleAdmin

(* The part of an inductive invariant that is about requests under way.    *)
PromotionsHold ==
    /\ \A id \in promoted : IsAdmin(id)
    /\ \A h \in Handlers : req[h].late =>
          /\ pc[h] \notin {"LookupNewUser", "CreateUser"}
          /\ pc[h] = "LookupUser" => ByUsername(req[h].name) \cap promoted # {}
          /\ pc[h] = "GetUser" => req[h].user \in promoted

(* What the calls of a request need is there. *)
LocalsFilled ==
    \A h \in Handlers :
        /\ pc[h] \in {"LookupNewUser", "CreateUser", "LookupUser"} => req[h].name # Nil
        /\ pc[h] \in PCs \ {Idle} => req[h].client # Nil
        /\ pc[h] \in {"GetUser", "IssuePair", "GetTarget", "UpdateRole"} =>
              req[h].user # Nil

(* The table, the tokens and the copies in flight agree, through races for *)
(* a name, failed statements that took effect, stale copies and crashes.   *)
AccountsInv ==
    TypeOK /\ OneAccountPerName /\ LocalsFilled /\ CopiesFit /\ PromotionsHold

(* A role changes in one way: from user to administrator, by the operator  *)
(* or by the request of somebody who is an administrator when the row      *)
(* changes, although only the token was asked; no old copy takes it back.  *)
RolesByAdmins ==
    [][\A id \in Ids :
          /\ IsAdmin(id) => IsAdmin(id)'
          /\ ~IsAdmin(id) /\ IsAdmin(id)' =>
                \/ OperatorPromotes(id)
                \/ \E h \in Handlers : /\ pc[h] = "UpdateRole"
                                       /\ req[h].target = id
                                       /\ IsAdmin(req[h].user)]_vars
===========================================================================
