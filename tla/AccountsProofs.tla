-------------------------- MODULE AccountsProofs --------------------------
(* Proofs of the safety of Accounts, for any number of accounts, names,    *)
(* people and requests, and for failures of any call.                      *)
EXTENDS Accounts, TLAPS

USE DEF Idle, RoleUser, RoleAdmin, Roles, PCs

(* All that the run checks of the states: together it is inductive.        *)
IInv == AccountsInv /\ PairsGoToOwner /\ RoleIsCurrent

-----------------------------------------------------------------------------
(* The invariant by parts: the tokens, and each request *)

TokensFit ==
    /\ \A t \in access : Owns(t.holder, t.user) /\ (t.role = RoleAdmin => IsAdmin(t.user))
    /\ \A s \in sessions : Owns(s.holder, s.user)
    /\ \A id \in promoted : IsAdmin(id)

Filled(h) ==
    /\ pc[h] \in {"LookupNewUser", "CreateUser", "LookupUser"} => req[h].name \in Names
    /\ pc[h] # Idle => req[h].client \in Clients
    /\ pc[h] \in {"GetUser", "IssuePair", "GetTarget", "UpdateRole"} => req[h].user \in Ids

SignInFits(h) ==
    /\ pc[h] \in {"GetUser", "IssuePair"} => Owns(req[h].client, req[h].user)
    /\ pc[h] = "IssuePair" =>
          /\ req[h].copy \in User
          /\ req[h].copy.role = RoleAdmin => IsAdmin(req[h].user)
          /\ req[h].late => req[h].copy.role = RoleAdmin
    /\ req[h].late =>
          /\ pc[h] \notin {"LookupNewUser", "CreateUser"}
          /\ pc[h] = "LookupUser" => ByUsername(req[h].name) \cap promoted # {}
          /\ pc[h] = "GetUser" => req[h].user \in promoted

GrantFits(h) ==
    /\ pc[h] \in {"GetTarget", "UpdateRole"} =>
          IsAdmin(req[h].user) /\ req[h].target \in Ids
    /\ pc[h] = "UpdateRole" =>
          req[h].copy \in User /\ Owns(req[h].copy.password, req[h].target)

RequestFits(h) == Filled(h) /\ SignInFits(h) /\ GrantFits(h)

(* The fields of a handler's locals have their types. *)
LEMMA RequestTypes ==
  ASSUME TypeOK, NEW h \in Handlers
  PROVE  /\ req[h] \in Request /\ pc[h] \in PCs
         /\ req[h].client \in Clients \cup {Nil} /\ req[h].name \in Names \cup {Nil}
         /\ req[h].user \in Ids \cup {Nil} /\ req[h].target \in Ids \cup {Nil}
         /\ req[h].copy \in User \cup {Nil} /\ req[h].late \in BOOLEAN
  BY DEF TypeOK, Request

(* The conjuncts sorted by what they are about. *)
LEMMA Parts ==
  TypeOK => (IInv <=> OneAccountPerName /\ TokensFit /\ \A h \in Handlers : RequestFits(h))
<1> SUFFICES ASSUME TypeOK
             PROVE  IInv <=> OneAccountPerName /\ TokensFit
                               /\ \A h \in Handlers : RequestFits(h)
  OBVIOUS
<1>1. ASSUME IInv, NEW h \in Handlers PROVE RequestFits(h)
  <2>1. Filled(h)
    BY <1>1, RequestTypes DEF IInv, AccountsInv, LocalsFilled, Filled
  <2>2. SignInFits(h)
    BY <1>1, RequestTypes
       DEF IInv, AccountsInv, PairsGoToOwner, RoleIsCurrent, CopiesFit, PromotionsHold,
           SignInFits
  <2>3. GrantFits(h)
    BY <1>1, RequestTypes DEF IInv, AccountsInv, CopiesFit, GrantFits
  <2>4. QED
    BY <2>1, <2>2, <2>3 DEF RequestFits
<1>2. IInv => OneAccountPerName /\ TokensFit
  BY DEF IInv, AccountsInv, PairsGoToOwner, CopiesFit, PromotionsHold, TokensFit
<1>3. ASSUME OneAccountPerName, TokensFit, \A h \in Handlers : RequestFits(h)
      PROVE  IInv
  <2>1. LocalsFilled
    BY <1>3, NilNoUserAssumption DEF RequestFits, Filled, LocalsFilled
  <2>2. PairsGoToOwner /\ RoleIsCurrent
    BY <1>3 DEF RequestFits, SignInFits, TokensFit, PairsGoToOwner, RoleIsCurrent
  <2>3. PromotionsHold
    BY <1>3 DEF RequestFits, SignInFits, TokensFit, PromotionsHold
  <2>4. CopiesFit
    BY <1>3, NilNoUserAssumption
       DEF RequestFits, SignInFits, GrantFits, TokensFit, CopiesFit
  <2>5. QED
    BY <1>3, <2>1, <2>2, <2>3, <2>4 DEF IInv, AccountsInv
<1>4. QED
  BY <1>1, <1>2, <1>3

LEMMA PartsNext ==
  (TypeOK => (IInv <=> OneAccountPerName /\ TokensFit /\ \A h \in Handlers : RequestFits(h)))'
  BY Parts, PTL

-----------------------------------------------------------------------------
(* Steps of one handler *)

(* Rows stay, with their name and password; a role is only raised. *)
RowsGrow ==
    \A id \in Ids : Exists(id) =>
        /\ Exists(id)'
        /\ users'[id].username = users[id].username
        /\ users'[id].password = users[id].password
        /\ users[id].role = RoleAdmin => users'[id].role = RoleAdmin

OthersStay(h) ==
    \A g \in Handlers \ {h} : pc'[g] = pc[g] /\ req'[g] = req[g]

Step(h) ==
    /\ TypeOK' /\ OthersStay(h) /\ RowsGrow /\ OneAccountPerName'
    /\ promoted \subseteq promoted'
    /\ TokensFit' /\ RequestFits(h)'

(* A request that waits while rows only grow still fits them. *)
LEMMA WaitingFits ==
  ASSUME TypeOK, RowsGrow, promoted \subseteq promoted', NEW g \in Handlers,
         pc'[g] = pc[g], req'[g] = req[g], RequestFits(g)
  PROVE  RequestFits(g)'
<1>1. /\ \A id \in Ids : \A c : Owns(c, id) => Exists(id)' /\ users'[id].password = c
      /\ \A id \in Ids : IsAdmin(id) => Exists(id)' /\ users'[id].role = RoleAdmin
  BY DEF RowsGrow, Owns, IsAdmin
<1>2. Filled(g)'
  BY DEF RequestFits, Filled
<1>3. SignInFits(g)'
  <2>1. \A n : ByUsername(n) \cap promoted # {} =>
           {id \in Ids : Exists(id)' /\ users'[id].username = n} \cap promoted' # {}
    BY DEF ByUsername, RowsGrow
  <2>2. QED
    BY <1>1, <2>1 DEF RequestFits, Filled, SignInFits, Owns, IsAdmin, ByUsername, Exists
<1>4. GrantFits(g)'
  BY <1>1 DEF RequestFits, Filled, GrantFits, Owns, IsAdmin, Exists
<1>5. QED
  BY <1>2, <1>3, <1>4 DEF RequestFits

LEMMA StepKeeps ==
  ASSUME IInv, NEW h \in Handlers, Step(h)
  PROVE  IInv'
<1>1. TypeOK
  BY DEF IInv, AccountsInv
<1>2. \A g \in Handlers : RequestFits(g)'
  BY <1>1, Parts, WaitingFits DEF Step, OthersStay
<1>3. TypeOK' /\ OneAccountPerName' /\ TokensFit'
  BY DEF Step
<1>4. QED
  BY <1>2, <1>3, PartsNext

-----------------------------------------------------------------------------
(* Moves *)

(* The empty request is a request. *)
LEMMA NoRequestType == NoRequest \in Request
  BY DEF NoRequest, Request

(* h moves to a call with the locals r. *)
MoveTo(h, call, r) ==
    /\ pc' = [pc EXCEPT ![h] = call]
    /\ req' = [req EXCEPT ![h] = r]

(* A move changes one handler. *)
LEMMA Move ==
  ASSUME TypeOK, NEW h \in Handlers, NEW call \in PCs, NEW r \in Request,
         MoveTo(h, call, r)
  PROVE  /\ pc'[h] = call /\ req'[h] = r /\ OthersStay(h)
         /\ pc' \in [Handlers -> PCs] /\ req' \in [Handlers -> Request]
  BY DEF MoveTo, TypeOK, OthersStay

(* A return empties one handler's locals. *)
LEMMA ReturnMove ==
  ASSUME TypeOK, NEW h \in Handlers, Return(h)
  PROVE  /\ pc'[h] = Idle /\ OthersStay(h) /\ RequestFits(h)'
         /\ pc' \in [Handlers -> PCs] /\ req' \in [Handlers -> Request]
<1>1. MoveTo(h, Idle, NoRequest)
  BY DEF Return, MoveTo
<1>2. /\ pc'[h] = Idle /\ req'[h] = NoRequest /\ OthersStay(h)
      /\ pc' \in [Handlers -> PCs] /\ req' \in [Handlers -> Request]
  BY <1>1, NoRequestType, Move
<1>3. NoRequest.late = FALSE
  BY DEF NoRequest
<1>4. QED
  BY <1>2, <1>3 DEF RequestFits, Filled, SignInFits, GrantFits

(* With the table and the tokens as they were, the locals decide. *)
LEMMA QuietStep ==
  ASSUME IInv, NEW h \in Handlers, OthersStay(h), RequestFits(h)',
         pc' \in [Handlers -> PCs], req' \in [Handlers -> Request],
         UNCHANGED <<users, access, sessions, promoted>>
  PROVE  Step(h)
<1>1. TypeOK /\ OneAccountPerName /\ TokensFit
  BY Parts DEF IInv, AccountsInv
<1>2. TypeOK' /\ OneAccountPerName' /\ TokensFit'
  BY <1>1 DEF TypeOK, OneAccountPerName, TokensFit, Exists, Owns, IsAdmin
<1>3. RowsGrow
  BY DEF RowsGrow, Exists
<1>4. QED
  BY <1>2, <1>3 DEF Step

(* A request that ends early. *)
LEMMA ReturnStep ==
  ASSUME IInv, NEW h \in Handlers, Return(h),
         UNCHANGED <<users, access, sessions, promoted>>
  PROVE  Step(h)
  BY ReturnMove, QuietStep DEF IInv, AccountsInv

-----------------------------------------------------------------------------
(* Arrivals *)

LEMMA BeginSignUpStep ==
  ASSUME IInv, NEW h \in Handlers, NEW c \in Clients, NEW name \in Names,
         BeginSignUp(h, c, name)
  PROVE  Step(h)
<1> DEFINE r == [NoRequest EXCEPT !.client = c, !.name = name]
<1>1. r \in Request /\ r.client = c /\ r.name = name /\ r.late = FALSE
  BY DEF NoRequest, Request
<1>2. MoveTo(h, "LookupNewUser", r) /\ UNCHANGED <<users, access, sessions, promoted>>
  BY DEF BeginSignUp, Arrive, MoveTo
<1> HIDE DEF r
<1>3. /\ pc'[h] = "LookupNewUser" /\ req'[h] = r /\ OthersStay(h)
      /\ pc' \in [Handlers -> PCs] /\ req' \in [Handlers -> Request]
  BY <1>1, <1>2, Move DEF IInv, AccountsInv
<1>4. RequestFits(h)'
  BY <1>1, <1>3 DEF RequestFits, Filled, SignInFits, GrantFits
<1>5. QED
  BY <1>2, <1>3, <1>4, QuietStep

LEMMA BeginLoginStep ==
  ASSUME IInv, NEW h \in Handlers, NEW c \in Clients, NEW name \in Names,
         BeginLogin(h, c, name)
  PROVE  Step(h)
<1> DEFINE r == [NoRequest EXCEPT !.client = c, !.name = name,
                                  !.late = ByUsername(name) \cap promoted # {}]
<1>1. r \in Request /\ r.client = c /\ r.name = name
        /\ r.late = (ByUsername(name) \cap promoted # {})
  BY DEF NoRequest, Request
<1>2. MoveTo(h, "LookupUser", r) /\ UNCHANGED <<users, access, sessions, promoted>>
  BY DEF BeginLogin, Arrive, MoveTo
<1> HIDE DEF r
<1>3. /\ pc'[h] = "LookupUser" /\ req'[h] = r /\ OthersStay(h)
      /\ pc' \in [Handlers -> PCs] /\ req' \in [Handlers -> Request]
  BY <1>1, <1>2, Move DEF IInv, AccountsInv
<1>4. Filled(h)' /\ GrantFits(h)'
  BY <1>1, <1>3 DEF Filled, GrantFits
<1>5. SignInFits(h)'
  <2>1. r.late => (ByUsername(name) \cap promoted # {})'
    BY <1>1, <1>2 DEF ByUsername, Exists
  <2>2. QED
    BY <1>1, <1>3, <2>1 DEF SignInFits, ByUsername
<1>6. QED
  BY <1>2, <1>3, <1>4, <1>5, QuietStep DEF RequestFits

LEMMA BeginRefreshStep ==
  ASSUME IInv, NEW h \in Handlers, NEW s \in sessions, BeginRefresh(h, s)
  PROVE  Step(h)
<1> DEFINE r == [NoRequest EXCEPT !.client = s.holder, !.user = s.user,
                                  !.late = s.user \in promoted]
<1>1. /\ TypeOK /\ s.holder \in Clients /\ s.user \in Ids /\ Owns(s.holder, s.user)
  BY Parts DEF IInv, AccountsInv, TypeOK, Session, TokensFit
<1>2. /\ r \in Request /\ r.client = s.holder /\ r.user = s.user
      /\ r.late => s.user \in promoted
  <2> PICK late \in BOOLEAN : late <=> s.user \in promoted
    OBVIOUS
  <2>0. late = (s.user \in promoted)
    BY Zenon
  <2>1. r = [NoRequest EXCEPT !.client = s.holder, !.user = s.user, !.late = late]
    BY <2>0, Zenon
  <2>2. /\ r \in Request /\ r.client = s.holder /\ r.user = s.user
        /\ r.late = late
    BY <1>1, <2>1 DEF NoRequest, Request
  <2>3. QED
    BY <2>2
<1>3. MoveTo(h, "GetUser", r) /\ UNCHANGED <<users, access, sessions, promoted>>
  BY DEF BeginRefresh, Arrive, MoveTo
<1> HIDE DEF r
<1>4. /\ pc'[h] = "GetUser" /\ req'[h] = r /\ OthersStay(h)
      /\ pc' \in [Handlers -> PCs] /\ req' \in [Handlers -> Request]
  BY <1>1, <1>2, <1>3, Move
<1>5. RequestFits(h)'
  BY <1>1, <1>2, <1>3, <1>4
     DEF RequestFits, Filled, SignInFits, GrantFits, Owns, Exists
<1>6. QED
  BY <1>3, <1>4, <1>5, QuietStep

(* The middleware lets nobody in but administrators. *)
LEMMA BeginGrantStep ==
  ASSUME IInv, NEW h \in Handlers, NEW t \in access, NEW target \in Ids,
         BeginGrant(h, t, target)
  PROVE  Step(h)
<1> DEFINE r == [NoRequest EXCEPT !.client = t.holder, !.user = t.user,
                                  !.target = target]
<1>1. /\ TypeOK /\ t.holder \in Clients /\ t.user \in Ids /\ IsAdmin(t.user)
  BY Parts DEF IInv, AccountsInv, TypeOK, AccessToken, TokensFit, BeginGrant, RequireAdmin
<1>2. /\ r \in Request /\ r.client = t.holder /\ r.user = t.user
      /\ r.target = target /\ r.late = FALSE
  BY <1>1 DEF NoRequest, Request
<1>3. MoveTo(h, "GetTarget", r) /\ UNCHANGED <<users, access, sessions, promoted>>
  BY DEF BeginGrant, Arrive, MoveTo
<1> HIDE DEF r
<1>4. /\ pc'[h] = "GetTarget" /\ req'[h] = r /\ OthersStay(h)
      /\ pc' \in [Handlers -> PCs] /\ req' \in [Handlers -> Request]
  BY <1>1, <1>2, <1>3, Move
<1>5. RequestFits(h)'
  BY <1>1, <1>2, <1>3, <1>4
     DEF RequestFits, Filled, SignInFits, GrantFits, IsAdmin, Exists
<1>6. QED
  BY <1>3, <1>4, <1>5, QuietStep

-----------------------------------------------------------------------------
(* Look-ups *)

LEMMA LookupNewUserStep ==
  ASSUME IInv, NEW h \in Handlers, LookupNewUser(h)
  PROVE  Step(h)
<1>1. TypeOK /\ RequestFits(h) /\ pc[h] = "LookupNewUser"
        /\ UNCHANGED <<users, access, sessions, promoted>>
  BY Parts DEF IInv, AccountsInv, LookupNewUser
<1>2. CASE Return(h)
  BY <1>1, <1>2, ReturnStep
<1>3. CASE Continue(h, "CreateUser", req[h])
  <2>1. /\ pc'[h] = "CreateUser" /\ req'[h] = req[h] /\ OthersStay(h)
        /\ pc' \in [Handlers -> PCs] /\ req' \in [Handlers -> Request]
    BY <1>1, <1>3, RequestTypes, Move DEF Continue, MoveTo
  <2>2. RequestFits(h)'
    BY <1>1, <2>1 DEF RequestFits, Filled, SignInFits, GrantFits
  <2>3. QED
    BY <1>1, <2>1, <2>2, QuietStep
<1>4. QED
  BY <1>2, <1>3 DEF LookupNewUser, Fail

(* Only the owner's password opens the account, with the row's role.       *)
LEMMA LookupUserStep ==
  ASSUME IInv, NEW h \in Handlers, LookupUser(h)
  PROVE  Step(h)
<1>1. /\ TypeOK /\ RequestFits(h) /\ pc[h] = "LookupUser" /\ TokensFit /\ OneAccountPerName
      /\ UNCHANGED <<users, access, sessions, promoted>>
  BY Parts DEF IInv, AccountsInv, LookupUser
<1>2. CASE Return(h)
  BY <1>1, <1>2, ReturnStep
<1>3. ASSUME NEW id \in ByUsername(req[h].name), Verify(req[h].client, users[id]),
             Continue(h, "IssuePair", [req[h] EXCEPT !.user = id, !.copy = users[id]])
      PROVE  Step(h)
  <2> DEFINE r == [req[h] EXCEPT !.user = id, !.copy = users[id]]
  <2>1. /\ id \in Ids /\ users[id] \in User /\ users[id].username = req[h].name
        /\ users[id].password = req[h].client /\ Exists(id)
    BY <1>1, <1>3 DEF TypeOK, ByUsername, Exists, Verify
  <2>2. r \in Request /\ r.client = req[h].client /\ r.user = id
    BY <1>1, <2>1, RequestTypes DEF Request
  <2>3. r.copy = users[id] /\ r.late = req[h].late
    BY <1>1, RequestTypes DEF Request
  <2>4. MoveTo(h, "IssuePair", r)
    BY <1>3 DEF Continue, MoveTo
  <2> HIDE DEF r
  <2>5. /\ pc'[h] = "IssuePair" /\ req'[h] = r /\ OthersStay(h)
        /\ pc' \in [Handlers -> PCs] /\ req' \in [Handlers -> Request]
    BY <1>1, <2>2, <2>4, Move
  <2>6. req[h].late => IsAdmin(id)
    <3>1. req[h].late => \E p \in ByUsername(req[h].name) : p \in promoted
      BY <1>1 DEF RequestFits, SignInFits
    <3>2. \A p \in ByUsername(req[h].name) : p = id
      BY <1>1, <2>1 DEF ByUsername, OneAccountPerName
    <3>3. QED
      BY <1>1, <3>1, <3>2 DEF TokensFit
  <2>7. Filled(h)' /\ GrantFits(h)'
    BY <1>1, <2>1, <2>2, <2>5 DEF RequestFits, Filled, GrantFits
  <2>8. SignInFits(h)'
    BY <1>1, <2>1, <2>2, <2>3, <2>5, <2>6 DEF SignInFits, Owns, IsAdmin, Exists
  <2>9. QED
    BY <1>1, <2>5, <2>7, <2>8, QuietStep DEF RequestFits
<1>4. QED
  BY <1>2, <1>3 DEF LookupUser, Fail

LEMMA GetUserStep ==
  ASSUME IInv, NEW h \in Handlers, GetUser(h)
  PROVE  Step(h)
<1>1. /\ TypeOK /\ RequestFits(h) /\ pc[h] = "GetUser" /\ TokensFit
      /\ UNCHANGED <<users, access, sessions, promoted>>
  BY Parts DEF IInv, AccountsInv, GetUser
<1>2. CASE Return(h)
  BY <1>1, <1>2, ReturnStep
<1>3. CASE /\ Exists(req[h].user)
           /\ Continue(h, "IssuePair", [req[h] EXCEPT !.copy = users[req[h].user]])
  <2> PICK id : id = req[h].user
    OBVIOUS
  <2> DEFINE r == [req[h] EXCEPT !.copy = users[id]]
  <2>1. id \in Ids /\ users[id] \in User /\ Owns(req[h].client, id)
          /\ (req[h].late => IsAdmin(id))
    BY <1>1, <1>3 DEF TypeOK, RequestFits, Filled, SignInFits, Exists, TokensFit
  <2>2. r \in Request /\ r.client = req[h].client /\ r.user = id
    BY <1>1, <2>1, RequestTypes DEF Request
  <2>3. r.copy = users[id] /\ r.late = req[h].late
    BY <1>1, RequestTypes DEF Request
  <2>4. MoveTo(h, "IssuePair", r)
    BY <1>3 DEF Continue, MoveTo
  <2> HIDE DEF r
  <2>5. /\ pc'[h] = "IssuePair" /\ req'[h] = r /\ OthersStay(h)
        /\ pc' \in [Handlers -> PCs] /\ req' \in [Handlers -> Request]
    BY <1>1, <2>2, <2>4, Move
  <2>6. Filled(h)' /\ GrantFits(h)'
    BY <1>1, <2>1, <2>2, <2>5 DEF RequestFits, Filled, GrantFits
  <2>7. SignInFits(h)'
    BY <1>1, <2>1, <2>2, <2>3, <2>5 DEF SignInFits, Owns, IsAdmin, Exists
  <2>8. QED
    BY <1>1, <2>5, <2>6, <2>7, QuietStep DEF RequestFits
<1>4. QED
  BY <1>2, <1>3 DEF GetUser

LEMMA GetTargetStep ==
  ASSUME IInv, NEW h \in Handlers, GetTarget(h)
  PROVE  Step(h)
<1>1. /\ TypeOK /\ RequestFits(h) /\ pc[h] = "GetTarget"
      /\ UNCHANGED <<users, access, sessions, promoted>>
  BY Parts DEF IInv, AccountsInv, GetTarget
<1>2. CASE Return(h)
  BY <1>1, <1>2, ReturnStep
<1>3. CASE /\ Exists(req[h].target)
           /\ Continue(h, "UpdateRole", [req[h] EXCEPT !.copy = users[req[h].target]])
  <2> PICK id : id = req[h].target
    OBVIOUS
  <2> DEFINE r == [req[h] EXCEPT !.copy = users[id]]
  <2>1. id \in Ids /\ users[id] \in User /\ Exists(id) /\ IsAdmin(req[h].user)
    BY <1>1, <1>3 DEF TypeOK, RequestFits, GrantFits, Exists
  <2>2. r \in Request /\ r.client = req[h].client /\ r.user = req[h].user
    BY <1>1, <2>1, RequestTypes DEF Request
  <2>3. r.copy = users[id] /\ r.target = id
    BY <1>1, RequestTypes DEF Request
  <2>4. MoveTo(h, "UpdateRole", r)
    BY <1>3 DEF Continue, MoveTo
  <2> HIDE DEF r
  <2>5. /\ pc'[h] = "UpdateRole" /\ req'[h] = r /\ OthersStay(h)
        /\ pc' \in [Handlers -> PCs] /\ req' \in [Handlers -> Request]
    BY <1>1, <2>2, <2>4, Move
  <2>6. Filled(h)' /\ SignInFits(h)'
    BY <1>1, <2>2, <2>5 DEF RequestFits, Filled, SignInFits
  <2>7. GrantFits(h)'
    BY <1>1, <2>1, <2>2, <2>3, <2>5 DEF GrantFits, Owns, IsAdmin, Exists
  <2>8. QED
    BY <1>1, <2>5, <2>6, <2>7, QuietStep DEF RequestFits
<1>4. QED
  BY <1>2, <1>3 DEF GetTarget, Fail

-----------------------------------------------------------------------------
(* Writes *)

(* Tokens still fit rows that only grow. *)
LEMMA TokensWait ==
  ASSUME TypeOK, TokensFit, RowsGrow, access' \subseteq access, UNCHANGED sessions,
         \A id \in promoted' : id \in promoted \/ IsAdmin(id)'
  PROVE  TokensFit'
<1>1. \A id \in Ids : /\ \A c : Owns(c, id) => Exists(id)' /\ users'[id].password = c
                      /\ IsAdmin(id) => Exists(id)' /\ users'[id].role = RoleAdmin
  BY DEF RowsGrow, Owns, IsAdmin
<1>2. /\ \A t \in access : t.user \in Ids
      /\ \A s \in sessions : s.user \in Ids
      /\ promoted \subseteq Ids
  BY DEF TypeOK, AccessToken, Session
<1>3. \A t \in access' : Owns(t.holder, t.user)' /\ (t.role = RoleAdmin => IsAdmin(t.user)')
  BY <1>1, <1>2 DEF TokensFit, Owns, IsAdmin, Exists
<1>4. \A s \in sessions' : Owns(s.holder, s.user)'
  BY <1>1, <1>2 DEF TokensFit, Owns, Exists
<1>5. \A id \in promoted' : IsAdmin(id)'
  BY <1>1, <1>2 DEF TokensFit, IsAdmin, Exists
<1>6. QED
  BY <1>3, <1>4, <1>5 DEF TokensFit

(* A stored account is a new row under a name that had none.               *)
LEMMA NewRow ==
  ASSUME TypeOK, OneAccountPerName, NEW id \in Ids, NEW row \in User,
         ~CreateConflicts(id, row), Create(id, row)
  PROVE  /\ users' \in [Ids -> User \cup {Nil}] /\ users'[id] = row /\ row # Nil
         /\ RowsGrow /\ OneAccountPerName'
<1>1. ~Exists(id) /\ \A j \in Ids : Exists(j) => users[j].username # row.username
  BY DEF CreateConflicts, ByUsername
<1>2. /\ users' \in [Ids -> User \cup {Nil}] /\ users'[id] = row /\ row # Nil
      /\ \A j \in Ids \ {id} : users'[j] = users[j]
  BY NilNoUserAssumption DEF TypeOK, Create
<1>3. RowsGrow
  BY <1>1, <1>2 DEF RowsGrow, Exists
<1>4. OneAccountPerName'
  BY <1>1, <1>2 DEF OneAccountPerName, Exists
<1>5. QED
  BY <1>2, <1>3, <1>4

LEMMA CreateUserStep ==
  ASSUME IInv, NEW h \in Handlers, CreateUser(h)
  PROVE  Step(h)
<1> PICK row : row = NewUser(h)
  OBVIOUS
<1>1. /\ TypeOK /\ RequestFits(h) /\ pc[h] = "CreateUser" /\ TokensFit /\ OneAccountPerName
      /\ UNCHANGED <<access, sessions, promoted>>
  BY Parts DEF IInv, AccountsInv, CreateUser
<1>2. /\ req[h].client \in Clients /\ req[h].name \in Names
  BY <1>1 DEF RequestFits, Filled
<1>3. row \in User /\ row.password = req[h].client /\ row.role = RoleUser
  BY <1>2 DEF NewUser, User
<1>4. ASSUME NEW id \in Ids, ~CreateConflicts(id, row), Create(id, row),
             \/ Continue(h, "IssuePair", [req[h] EXCEPT !.user = id, !.copy = row])
             \/ Return(h)
      PROVE  Step(h)
  <2>1. /\ users' \in [Ids -> User \cup {Nil}] /\ users'[id] = row /\ row # Nil
        /\ RowsGrow /\ OneAccountPerName'
    BY <1>1, <1>3, <1>4, NewRow
  <2>2. TokensFit'
    BY <1>1, <2>1, TokensWait
  <2>3. /\ OthersStay(h) /\ RequestFits(h)'
        /\ pc' \in [Handlers -> PCs] /\ req' \in [Handlers -> Request]
    <3>1. CASE Return(h)
      BY <1>1, <3>1, ReturnMove
    <3>2. CASE Continue(h, "IssuePair", [req[h] EXCEPT !.user = id, !.copy = row])
      <4> DEFINE r == [req[h] EXCEPT !.user = id, !.copy = row]
      <4>1. r \in Request /\ r.client = req[h].client /\ r.user = id
        BY <1>1, <1>3, RequestTypes DEF Request
      <4>2. r.copy = row
        BY <1>1, RequestTypes DEF Request
      <4>3. MoveTo(h, "IssuePair", r)
        BY <3>2 DEF Continue, MoveTo
      <4>4. r.late = req[h].late /\ ~req[h].late
        BY <1>1, RequestTypes DEF Request, RequestFits, SignInFits
      <4> HIDE DEF r
      <4>5. /\ pc'[h] = "IssuePair" /\ req'[h] = r /\ OthersStay(h)
            /\ pc' \in [Handlers -> PCs] /\ req' \in [Handlers -> Request]
        BY <1>1, <4>1, <4>3, Move
      <4>6. Filled(h)' /\ GrantFits(h)'
        BY <1>2, <4>1, <4>5 DEF Filled, GrantFits
      <4>7. SignInFits(h)'
        BY <1>1, <1>3, <2>1, <4>1, <4>2, <4>4, <4>5 DEF SignInFits, Owns, Exists
      <4>8. QED
        BY <4>5, <4>6, <4>7 DEF RequestFits
    <3>3. QED
      BY <1>4, <3>1, <3>2
  <2>4. TypeOK'
    BY <1>1, <2>1, <2>3 DEF TypeOK
  <2>5. QED
    BY <1>1, <2>1, <2>2, <2>3, <2>4 DEF Step
<1>5. CASE Return(h) /\ UNCHANGED users
  BY <1>1, <1>5, ReturnStep
<1>6. QED
  BY <1>4, <1>5 DEF CreateUser, Fail

(* The tokens of a pair claim what the copy says of its owner. *)
LEMMA IssuePairStep ==
  ASSUME IInv, NEW h \in Handlers, IssuePair(h)
  PROVE  Step(h)
<1>1. /\ TypeOK /\ RequestFits(h) /\ pc[h] = "IssuePair" /\ TokensFit /\ OneAccountPerName
      /\ Return(h) /\ UNCHANGED <<users, promoted>>
  BY Parts DEF IInv, AccountsInv, IssuePair
<1>2. CASE UNCHANGED <<access, sessions>>
  BY <1>1, <1>2, ReturnStep
<1>3. CASE /\ access' = access \cup {Claims(h)}
           /\ sessions' = sessions \cup {[holder |-> req[h].client, user |-> req[h].user]}
  <2>1. /\ req[h].client \in Clients /\ req[h].user \in Ids
        /\ req[h].copy \in User
        /\ Owns(req[h].client, req[h].user)
        /\ req[h].copy.role = RoleAdmin => IsAdmin(req[h].user)
    BY <1>1 DEF RequestFits, Filled, SignInFits
  <2>2. /\ Claims(h) \in AccessToken
        /\ [holder |-> req[h].client, user |-> req[h].user] \in Session
    BY <2>1 DEF Claims, AccessToken, Session, User
  <2>3. /\ OthersStay(h) /\ RequestFits(h)'
        /\ pc' \in [Handlers -> PCs] /\ req' \in [Handlers -> Request]
    BY <1>1, ReturnMove
  <2>4. TypeOK' /\ OneAccountPerName' /\ RowsGrow
    BY <1>1, <1>3, <2>2, <2>3 DEF TypeOK, OneAccountPerName, Exists, RowsGrow
  <2>5. TokensFit'
    BY <1>1, <1>3, <2>1 DEF TokensFit, Claims, Owns, IsAdmin, Exists
  <2>6. QED
    BY <1>1, <2>3, <2>4, <2>5 DEF Step
<1>4. QED
  BY <1>2, <1>3 DEF IssuePair

(* The UPDATE of a grant writes back the copy with the new role.           *)
LEMMA GrantedRow ==
  ASSUME TypeOK, OneAccountPerName, NEW id \in Ids, NEW copy \in User,
         Owns(copy.password, id), Update(id, Granted(copy))
  PROVE  /\ users' \in [Ids -> User \cup {Nil}] /\ RowsGrow /\ OneAccountPerName'
         /\ IsAdmin(id)' /\ \A j \in Ids \ {id} : users'[j] = users[j]
<1> DEFINE row == [Granted(copy) EXCEPT !.username = users[id].username]
<1>1. users[id] \in User /\ users[id] # Nil /\ users[id].password = copy.password
  BY DEF TypeOK, Owns, Exists
<1>2. /\ row \in User /\ row.username = users[id].username
      /\ row.password = users[id].password /\ row.role = RoleAdmin
  BY <1>1 DEF Granted, User
<1>3. users' = [users EXCEPT ![id] = row]
  BY <1>1 DEF Update, TypeOK
<1> HIDE DEF row
<1>4. /\ users' \in [Ids -> User \cup {Nil}] /\ users'[id] = row /\ row # Nil
      /\ \A j \in Ids \ {id} : users'[j] = users[j]
  BY <1>2, <1>3, NilNoUserAssumption DEF TypeOK
<1>5. RowsGrow
  BY <1>2, <1>4 DEF RowsGrow, Exists
<1>6. OneAccountPerName'
  BY <1>1, <1>2, <1>4 DEF OneAccountPerName, Exists
<1>7. IsAdmin(id)'
  BY <1>2, <1>4 DEF IsAdmin, Exists
<1>8. QED
  BY <1>4, <1>5, <1>6, <1>7

LEMMA UpdateRoleStep ==
  ASSUME IInv, NEW h \in Handlers, UpdateRole(h)
  PROVE  Step(h)
<1> PICK id, copy : id = req[h].target /\ copy = req[h].copy
  OBVIOUS
<1>1. /\ TypeOK /\ RequestFits(h) /\ pc[h] = "UpdateRole" /\ TokensFit /\ OneAccountPerName
      /\ Return(h) /\ UNCHANGED <<access, sessions>>
  BY Parts DEF IInv, AccountsInv, UpdateRole, Fail
<1>2. id \in Ids /\ copy \in User /\ Owns(copy.password, id)
  BY <1>1 DEF RequestFits, GrantFits
<1>3. CASE UNCHANGED <<users, promoted>>
  BY <1>1, <1>3, ReturnStep
<1>4. CASE Update(id, Granted(copy)) /\ promoted' \in {promoted, promoted \cup {id}}
  <2>1. /\ users' \in [Ids -> User \cup {Nil}] /\ RowsGrow /\ OneAccountPerName'
        /\ IsAdmin(id)'
    BY <1>1, <1>2, <1>4, GrantedRow
  <2>2. /\ OthersStay(h) /\ RequestFits(h)'
        /\ pc' \in [Handlers -> PCs] /\ req' \in [Handlers -> Request]
    BY <1>1, ReturnMove
  <2>3. \A j \in promoted' : j \in promoted \/ IsAdmin(j)'
    <3>1. \A j \in Ids : j = id => IsAdmin(j)'
      BY <2>1
    <3>2. QED
      BY <1>2, <1>4, <3>1
  <2>4. TokensFit'
    BY <1>1, <2>1, <2>3, TokensWait
  <2>5. TypeOK'
    BY <1>1, <1>2, <1>4, <2>1, <2>2 DEF TypeOK
  <2>6. QED
    BY <1>4, <2>1, <2>2, <2>4, <2>5 DEF Step
<1>5. QED
  BY <1>3, <1>4 DEF UpdateRole

-----------------------------------------------------------------------------
(* The environment *)

(* Steps of no handler keep the invariant while rows only grow. *)
LEMMA WaitKeeps ==
  ASSUME IInv, TypeOK', OneAccountPerName', RowsGrow, UNCHANGED <<pc, req, sessions>>,
         access' \subseteq access, promoted \subseteq promoted',
         \A id \in promoted' : id \in promoted \/ IsAdmin(id)'
  PROVE  IInv'
<1>1. TypeOK /\ TokensFit /\ \A g \in Handlers : RequestFits(g)
  BY Parts DEF IInv, AccountsInv
<1>2. TokensFit'
  BY <1>1, TokensWait
<1>3. \A g \in Handlers : RequestFits(g)'
  BY <1>1, WaitingFits
<1>4. QED
  BY <1>2, <1>3, PartsNext

(* No role but by hand: the row keeps its name and password. *)
LEMMA OperatorKeeps ==
  ASSUME IInv, NEW id \in Ids, OperatorPromotes(id)
  PROVE  IInv' /\ RowsGrow
<1>1. TypeOK /\ OneAccountPerName /\ users[id] \in User
  BY DEF IInv, AccountsInv, OperatorPromotes, TypeOK, Exists
<1> DEFINE row == [users[id] EXCEPT !.role = RoleAdmin]
<1>2. /\ row \in User /\ row.username = users[id].username
      /\ row.password = users[id].password /\ row.role = RoleAdmin
  BY <1>1 DEF User
<1>3. users' = [users EXCEPT ![id] = row]
  BY <1>1 DEF OperatorPromotes, TypeOK
<1>4. /\ promoted' = promoted \cup {id}
      /\ UNCHANGED <<access, sessions, pc, req>>
  BY DEF OperatorPromotes
<1> HIDE DEF row
<1>5. /\ users' \in [Ids -> User \cup {Nil}] /\ users'[id] = row /\ row # Nil
      /\ \A j \in Ids \ {id} : users'[j] = users[j]
  BY <1>1, <1>2, <1>3, NilNoUserAssumption DEF TypeOK
<1>6. RowsGrow /\ OneAccountPerName' /\ IsAdmin(id)'
  BY <1>1, <1>2, <1>5, NilNoUserAssumption DEF RowsGrow, OneAccountPerName, Exists, IsAdmin
<1>7. TypeOK'
  BY <1>1, <1>4, <1>5 DEF TypeOK
<1>8. QED
  BY <1>4, <1>6, <1>7, WaitKeeps

LEMMA ExpireKeeps ==
  ASSUME IInv, NEW t, Expire(t)
  PROVE  IInv'
<1>1. TypeOK' /\ OneAccountPerName' /\ RowsGrow
  BY DEF IInv, AccountsInv, TypeOK, OneAccountPerName, RowsGrow, Exists, Expire
<1>2. QED
  BY <1>1, WaitKeeps DEF Expire

LEMMA CrashKeeps ==
  ASSUME IInv, Crash
  PROVE  IInv'
<1>1. /\ TypeOK /\ OneAccountPerName /\ TokensFit
      /\ UNCHANGED <<users, access, sessions, promoted>>
      /\ \A h \in Handlers : pc'[h] = Idle /\ req'[h] = NoRequest
  BY Parts DEF IInv, AccountsInv, Crash
<1>2. TypeOK' /\ OneAccountPerName'
  BY <1>1, NoRequestType DEF Crash, TypeOK, OneAccountPerName, Exists
<1>3. TokensFit'
  BY <1>1 DEF TokensFit, Owns, IsAdmin, Exists
<1>4. NoRequest.late = FALSE
  BY DEF NoRequest
<1>5. \A h \in Handlers : RequestFits(h)'
  BY <1>1, <1>4 DEF RequestFits, Filled, SignInFits, GrantFits
<1>6. QED
  BY <1>2, <1>3, <1>5, PartsNext

LEMMA StutterKeeps ==
  ASSUME IInv, UNCHANGED vars
  PROVE  IInv'
<1>1. TypeOK' /\ OneAccountPerName' /\ RowsGrow
  BY DEF IInv, AccountsInv, TypeOK, OneAccountPerName, RowsGrow, Exists, vars
<1>2. QED
  BY <1>1, WaitKeeps DEF vars

-----------------------------------------------------------------------------
(* The theorems *)

(* Every step of a handler is a Step. *)
LEMMA HandlerSteps ==
  ASSUME IInv, NEW h \in Handlers, Arrival(h) \/ HandlerStep(h)
  PROVE  Step(h)
<1>1. CASE Arrival(h)
  BY <1>1, BeginSignUpStep, BeginLoginStep, BeginRefreshStep, BeginGrantStep
     DEF Arrival, IInv, AccountsInv, TypeOK
<1>2. CASE HandlerStep(h)
  BY <1>2, LookupNewUserStep, CreateUserStep, LookupUserStep, GetUserStep,
     IssuePairStep, GetTargetStep, UpdateRoleStep DEF HandlerStep
<1>3. QED
  BY <1>1, <1>2

LEMMA InvStep == IInv /\ [Next]_vars => IInv'
<1> SUFFICES ASSUME IInv, [Next]_vars PROVE IInv'
  OBVIOUS
<1>1. ASSUME NEW h \in Handlers, Arrival(h) \/ HandlerStep(h) PROVE IInv'
  BY <1>1, HandlerSteps, StepKeeps
<1>2. QED
  BY <1>1, OperatorKeeps, ExpireKeeps, CrashKeeps, StutterKeeps DEF Next

LEMMA InitInv == Init => IInv
<1> SUFFICES ASSUME Init PROVE IInv
  OBVIOUS
<1>1. TypeOK
  BY NoRequestType DEF Init, UsersInit, TypeOK
<1>2. OneAccountPerName /\ TokensFit
  BY DEF Init, UsersInit, OneAccountPerName, TokensFit, Exists
<1>3. NoRequest.late = FALSE
  BY DEF NoRequest
<1>4. \A h \in Handlers : RequestFits(h)
  BY <1>3 DEF Init, RequestFits, Filled, SignInFits, GrantFits
<1>5. QED
  BY <1>1, <1>2, <1>4, Parts

LEMMA Inductive == Spec => []IInv
  BY InitInv, InvStep, PTL DEF Spec

(* Of two sign-ups that found a name free one stores an account, and the   *)
(* table, the tokens and the copies in flight agree in every state of the  *)
(* account handlers of auth_service.go and admin_user_service.go.          *)
THEOREM AccountsAgree == Spec => []AccountsInv
  BY Inductive, PTL DEF IInv

(* Tokens of an account reach nobody but the client whose password its row *)
(* stores, through lost races, failed statements and grants.               *)
THEOREM PairsReachOwners == Spec => []PairsGoToOwner
  BY Inductive, PTL DEF IInv

(* A sign-in that arrives after an acknowledged GrantAdmin gets the        *)
(* administrator's role.                                                   *)
THEOREM RolesAreCurrent == Spec => []RoleIsCurrent
  BY Inductive, PTL DEF IInv

(* A role is raised by the operator or by a request of an administrator,   *)
(* and GrantAdmin's write of a whole old row takes none back.              *)
THEOREM OnlyAdminsPromote == Spec => RolesByAdmins
<1> DEFINE Raised == \A id \in Ids :
          /\ IsAdmin(id) => IsAdmin(id)'
          /\ ~IsAdmin(id) /\ IsAdmin(id)' =>
                \/ OperatorPromotes(id)
                \/ \E h \in Handlers : /\ pc[h] = "UpdateRole"
                                       /\ req[h].target = id
                                       /\ IsAdmin(req[h].user)
<1>1. IInv /\ [Next]_vars => Raised
  <2> SUFFICES ASSUME IInv, [Next]_vars, NEW id \in Ids
               PROVE  /\ IsAdmin(id) => IsAdmin(id)'
                      /\ ~IsAdmin(id) /\ IsAdmin(id)' =>
                            \/ OperatorPromotes(id)
                            \/ \E h \in Handlers : /\ pc[h] = "UpdateRole"
                                                   /\ req[h].target = id
                                                   /\ IsAdmin(req[h].user)
    OBVIOUS
  <2>1. RowsGrow => (IsAdmin(id) => IsAdmin(id)')
    BY DEF RowsGrow, IsAdmin
  <2>2. ASSUME NEW h \in Handlers, Arrival(h) \/ HandlerStep(h) PROVE RowsGrow
    BY <2>2, HandlerSteps DEF Step
  <2>3. users' = users => (IsAdmin(id)' <=> IsAdmin(id))
    BY DEF IsAdmin, Exists
  <2>4. ASSUME NEW h \in Handlers, CreateUser(h), ~IsAdmin(id) PROVE ~IsAdmin(id)'
    <3>1. users' = users \/ \E j \in Ids : Create(j, NewUser(h))
      BY <2>4 DEF CreateUser
    <3>2. users \in [Ids -> User \cup {Nil}]
      BY DEF IInv, AccountsInv, TypeOK
    <3>3. ASSUME NEW j \in Ids, Create(j, NewUser(h)) PROVE ~IsAdmin(id)'
      BY <2>4, <3>2, <3>3 DEF Create, NewUser, IsAdmin, Exists
    <3>4. QED
      BY <2>3, <2>4, <3>1, <3>3
  <2>5. ASSUME NEW h \in Handlers, UpdateRole(h), ~IsAdmin(id), IsAdmin(id)'
        PROVE  pc[h] = "UpdateRole" /\ req[h].target = id /\ IsAdmin(req[h].user)
    <3>1. /\ TypeOK /\ pc[h] = "UpdateRole" /\ RequestFits(h) /\ OneAccountPerName
      BY <2>5, Parts DEF IInv, AccountsInv, UpdateRole
    <3>2. users' # users
      BY <2>3, <2>5
    <3>3. req[h].target = id
      BY <2>5, <3>1, <3>2 DEF UpdateRole, Update, TypeOK, IsAdmin, Exists
    <3>4. QED
      BY <3>1, <3>3 DEF RequestFits, GrantFits
  <2>6. ASSUME NEW j \in Ids, OperatorPromotes(j), ~IsAdmin(id), IsAdmin(id)'
        PROVE  j = id
    BY <2>6 DEF OperatorPromotes, IsAdmin, Exists, IInv, AccountsInv, TypeOK
  <2>7. ASSUME NEW h \in Handlers, Arrival(h) \/ HandlerStep(h)
        PROVE  users' = users \/ CreateUser(h) \/ UpdateRole(h)
    BY <2>7 DEF Arrival, HandlerStep, BeginSignUp, BeginLogin, BeginRefresh, BeginGrant,
       Arrive, LookupNewUser, LookupUser, GetUser, IssuePair, GetTarget
  <2>8. (\E t \in access : Expire(t)) \/ Crash \/ UNCHANGED vars => users' = users
    BY DEF Expire, Crash, vars
  <2>9. QED
    BY <2>1, <2>2, <2>3, <2>4, <2>5, <2>6, <2>7, <2>8, OperatorKeeps DEF Next
<1>2. QED
  BY <1>1, Inductive, PTL DEF Spec, RolesByAdmins
=========================================================================
