------------------------ MODULE AuthServiceProofs ------------------------
(* Proofs of the safety of AuthService, for any tokens, users, handlers,   *)
(* times and failures, with the foreign key of replaced_by or without.     *)
EXTENDS AuthService, FiniteSetTheorems, TLAPS

USE DEF Idle, SignUpPCs, LoginPCs, RefreshPCs, LogoutPCs

-----------------------------------------------------------------------------
(* Rows and requests *)

(* A new, a revoked and a rotated token are tokens, and not NULL. *)
LEMMA TokenTypes ==
  /\ \A user \in Users : NewToken(user, now) \in RefreshToken \/ now \notin Int
  /\ \A t \in RefreshToken :
        /\ Revoked(t) \in RefreshToken /\ Revoked(t).revoked
        /\ Rotated(t) \in RefreshToken /\ Rotated(t).revoked
        /\ t # Nil
  /\ \A row, t \in RefreshToken :
        Written(row, t) \in RefreshToken /\ Written(row, t).revoked = t.revoked
  BY NilNoTokenAssumption
     DEF NewToken, Revoked, Rotated, Written, RefreshToken

(* The empty request is a request. *)
LEMMA NoRequestType == NoRequest \in Request
  BY DEF NoRequest, Request

(* The fields of a handler's locals have their types. *)
LEMMA RequestTypes ==
  ASSUME TypeOK, NEW h \in Handlers
  PROVE  /\ req[h] \in Request /\ pc[h] \in PCs
         /\ req[h].user \in Users \cup {Nil}
         /\ req[h].token \in Tokens \cup {Nil}
         /\ req[h].stored \in RefreshToken \cup {Nil}
         /\ req[h].child \in Tokens \cup {Nil}
         /\ req[h].row \in RefreshToken \cup {Nil}
         /\ req[h].late \in BOOLEAN
  BY DEF TypeOK, Request

-----------------------------------------------------------------------------
(* Moves of one handler *)

(* What every move of h leaves alone. *)
OthersStay(h) ==
    /\ pc' \in [Handlers -> PCs] /\ req' \in [Handlers -> Request]
    /\ \A g \in Handlers \ {h} : pc'[g] = pc[g] /\ req'[g] = req[g]

(* Arrive fills the locals of one handler. *)
LEMMA ArriveMove ==
  ASSUME TypeOK, NEW h \in Handlers, NEW call \in PCs, NEW r \in Request,
         Arrive(h, call, r)
  PROVE  OthersStay(h) /\ pc'[h] = call /\ req'[h] = r
  BY DEF Arrive, TypeOK, OthersStay

(* Goto moves one handler. *)
LEMMA GotoMove ==
  ASSUME TypeOK, NEW h \in Handlers, NEW call \in PCs, Goto(h, call)
  PROVE  OthersStay(h) /\ pc'[h] = call /\ req'[h] = req[h]
  BY DEF Goto, TypeOK, OthersStay

(* Return empties the locals of one handler. *)
LEMMA ReturnMove ==
  ASSUME TypeOK, NEW h \in Handlers, Return(h)
  PROVE  OthersStay(h) /\ pc'[h] = Idle /\ req'[h] = NoRequest
  BY NoRequestType DEF Return, TypeOK, OthersStay, PCs

(* A look-up keeps the copy of the row. *)
LEMMA LookupMove ==
  ASSUME AuthInv, NEW h \in Handlers, NEW call \in {"LookupForRefresh", "LookupForLogout"},
         NEW next \in PCs, Lookup(h, call, next), pc'[h] # Idle
  PROVE  /\ OthersStay(h) /\ pc'[h] = next
         /\ req[h].token \in committed
         /\ req'[h] = [req[h] EXCEPT !.stored = tokens[req[h].token]]
<1> DEFINE t == req[h].token
           r == [req[h] EXCEPT !.stored = tokens[t]]
<1>1. TypeOK /\ pc[h] = call
  BY DEF AuthInv, Lookup
<1>2. t \in committed
  BY <1>1 DEF AuthInv, LocalsFit
<1>3. r \in Request
  BY <1>1, <1>2, RequestTypes DEF TypeOK, Request
<1>4. /\ pc' = [pc EXCEPT ![h] = next]
      /\ req' = [req EXCEPT ![h] = r]
  <2>1. ~Fail(h)
    BY <1>1 DEF Fail, Return, TypeOK
  <2>2. req' = [req EXCEPT ![h].stored = tokens[t]] /\ pc' = [pc EXCEPT ![h] = next]
    BY <2>1 DEF Lookup
  <2>3. QED
    BY <1>1, <2>2 DEF TypeOK
<1> HIDE DEF r
<1>5. QED
  BY <1>1, <1>2, <1>3, <1>4 DEF TypeOK, OthersStay, r

-----------------------------------------------------------------------------
(* What a step of one handler may do *)

(* No step of h but brings rows of its own child into the table, takes     *)
(* another's lock, or makes a token good that was not.                     *)
Frame(h) ==
    /\ now' = now
    /\ issued \subseteq issued'
    /\ committed \subseteq committed' /\ committed' \subseteq committed \cup {req[h].child}
    /\ committed' \subseteq issued'
    /\ \A id \in committed : Stored(id)' => Stored(id)
    /\ \A id \in Tokens : Stored(id)' => id \in committed'
    /\ \A id \in Tokens, g \in Handlers \ {h} : locks[id] = g => locks'[id] = g
    /\ \A id \in Tokens : locks'[id] # Nil => Stored(id)'
    /\ \A id \in committed : ~Alive(id) => ~Alive(id)'
    /\ ended \subseteq ended' /\ ended' \subseteq committed
    /\ \A id \in ended' : ~Alive(id)'
    /\ \A c \in Tokens : parent'[c] # Nil => c \in committed' /\ parent'[c] \in ended'
    /\ held' \subseteq committed'

(* What h itself holds after its step. *)
OwnFits(h) ==
    /\ req'[h].child = Nil \/ req'[h].child = req[h].child
         \/ req'[h].child \in issued' \ issued
    /\ pc'[h] = "Respond" => req'[h].child \in committed'
    /\ LocalsFit(h)'
    /\ LateRefused(h)'

Step(h) == TypeOK' /\ OthersStay(h) /\ Frame(h) /\ OwnFits(h)

(* A step that leaves tables and history alone has the frame. *)
LEMMA QuietFrame ==
  ASSUME AuthInv, NEW h \in Handlers, UNCHANGED <<tokens, locks, now, history>>,
         issued \subseteq issued'
  PROVE  Frame(h)
<1>1. \A id \in Tokens : (Stored(id)' <=> Stored(id)) /\ (Alive(id)' <=> Alive(id))
  BY DEF Stored, Alive
<1>2. ended \subseteq Tokens /\ committed \subseteq Tokens
  BY DEF AuthInv, TypeOK
<1>3. QED
  BY <1>1, <1>2
     DEF Frame, history, AuthInv, IdsUnique, HeldWasCommitted, EndedStaysEnded

(* What other handlers hold fits after the step of one. *)
LEMMA OthersFit ==
  ASSUME AuthInv, NEW h \in Handlers, OthersStay(h), Frame(h),
         NEW g \in Handlers \ {h}
  PROVE  LocalsFit(g)' /\ LateRefused(g)'
<1>1. /\ pc'[g] = pc[g] /\ req'[g] = req[g] /\ g \in Handlers
      /\ LocalsFit(g) /\ LateRefused(g) /\ committed \subseteq Tokens
  BY DEF OthersStay, AuthInv, TypeOK
<1>2. req[g].child # Nil => req[g].child # req[h].child
  BY <1>1 DEF AuthInv, IdsUnique
<1>3. LocalsFit(g)'
  <2>1. pc[g] \in FreshPCs => req[g].child \in Tokens \ committed'
    BY <1>1, <1>2, TokenIdsAssumption DEF Frame, LocalsFit, FreshPCs
  <2>2. pc[g] = "Commit" => (Stored(req[g].token)' => locks'[req[g].token] = g)
    BY <1>1 DEF Frame, LocalsFit
  <2>3. QED
    BY <1>1, <2>1, <2>2 DEF LocalsFit, Frame, Stored, FreshPCs
<1>4. LateRefused(g)'
  <2>1. pc[g] \in RefreshPCs => req[g].token \in committed
    BY <1>1 DEF LocalsFit
  <2>2. QED
    BY <1>1, <2>1 DEF LateRefused, Frame, IsValid, Alive, Stored
<1>5. QED
  BY <1>3, <1>4

(* A step of one handler keeps the invariant. *)
LEMMA StepKeeps ==
  ASSUME AuthInv, NEW h \in Handlers, Step(h)
  PROVE  AuthInv'
<1>1. \A g \in Handlers : LocalsFit(g)' /\ LateRefused(g)'
  BY OthersFit DEF Step, OwnFits
<1>2. \A g \in Handlers : pc'[g] = "Respond" => req'[g].child \in committed'
  BY DEF Step, OwnFits, OthersStay, Frame, AuthInv, HeldWasCommitted
<1>3. ASSUME NEW g \in Handlers, NEW f \in Handlers, g # f, req'[g].child # Nil
      PROVE  req'[g].child # req'[f].child
  <2>1. \A e \in Handlers : req[e].child # Nil => req[e].child \in issued
    BY DEF AuthInv, LocalsFit
  <2>2. \A e \in Handlers \ {h} : req'[e] = req[e]
    BY DEF Step, OthersStay
  <2>3. req[g].child # Nil => req[g].child # req[f].child
    BY <1>3 DEF AuthInv, IdsUnique
  <2>4. req[f].child # Nil => req[f].child # req[g].child
    BY <1>3 DEF AuthInv, IdsUnique
  <2>5. QED
    BY <1>3, <2>1, <2>2, <2>3, <2>4 DEF Step, OwnFits
<1>4. IdsUnique'
  BY <1>3 DEF IdsUnique, Step, Frame
<1>5. HeldWasCommitted'
  BY <1>2 DEF HeldWasCommitted, Step, Frame
<1>6. TypeOK' /\ EndedStaysEnded' /\ ended' \subseteq committed'
        /\ (\A id \in Tokens : locks'[id] # Nil => Stored(id)')
        /\ \A c \in Tokens : parent'[c] # Nil => c \in committed' /\ parent'[c] \in ended'
  BY DEF Step, Frame, EndedStaysEnded
<1>7. QED
  BY <1>1, <1>4, <1>5, <1>6 DEF AuthInv

-----------------------------------------------------------------------------
(* Moves that leave the tables alone *)

(* A request that ends holds nothing. *)
LEMMA ReturnFits ==
  ASSUME TypeOK, NEW h \in Handlers, Return(h)
  PROVE  OthersStay(h) /\ OwnFits(h)
<1>1. OthersStay(h) /\ pc'[h] = Idle /\ req'[h] = NoRequest
  BY ReturnMove
<1>2. NoRequest.child = Nil
  BY DEF NoRequest
<1>3. LocalsFit(h)' /\ LateRefused(h)'
  BY <1>1, <1>2 DEF LocalsFit, LateRefused, FreshPCs
<1>4. QED
  BY <1>1, <1>2, <1>3 DEF OwnFits

(* Only its pc and locals, users and issued change in such a move. *)
QuietStep(h) ==
    /\ UNCHANGED <<tokens, locks, now, history>>
    /\ issued \subseteq issued' /\ issued' \subseteq Tokens
    /\ users' \subseteq Users

(* Then a step is one when the handler's own locals fit. *)
LEMMA QuietKeeps ==
  ASSUME AuthInv, NEW h \in Handlers, QuietStep(h), OthersStay(h), OwnFits(h)
  PROVE  Step(h)
<1>1. Frame(h)
  BY QuietFrame DEF QuietStep
<1>2. TypeOK'
  BY DEF TypeOK, AuthInv, QuietStep, OthersStay, history
<1>3. QED
  BY <1>1, <1>2 DEF Step

(* A move to the next call with the same locals. *)
LEMMA GotoFits ==
  ASSUME AuthInv, NEW h \in Handlers, NEW call \in PCs, Goto(h, call),
         LocalsFit(h)', LateRefused(h)',
         call = "Respond" => req[h].child \in committed'
  PROVE  OthersStay(h) /\ OwnFits(h)
  BY GotoMove DEF OwnFits, AuthInv

(* The row of a token in the table and the copy of it stay as they are. *)
LEMMA SameRows ==
  ASSUME UNCHANGED <<tokens, locks, now, history>>
  PROVE  /\ committed' = committed /\ locks' = locks
         /\ \A id : (Stored(id)' <=> Stored(id)) /\ (Alive(id)' <=> Alive(id))
  BY DEF history, Stored, Alive

-----------------------------------------------------------------------------
(* SignUp and Login *)

(* A sign-up or a log-in reserves an id that no other request holds. *)
LEMMA ArriveWithChild ==
  ASSUME AuthInv, NEW h \in Handlers, NEW child \in Tokens, Reserve(child),
         NEW call \in {"LookupNewUser", "LookupUser", "LookupForRefresh"},
         NEW r \in Request, Arrive(h, call, r), r.child = child,
         UNCHANGED <<tables, now, history>>,
         call = "LookupForRefresh" =>
            r.token \in committed /\ (r.late => ~Alive(r.token)),
         call # "LookupForRefresh" => r.user # Nil
  PROVE  Step(h)
<1>1. TypeOK /\ committed \subseteq issued
  BY DEF AuthInv, IdsUnique
<1>2. OthersStay(h) /\ pc'[h] = call /\ req'[h] = r
  BY <1>1, ArriveMove DEF PCs
<1>3. QuietStep(h) /\ child \in issued' \ issued
  BY <1>1 DEF QuietStep, Reserve, tables, TypeOK
<1>4. /\ committed' = committed
      /\ \A id : Alive(id)' <=> Alive(id)
  BY <1>3, SameRows DEF QuietStep
<1>5. LocalsFit(h)'
  BY <1>1, <1>2, <1>3, <1>4 DEF LocalsFit, FreshPCs
<1>6. LateRefused(h)'
  BY <1>2, <1>4 DEF LateRefused
<1>7. OwnFits(h)
  BY <1>2, <1>3, <1>5, <1>6 DEF OwnFits
<1>8. QED
  BY <1>2, <1>3, <1>7, QuietKeeps

LEMMA BeginSignUpStep ==
  ASSUME AuthInv, NEW h \in Handlers, NEW user \in Users, NEW child \in Tokens,
         BeginSignUp(h, user, child)
  PROVE  Step(h)
<1> DEFINE r == [NoRequest EXCEPT !.user = user, !.child = child]
<1>1. r \in Request /\ r.child = child /\ r.user # Nil
  BY TokenIdsAssumption DEF NoRequest, Request
<1>2. /\ Reserve(child) /\ UNCHANGED <<tables, now, history>>
      /\ Arrive(h, "LookupNewUser", r)
  BY DEF BeginSignUp
<1> HIDE DEF r
<1>3. QED
  BY <1>1, <1>2, ArriveWithChild

LEMMA BeginLoginStep ==
  ASSUME AuthInv, NEW h \in Handlers, NEW user \in Users, NEW child \in Tokens,
         BeginLogin(h, user, child)
  PROVE  Step(h)
<1> DEFINE r == [NoRequest EXCEPT !.user = user, !.child = child]
<1>1. r \in Request /\ r.child = child /\ r.user # Nil
  BY TokenIdsAssumption DEF NoRequest, Request
<1>2. /\ Reserve(child) /\ UNCHANGED <<tables, now, history>>
      /\ Arrive(h, "LookupUser", r)
  BY DEF BeginLogin
<1> HIDE DEF r
<1>3. QED
  BY <1>1, <1>2, ArriveWithChild

(* A call of SignUp or Login that changes no token. *)
LEMMA AccountStep ==
  ASSUME AuthInv, NEW h \in Handlers, pc[h] \in SignUpPCs \cup LoginPCs,
         NEW call \in {"CreateUser", "StoreToken"}, Goto(h, call) \/ Return(h),
         UNCHANGED <<tokens, locks, now, issued, history>>, users' \subseteq Users
  PROVE  Step(h)
<1>1. TypeOK /\ LocalsFit(h) /\ QuietStep(h)
  BY DEF AuthInv, QuietStep, TypeOK
<1>2. CASE Goto(h, call)
  <2>1. OthersStay(h) /\ pc'[h] = call /\ req'[h] = req[h]
    BY <1>1, <1>2, GotoMove DEF PCs
  <2>2. committed' = committed /\ issued' = issued
    BY DEF history
  <2>3. LocalsFit(h)' /\ LateRefused(h)'
    BY <1>1, <2>1, <2>2 DEF LocalsFit, LateRefused, FreshPCs
  <2>4. OwnFits(h)
    BY <2>1, <2>3 DEF OwnFits
  <2>5. QED
    BY <1>1, <2>1, <2>4, QuietKeeps
<1>3. CASE Return(h)
  BY <1>1, <1>3, ReturnFits, QuietKeeps
<1>4. QED
  BY <1>2, <1>3

LEMMA LookupNewUserStep ==
  ASSUME AuthInv, NEW h \in Handlers, LookupNewUser(h)
  PROVE  Step(h)
<1>1. users' \subseteq Users
  BY DEF LookupNewUser, tables, AuthInv, TypeOK
<1>2. QED
  BY <1>1, AccountStep DEF LookupNewUser, Fail, tables

LEMMA CreateUserStep ==
  ASSUME AuthInv, NEW h \in Handlers, CreateUser(h)
  PROVE  Step(h)
<1>1. users \subseteq Users /\ req[h].user \in Users
  BY RequestTypes DEF CreateUser, AuthInv, TypeOK, LocalsFit
<1>2. users' \subseteq Users
  BY <1>1 DEF CreateUser
<1>3. QED
  BY <1>2, AccountStep DEF CreateUser, Fail

LEMMA LookupUserStep ==
  ASSUME AuthInv, NEW h \in Handlers, LookupUser(h)
  PROVE  Step(h)
<1>1. users' \subseteq Users
  BY DEF LookupUser, tables, AuthInv, TypeOK
<1>2. QED
  BY <1>1, AccountStep DEF LookupUser, tables

(* A new row of the child changes no other row. *)
LEMMA ChildRow ==
  ASSUME AuthInv, NEW h \in Handlers, pc[h] \in FreshPCs,
         NEW row \in RefreshToken, tokens' = [tokens EXCEPT ![req[h].child] = row],
         now' = now
  PROVE  /\ tokens' \in [Tokens -> RefreshToken \cup {Nil}]
         /\ req[h].child \in issued /\ req[h].child \in Tokens \ committed
         /\ \A id \in Tokens : Stored(id)' => Stored(id) \/ id = req[h].child
         /\ \A id \in Tokens : Stored(id) => Stored(id)'
         /\ \A id \in committed : Stored(id)' => Stored(id)
         /\ \A id \in committed : ~Alive(id) => ~Alive(id)'
<1>1. TypeOK /\ LocalsFit(h) /\ committed \subseteq Tokens
  BY DEF AuthInv, TypeOK
<1>2. req[h].child \in Tokens \ committed /\ req[h].child \in issued
  BY <1>1, TokenIdsAssumption DEF LocalsFit
<1>3. \A id \in Tokens : id # req[h].child => tokens'[id] = tokens[id]
  BY <1>1, <1>2 DEF TypeOK
<1>4. tokens' \in [Tokens -> RefreshToken \cup {Nil}]
  BY <1>1, <1>2 DEF TypeOK
<1>5. QED
  BY <1>1, <1>2, <1>3, <1>4, NilNoTokenAssumption DEF Stored, Alive, TypeOK

LEMMA StoreTokenStep ==
  ASSUME AuthInv, NEW h \in Handlers, StoreToken(h)
  PROVE  Step(h)
<1> DEFINE row == NewToken(req[h].user, now)
<1>1. /\ TypeOK /\ LocalsFit(h) /\ pc[h] = "StoreToken" /\ pc[h] \in FreshPCs
      /\ now \in Int /\ now' = now /\ req[h].user \in Users
  BY RequestTypes, AuthBoundsAssumption
     DEF AuthInv, TypeOK, StoreToken, FreshPCs, LocalsFit
<1>2. row \in RefreshToken
  BY <1>1, TokenTypes
<1>3. UNCHANGED <<locks, users, now, issued, held, parent, ended>>
  BY DEF StoreToken
<1>4. CASE /\ tokens' = [tokens EXCEPT ![req[h].child] = row]
           /\ committed' = committed \cup {req[h].child}
           /\ Goto(h, "Respond") \/ Return(h)
  <2>1. /\ tokens' \in [Tokens -> RefreshToken \cup {Nil}]
        /\ req[h].child \in issued /\ req[h].child \in Tokens \ committed
        /\ \A id \in Tokens : Stored(id)' => Stored(id) \/ id = req[h].child
        /\ \A id \in Tokens : Stored(id) => Stored(id)'
        /\ \A id \in committed : Stored(id)' => Stored(id)
        /\ \A id \in committed : ~Alive(id) => ~Alive(id)'
    BY <1>1, <1>2, <1>4, ChildRow
  <2>2. Frame(h)
    BY <1>3, <1>4, <2>1
       DEF Frame, AuthInv, IdsUnique, EndedStaysEnded, HeldWasCommitted
  <2>3. OthersStay(h) /\ OwnFits(h)
    <3>1. CASE Return(h)
      BY <1>1, <3>1, ReturnFits
    <3>2. CASE Goto(h, "Respond")
      <4>1. OthersStay(h) /\ pc'[h] = "Respond" /\ req'[h] = req[h]
        BY <1>1, <3>2, GotoMove DEF PCs
      <4>2. LocalsFit(h)' /\ LateRefused(h)'
        BY <4>1, <1>3, <2>1 DEF LocalsFit, LateRefused, FreshPCs
      <4>3. QED
        BY <4>1, <4>2, <1>4 DEF OwnFits
    <3>3. QED
      BY <1>4, <3>1, <3>2
  <2>4. TypeOK'
    BY <1>1, <1>3, <1>4, <2>1, <2>3 DEF TypeOK, OthersStay
  <2>5. QED
    BY <2>2, <2>3, <2>4 DEF Step
<1>5. CASE UNCHANGED <<tokens, committed>> /\ Return(h)
  BY <1>1, <1>3, <1>5, ReturnFits, QuietKeeps
     DEF QuietStep, history, AuthInv, TypeOK
<1>6. QED
  BY <1>4, <1>5 DEF StoreToken, Fail

LEMMA RespondStep ==
  ASSUME AuthInv, NEW h \in Handlers, Respond(h)
  PROVE  Step(h)
<1>1. /\ TypeOK /\ pc[h] = "Respond" /\ Return(h) /\ req[h].child \in committed
      /\ UNCHANGED <<tokens, locks, users, now, issued, committed, parent, ended>>
  BY DEF AuthInv, Respond, HeldWasCommitted, tables
<1>2. held' \subseteq committed
  BY <1>1 DEF Respond, AuthInv, HeldWasCommitted
<1>3. OthersStay(h) /\ OwnFits(h)
  BY <1>1, ReturnFits
<1>4. \A id \in Tokens : (Stored(id)' <=> Stored(id)) /\ (Alive(id)' <=> Alive(id))
  BY <1>1 DEF Stored, Alive
<1>5. Frame(h)
  BY <1>1, <1>2, <1>4 DEF Frame, AuthInv, IdsUnique, EndedStaysEnded, TypeOK
<1>6. TypeOK'
  BY <1>1, <1>2, <1>3 DEF TypeOK, OthersStay
<1>7. QED
  BY <1>3, <1>5, <1>6 DEF Step

-----------------------------------------------------------------------------
(* RefreshTokens and Logout, outside the tables *)

LEMMA BeginRefreshStep ==
  ASSUME AuthInv, NEW h \in Handlers, NEW id \in Tokens, NEW child \in Tokens,
         BeginRefresh(h, id, child)
  PROVE  Step(h)
<1> DEFINE r == [NoRequest EXCEPT !.token = id, !.child = child,
                                  !.late = id \in ended \/ Expired(id)]
<1>1. r \in Request /\ r.child = child /\ r.token = id
  BY DEF NoRequest, Request
<1>2. r.late = (id \in ended \/ Expired(id))
  BY DEF NoRequest
<1>3. /\ Reserve(child) /\ UNCHANGED <<tables, now, history>> /\ id \in held
      /\ Arrive(h, "LookupForRefresh", r)
  BY DEF BeginRefresh
<1>4. Expired(id) => ~Alive(id)
  <2>1. Stored(id) => tokens[id].issued_at \in Int
    BY DEF AuthInv, TypeOK, Stored, RefreshToken
  <2>2. now \in Int /\ TTL \in Int
    BY AuthBoundsAssumption, TokenTimesAssumption DEF AuthInv, TypeOK
  <2>3. QED
    BY <2>1, <2>2 DEF Expired, Alive, IsValid
<1>5. r.token \in committed /\ (r.late => ~Alive(r.token))
  BY <1>1, <1>2, <1>3, <1>4 DEF AuthInv, HeldWasCommitted, EndedStaysEnded
<1> HIDE DEF r
<1>6. QED
  BY <1>1, <1>3, <1>5, ArriveWithChild

LEMMA BeginLogoutStep ==
  ASSUME AuthInv, NEW h \in Handlers, NEW id \in Tokens, BeginLogout(h, id)
  PROVE  Step(h)
<1> DEFINE r == [NoRequest EXCEPT !.token = id]
<1>1. r \in Request /\ r.child = Nil /\ r.token = id
  BY DEF NoRequest, Request
<1>2. /\ TypeOK /\ id \in committed /\ Arrive(h, "LookupForLogout", r)
      /\ UNCHANGED <<tables, now, issued, history>>
  BY DEF BeginLogout, AuthInv, HeldWasCommitted
<1> HIDE DEF r
<1>3. OthersStay(h) /\ pc'[h] = "LookupForLogout" /\ req'[h] = r
  BY <1>1, <1>2, ArriveMove DEF PCs
<1>4. QuietStep(h) /\ committed' = committed
  BY <1>2 DEF QuietStep, TypeOK, tables, history
<1>5. LocalsFit(h)' /\ LateRefused(h)'
  BY <1>1, <1>2, <1>3, <1>4 DEF LocalsFit, LateRefused, FreshPCs
<1>6. OwnFits(h)
  BY <1>1, <1>3, <1>5 DEF OwnFits
<1>7. QED
  BY <1>3, <1>4, <1>6, QuietKeeps

(* GetByHash, in RefreshTokens and in Logout. *)
LEMMA LookupStep ==
  ASSUME AuthInv, NEW h \in Handlers,
         NEW call \in {"LookupForRefresh", "LookupForLogout"},
         NEW next \in {"CheckRefresh", "CheckLogout"},
         call = "LookupForLogout" <=> next = "CheckLogout",
         Lookup(h, call, next)
  PROVE  Step(h)
<1> DEFINE t == req[h].token
           r == [req[h] EXCEPT !.stored = tokens[t]]
<1>1. /\ TypeOK /\ LocalsFit(h) /\ LateRefused(h) /\ pc[h] = call
      /\ UNCHANGED <<tables, now, issued, history>>
  BY DEF AuthInv, Lookup
<1>2. QuietStep(h) /\ committed' = committed
  BY <1>1 DEF QuietStep, TypeOK, tables, history
<1>3. CASE Fail(h)
  BY <1>1, <1>2, <1>3, ReturnFits, QuietKeeps DEF Fail
<1>4. CASE ~Fail(h)
  <2>1. pc'[h] = next
    BY <1>1, <1>4 DEF Lookup, TypeOK
  <2>2. /\ OthersStay(h) /\ t \in committed /\ req'[h] = r
    BY <2>1, LookupMove DEF PCs
  <2>3. /\ r.stored = tokens[t] /\ r.token = t /\ r.child = req[h].child
        /\ r.late = req[h].late /\ r.row = req[h].row /\ r.user = req[h].user
    BY <1>1 DEF TypeOK, Request
  <2>4. LateRefused(h)'
    <3>1. now' = now
      BY <1>1
    <3>2. next = "CheckRefresh" /\ req[h].late =>
             /\ ~Alive(t)' /\ (tokens[t] = Nil \/ ~IsValid(tokens[t], now))
      BY <1>1, <1>2, <2>2 DEF LateRefused, Alive, Stored, QuietStep
    <3> HIDE DEF r
    <3>3. QED
      BY <2>1, <2>2, <2>3, <3>1, <3>2 DEF LateRefused, IsValid
  <2> HIDE DEF r
  <2>5. LocalsFit(h)'
    BY <1>1, <1>2, <2>1, <2>2, <2>3 DEF LocalsFit, FreshPCs
  <2>6. OwnFits(h)
    BY <2>1, <2>2, <2>3, <2>4, <2>5 DEF OwnFits
  <2>7. QED
    BY <1>2, <2>2, <2>6, QuietKeeps
<1>5. QED
  BY <1>3, <1>4

(* IsValid, in RefreshTokens and in Logout: only a good copy goes on. *)
LEMMA CheckStep ==
  ASSUME AuthInv, NEW h \in Handlers,
         NEW call \in {"CheckRefresh", "CheckLogout"},
         NEW next \in {"GetUser", "UpdateRevoked"},
         call = "CheckLogout" <=> next = "UpdateRevoked",
         Check(h, call, next)
  PROVE  Step(h)
<1>1. /\ TypeOK /\ LocalsFit(h) /\ LateRefused(h) /\ pc[h] = call
      /\ UNCHANGED <<tables, now, issued, history>>
  BY DEF AuthInv, Check
<1>2. QuietStep(h) /\ committed' = committed /\ issued' = issued
  BY <1>1 DEF QuietStep, TypeOK, tables, history
<1>3. CASE Return(h)
  BY <1>1, <1>2, <1>3, ReturnFits, QuietKeeps
<1>4. CASE Goto(h, next)
  <2>1. OthersStay(h) /\ pc'[h] = next /\ req'[h] = req[h]
    BY <1>1, <1>4, GotoMove DEF PCs
  <2>2. req[h].stored # Nil /\ IsValid(req[h].stored, now)
    BY <1>1, <2>1, RequestTypes DEF Check, Return, TypeOK
  <2>3. LocalsFit(h)'
    BY <1>1, <1>2, <2>1, <2>2 DEF LocalsFit, FreshPCs
  <2>4. LateRefused(h)'
    BY <1>1, <2>1, <2>2 DEF LateRefused
  <2>5. OwnFits(h)
    BY <2>1, <2>3, <2>4 DEF OwnFits
  <2>6. QED
    BY <1>2, <2>1, <2>5, QuietKeeps
<1>5. QED
  BY <1>3, <1>4 DEF Check

LEMMA GetUserStep ==
  ASSUME AuthInv, NEW h \in Handlers, GetUser(h)
  PROVE  Step(h)
<1>1. /\ TypeOK /\ LocalsFit(h) /\ LateRefused(h) /\ pc[h] = "GetUser"
      /\ UNCHANGED <<tables, now, issued, history>>
  BY DEF AuthInv, GetUser
<1>2. QuietStep(h) /\ committed' = committed /\ issued' = issued
  BY <1>1 DEF QuietStep, TypeOK, tables, history
<1>3. CASE Return(h)
  BY <1>1, <1>2, <1>3, ReturnFits, QuietKeeps
<1>4. CASE Goto(h, "InsertChild")
  <2>1. OthersStay(h) /\ pc'[h] = "InsertChild" /\ req'[h] = req[h]
    BY <1>1, <1>4, GotoMove DEF PCs
  <2>2. LocalsFit(h)' /\ LateRefused(h)'
    BY <1>1, <1>2, <2>1 DEF LocalsFit, LateRefused, FreshPCs
  <2>3. OwnFits(h)
    BY <2>1, <2>2 DEF OwnFits
  <2>4. QED
    BY <1>2, <2>1, <2>3, QuietKeeps
<1>5. QED
  BY <1>3, <1>4 DEF GetUser, Fail

LEMMA InsertChildStep ==
  ASSUME AuthInv, NEW h \in Handlers, InsertChild(h)
  PROVE  Step(h)
<1> DEFINE row == NewToken(req[h].stored.user_id, now)
           r == [req[h] EXCEPT !.row = row]
<1>1. /\ TypeOK /\ LocalsFit(h) /\ LateRefused(h) /\ pc[h] = "InsertChild"
      /\ UNCHANGED <<tables, now, issued, history>>
  BY DEF AuthInv, InsertChild
<1>2. QuietStep(h) /\ committed' = committed /\ issued' = issued
  BY <1>1 DEF QuietStep, TypeOK, tables, history
<1>3. CASE Goto(h, "Rollback")
  <2>1. OthersStay(h) /\ pc'[h] = "Rollback" /\ req'[h] = req[h]
    BY <1>1, <1>3, GotoMove DEF PCs
  <2>2. LocalsFit(h)' /\ LateRefused(h)'
    BY <1>1, <1>2, <2>1 DEF LocalsFit, LateRefused, FreshPCs
  <2>3. OwnFits(h)
    BY <2>1, <2>2 DEF OwnFits
  <2>4. QED
    BY <1>2, <2>1, <2>3, QuietKeeps
<1>4. CASE /\ pc' = [pc EXCEPT ![h] = "UpdateParent"]
           /\ req' = [req EXCEPT ![h].row = row]
  <2>1. row \in RefreshToken /\ row # Nil
    <3>1. req[h].stored \in RefreshToken /\ now \in Int
      BY <1>1, RequestTypes, AuthBoundsAssumption DEF LocalsFit, TypeOK
    <3>2. QED
      BY <3>1, TokenTypes DEF RefreshToken
  <2> HIDE DEF row
  <2>2. r \in Request
    BY <1>1, <2>1, RequestTypes DEF TypeOK, Request
  <2>3. /\ r.token = req[h].token /\ r.child = req[h].child /\ r.stored = req[h].stored
        /\ r.late = req[h].late /\ r.row = row /\ r.user = req[h].user
    BY <1>1 DEF TypeOK, Request
  <2>4. req' = [req EXCEPT ![h] = r]
    BY <1>1, <1>4 DEF TypeOK
  <2> HIDE DEF r
  <2>5. /\ pc'[h] = "UpdateParent" /\ req'[h] = r /\ OthersStay(h)
    BY <1>1, <1>4, <2>2, <2>4 DEF TypeOK, OthersStay, PCs
  <2>6. LocalsFit(h)' /\ LateRefused(h)'
    BY <1>1, <1>2, <2>1, <2>3, <2>5 DEF LocalsFit, LateRefused, FreshPCs
  <2>7. OwnFits(h)
    BY <2>3, <2>5, <2>6 DEF OwnFits
  <2>8. QED
    BY <1>2, <2>5, <2>7, QuietKeeps
<1>5. QED
  BY <1>3, <1>4 DEF InsertChild

-----------------------------------------------------------------------------
(* Row locks and the transaction *)

(* Taking or releasing the row lock of h alone has the frame. *)
LEMMA LockFrame ==
  ASSUME AuthInv, NEW h \in Handlers, OthersStay(h),
         UNCHANGED <<tokens, users, now, issued, history>>,
         locks' \in [Tokens -> Handlers \cup {Nil}],
         \A id \in Tokens : \/ locks'[id] = locks[id]
                            \/ locks[id] \in {h, Nil} /\ locks'[id] \in {h, Nil},
         \A id \in Tokens : locks'[id] # Nil => Stored(id)
  PROVE  Frame(h) /\ TypeOK'
<1>1. \A id \in Tokens : (Stored(id)' <=> Stored(id)) /\ (Alive(id)' <=> Alive(id))
  BY DEF Stored, Alive
<1>2. TypeOK
  BY DEF AuthInv
<1>3. \A id \in Tokens, g \in Handlers \ {h} : locks[id] = g => locks'[id] = g
  BY TokenIdsAssumption
<1>4. Frame(h)
  BY <1>1, <1>2, <1>3
     DEF Frame, history, AuthInv, IdsUnique, HeldWasCommitted, EndedStaysEnded, TypeOK
<1>5. TypeOK'
  BY <1>2 DEF TypeOK, OthersStay, history
<1>6. QED
  BY <1>4, <1>5

LEMMA UpdateParentStep ==
  ASSUME AuthInv, NEW h \in Handlers, UpdateParent(h)
  PROVE  Step(h)
<1> PICK id : id = req[h].token
  OBVIOUS
<1>1. /\ TypeOK /\ LocalsFit(h) /\ LateRefused(h) /\ pc[h] = "UpdateParent"
      /\ UNCHANGED <<tokens, users, now, issued, history>>
      /\ id \in Tokens /\ locks \in [Tokens -> Handlers \cup {Nil}]
      /\ \A t \in Tokens : locks[t] # Nil => Stored(t)
  BY DEF AuthInv, UpdateParent, LocalsFit, TypeOK
<1>2. PICK call \in {"Commit", "Rollback"} : Goto(h, call)
  BY DEF UpdateParent
<1>3. OthersStay(h) /\ pc'[h] = call /\ req'[h] = req[h]
  BY <1>1, <1>2, GotoMove DEF PCs
<1>4. \/ Stored(id) /\ locks[id] = Nil /\ locks' = [locks EXCEPT ![id] = h]
      \/ locks' = locks
  BY DEF UpdateParent
<1>5. Frame(h) /\ TypeOK'
  <2>1. locks' \in [Tokens -> Handlers \cup {Nil}]
    BY <1>1, <1>4
  <2>2. \A t \in Tokens : \/ locks'[t] = locks[t]
                          \/ locks[t] \in {h, Nil} /\ locks'[t] \in {h, Nil}
    BY <1>1, <1>4
  <2>3. \A t \in Tokens : locks'[t] # Nil => Stored(t)
    BY <1>1, <1>4
  <2>4. QED
    BY <1>1, <1>3, <2>1, <2>2, <2>3, LockFrame
<1>6. call = "Commit" => (Stored(id)' => locks'[id] = h)
  <2>1. call = "Commit" => ~Goto(h, "Rollback")
    BY <1>1, <1>2 DEF Goto, TypeOK
  <2>2. QED
    BY <1>1, <2>1 DEF UpdateParent, Stored
<1>7. LocalsFit(h)' /\ LateRefused(h)'
  BY <1>1, <1>3, <1>6 DEF LocalsFit, LateRefused, FreshPCs, history
<1>8. OwnFits(h)
  BY <1>3, <1>7 DEF OwnFits
<1>9. QED
  BY <1>3, <1>5, <1>8 DEF Step

(* Unlock frees the rows of h and no other. *)
LEMMA UnlockFrees ==
  ASSUME TypeOK, NEW h \in Handlers, Unlock(h)
  PROVE  /\ locks' \in [Tokens -> Handlers \cup {Nil}]
         /\ \A id \in Tokens : \/ locks'[id] = locks[id] /\ locks[id] # h
                               \/ locks[id] = h /\ locks'[id] = Nil
  BY DEF Unlock, TypeOK

LEMMA RollbackStep ==
  ASSUME AuthInv, NEW h \in Handlers, Rollback(h)
  PROVE  Step(h)
<1>1. /\ TypeOK /\ Return(h) /\ Unlock(h)
      /\ UNCHANGED <<tokens, users, now, issued, history>>
      /\ \A id \in Tokens : locks[id] # Nil => Stored(id)
  BY DEF AuthInv, Rollback
<1>2. OthersStay(h) /\ OwnFits(h)
  BY <1>1, ReturnFits
<1>3. Frame(h) /\ TypeOK'
  BY <1>1, <1>2, UnlockFrees, LockFrame
<1>4. QED
  BY <1>2, <1>3 DEF Step

(* The COMMIT of a rotation: the row of the child appears, and the row of  *)
(* the token, if it is still there, is revoked.                            *)
LEMMA CommitEffect ==
  ASSUME AuthInv, NEW h \in Handlers, pc[h] = "Commit", CommitRotation(h), Unlock(h),
         UNCHANGED <<users, now, issued, held>>
  PROVE  /\ tokens' \in [Tokens -> RefreshToken \cup {Nil}]
         /\ req[h].child \in committed' /\ req[h].child \in Tokens
         /\ Frame(h)
         /\ committed' \subseteq Tokens /\ ended' \subseteq Tokens
         /\ parent' \in [Tokens -> Tokens \cup {Nil}]
<1> PICK id, child : id = req[h].token /\ child = req[h].child
  OBVIOUS
<1> DEFINE old == Written(tokens[id], Rotated(req[h].stored))
<1>1. /\ TypeOK /\ LocalsFit(h)
      /\ \A t \in Tokens : locks[t] # Nil => Stored(t)
      /\ \A t \in Tokens : Stored(t) => t \in committed
  BY DEF AuthInv, IdsUnique
<1>2. id \in committed /\ child \in Tokens \ committed /\ child \in issued
  BY <1>1, TokenIdsAssumption DEF LocalsFit, FreshPCs
<1>3. req[h].row \in RefreshToken /\ req[h].stored \in RefreshToken
  BY <1>1, RequestTypes DEF LocalsFit
<1>4. locks[id] = h => Stored(id)
  BY <1>1, <1>2, TokenIdsAssumption DEF TypeOK
<1>5. Stored(id) => locks[id] = h
  BY <1>1 DEF LocalsFit
<1>6. locks[id] = h => old \in RefreshToken /\ old.revoked
  BY <1>1, <1>2, <1>3, <1>4, TokenTypes DEF TypeOK, Stored
<1> HIDE DEF old
<1>7. /\ tokens'[child] = req[h].row
      /\ tokens'[id] = IF locks[id] = h THEN old ELSE tokens[id]
      /\ \A t \in Tokens \ {child, id} : tokens'[t] = tokens[t]
  BY <1>1, <1>2 DEF CommitRotation, old, TypeOK
<1>8. tokens' \in [Tokens -> RefreshToken \cup {Nil}]
  <2>1. tokens' = [t \in Tokens |-> IF t = child THEN req[h].row
                                    ELSE IF t = id /\ locks[id] = h THEN old
                                    ELSE tokens[t]]
    BY DEF CommitRotation, old
  <2>2. tokens \in [Tokens -> RefreshToken \cup {Nil}]
    BY <1>1 DEF TypeOK
  <2>3. QED
    BY <1>3, <1>6, <2>1, <2>2
<1>9. \A t \in committed : (Stored(t)' => Stored(t)) /\ (~Alive(t) => ~Alive(t)')
  <2>1. ASSUME NEW t \in committed, t # id
        PROVE  (Stored(t)' <=> Stored(t)) /\ (Alive(t)' <=> Alive(t))
    BY <1>1, <1>2, <1>7, <2>1 DEF Stored, Alive, TypeOK
  <2>2. Stored(id)' => Stored(id)
    BY <1>4, <1>7 DEF Stored
  <2>3. ~Alive(id)'
    BY <1>5, <1>6, <1>7 DEF Alive, Stored, IsValid
  <2>4. QED
    BY <2>1, <2>2, <2>3
<1>10. ~Alive(id)'
  BY <1>5, <1>6, <1>7 DEF Alive, Stored, IsValid
<1>11. \A t \in Tokens : Stored(t)' => Stored(t) \/ t = child
  BY <1>4, <1>7 DEF Stored
<1>12. \A t \in Tokens : locks'[t] # Nil => Stored(t)'
  <2>1. ASSUME NEW t \in Tokens, locks'[t] # Nil
        PROVE  Stored(t)'
    <3>1. locks[t] # h /\ Stored(t) /\ t \in committed
      BY <1>1, <2>1, UnlockFrees
    <3>2. t # id
      BY <1>5, <3>1
    <3>3. QED
      BY <1>2, <1>7, <3>1, <3>2 DEF Stored
  <2>2. QED
    BY <2>1
<1>13. /\ committed' = committed \cup {child}
       /\ parent' = [parent EXCEPT ![child] = id]
       /\ ended' = ended \cup {id}
  BY DEF CommitRotation
<1>14. \A t \in Tokens, g \in Handlers \ {h} : locks[t] = g => locks'[t] = g
  BY <1>1, UnlockFrees
<1>15. \A c \in Tokens : parent'[c] # Nil => c \in committed' /\ parent'[c] \in ended'
  BY <1>1, <1>2, <1>13 DEF AuthInv, TypeOK
<1>16. \A t \in ended' : ~Alive(t)'
  BY <1>9, <1>10, <1>13 DEF AuthInv, EndedStaysEnded
<1>17. /\ committed' \subseteq issued' /\ ended \subseteq ended'
       /\ ended' \subseteq committed /\ held' \subseteq committed'
  BY <1>1, <1>2, <1>13 DEF AuthInv, IdsUnique, HeldWasCommitted
<1>18. Frame(h)
  BY <1>1, <1>9, <1>11, <1>12, <1>13, <1>14, <1>15, <1>16, <1>17 DEF Frame
<1>19. QED
  BY <1>1, <1>2, <1>8, <1>13, <1>18 DEF TypeOK

LEMMA CommitStep ==
  ASSUME AuthInv, NEW h \in Handlers, Commit(h)
  PROVE  Step(h)
<1>1. /\ TypeOK /\ LocalsFit(h) /\ pc[h] = "Commit" /\ Unlock(h)
      /\ UNCHANGED <<users, now, issued, held>>
      /\ \A id \in Tokens : locks[id] # Nil => Stored(id)
  BY DEF AuthInv, Commit
<1>2. CASE CommitRotation(h) /\ (Goto(h, "Respond") \/ Return(h))
  <2>1. /\ tokens' \in [Tokens -> RefreshToken \cup {Nil}]
        /\ req[h].child \in committed' /\ req[h].child \in Tokens
        /\ committed' \subseteq Tokens /\ ended' \subseteq Tokens
        /\ parent' \in [Tokens -> Tokens \cup {Nil}]
    BY <1>1, <1>2, CommitEffect
  <2>2. Frame(h)
    BY <1>1, <1>2, CommitEffect
  <2>3. OthersStay(h) /\ OwnFits(h)
    <3>1. CASE Return(h)
      BY <1>1, <3>1, ReturnFits
    <3>2. CASE Goto(h, "Respond")
      <4>1. OthersStay(h) /\ pc'[h] = "Respond" /\ req'[h] = req[h]
        BY <1>1, <3>2, GotoMove DEF PCs
      <4>2. LocalsFit(h)' /\ LateRefused(h)'
        BY <1>1, <4>1 DEF LocalsFit, LateRefused, FreshPCs
      <4>3. QED
        BY <2>1, <4>1, <4>2 DEF OwnFits
    <3>3. QED
      BY <1>2, <3>1, <3>2
  <2>4. locks' \in [Tokens -> Handlers \cup {Nil}]
    BY <1>1, UnlockFrees
  <2>5. TypeOK'
    BY <1>1, <2>1, <2>3, <2>4 DEF TypeOK, OthersStay
  <2>6. QED
    BY <2>2, <2>3, <2>5 DEF Step
<1>3. CASE Return(h) /\ UNCHANGED <<tokens, committed, parent, ended>>
  <2>1. OthersStay(h) /\ OwnFits(h)
    BY <1>1, <1>3, ReturnFits
  <2>2. UNCHANGED <<tokens, users, now, issued, history>>
    BY <1>1, <1>3 DEF history
  <2>3. Frame(h) /\ TypeOK'
    BY <1>1, <2>1, <2>2, UnlockFrees, LockFrame
  <2>4. QED
    BY <2>1, <2>3 DEF Step
<1>4. QED
  BY <1>2, <1>3 DEF Commit, Fail

(* The UPDATE of Logout: it waits for the row's lock and revokes the row. *)
LEMMA UpdateRevokedStep ==
  ASSUME AuthInv, NEW h \in Handlers, UpdateRevoked(h)
  PROVE  Step(h)
<1> PICK id : id = req[h].token
  OBVIOUS
<1> DEFINE new == Written(tokens[id], Revoked(req[h].stored))
<1>1. /\ TypeOK /\ LocalsFit(h) /\ pc[h] = "UpdateRevoked" /\ Return(h)
      /\ UNCHANGED <<locks, users, now, issued, held, committed, parent>>
      /\ \A t \in Tokens : locks[t] # Nil => Stored(t)
      /\ \A t \in Tokens : Stored(t) => t \in committed
  BY DEF AuthInv, IdsUnique, UpdateRevoked, Fail
<1>2. id \in committed /\ id \in Tokens /\ req[h].stored \in RefreshToken
  BY <1>1, RequestTypes DEF LocalsFit, TypeOK
<1>3. Stored(id) => new \in RefreshToken /\ new # Nil /\ new.revoked
  BY <1>1, <1>2, TokenTypes DEF TypeOK, Stored
<1> HIDE DEF new
<1>4. \/ /\ tokens' = [tokens EXCEPT ![id] = IF tokens[id] = Nil THEN Nil ELSE new]
         /\ ended' \in {ended, ended \cup {id}}
      \/ UNCHANGED <<tokens, ended>>
  BY <1>1, <1>2 DEF UpdateRevoked, new, TypeOK
<1>5. OthersStay(h) /\ OwnFits(h)
  BY <1>1, ReturnFits
<1>6. CASE /\ tokens' = [tokens EXCEPT ![id] = IF tokens[id] = Nil THEN Nil ELSE new]
           /\ ended' \in {ended, ended \cup {id}}
  <2>1. tokens' \in [Tokens -> RefreshToken \cup {Nil}]
    BY <1>1, <1>2, <1>3, <1>6 DEF TypeOK, Stored
  <2>2. \A t \in Tokens : Stored(t)' <=> Stored(t)
    BY <1>1, <1>2, <1>3, <1>6 DEF TypeOK, Stored
  <2>3. \A t \in committed : t = id => ~Alive(t)'
    BY <1>1, <1>2, <1>3, <1>6 DEF TypeOK, Stored, Alive, IsValid
  <2>4. \A t \in committed : t # id => (Alive(t)' <=> Alive(t))
    BY <1>1, <1>2, <1>6 DEF TypeOK, Stored, Alive
  <2>5. \A t \in ended' : ~Alive(t)'
    BY <1>2, <1>6, <2>3, <2>4 DEF AuthInv, EndedStaysEnded
  <2>6. Frame(h)
    <3>1. \A t \in Tokens : (Stored(t)' => t \in committed) /\ (locks'[t] # Nil => Stored(t)')
      BY <1>1, <2>2
    <3>2. \A t \in committed : t \in Tokens /\ (~Alive(t) => ~Alive(t)')
      BY <1>1, <2>3, <2>4 DEF TypeOK
    <3>3. /\ ended \subseteq ended' /\ ended' \subseteq committed
          /\ committed \subseteq issued /\ held \subseteq committed
          /\ \A c \in Tokens : parent[c] # Nil => c \in committed /\ parent[c] \in ended
      BY <1>2, <1>6 DEF AuthInv, IdsUnique, HeldWasCommitted
    <3>4. QED
      BY <1>1, <2>2, <2>5, <3>1, <3>2, <3>3 DEF Frame
  <2>7. TypeOK'
    BY <1>1, <1>2, <1>5, <1>6, <2>1 DEF TypeOK, OthersStay
  <2>8. QED
    BY <1>5, <2>6, <2>7 DEF Step
<1>7. CASE UNCHANGED <<tokens, ended>>
  <2>1. QuietStep(h)
    BY <1>1, <1>7 DEF QuietStep, history, TypeOK
  <2>2. QED
    BY <1>5, <2>1, QuietKeeps
<1>8. QED
  BY <1>4, <1>6, <1>7

-----------------------------------------------------------------------------
(* The environment *)

(* Rows that only get worse, with every request as it was, keep the        *)
(* invariant.                                                              *)
LEMMA WorseRows ==
  ASSUME AuthInv, TypeOK', UNCHANGED <<issued, pc, req, history>>,
         \A id \in Tokens : /\ Stored(id)' => Stored(id)
                            /\ ~Alive(id) => ~Alive(id)'
                            /\ locks'[id] # Nil => Stored(id)'
                            /\ locks'[id] = locks[id],
         \A token \in RefreshToken : ~IsValid(token, now) => ~IsValid(token, now)'
  PROVE  AuthInv'
<1>1. /\ TypeOK /\ committed' = committed /\ ended' = ended /\ parent' = parent
      /\ held' = held /\ committed \subseteq Tokens /\ ended \subseteq Tokens
  BY DEF AuthInv, TypeOK, history
<1>2. IdsUnique' /\ HeldWasCommitted' /\ EndedStaysEnded'
  BY <1>1 DEF AuthInv, IdsUnique, HeldWasCommitted, EndedStaysEnded
<1>3. ASSUME NEW h \in Handlers PROVE LocalsFit(h)' /\ LateRefused(h)'
  <2>1. LocalsFit(h) /\ LateRefused(h)
    BY DEF AuthInv
  <2>2. pc[h] \in RefreshPCs => req[h].token \in Tokens
    BY <1>1, <2>1 DEF LocalsFit
  <2>3. LocalsFit(h)'
    BY <1>1, <2>1, <2>2 DEF LocalsFit, Stored, FreshPCs
  <2>4. LateRefused(h)'
    <3>1. req[h].stored = Nil \/ req[h].stored \in RefreshToken
      BY <1>1, RequestTypes
    <3>2. pc' = pc /\ req' = req
      OBVIOUS
    <3>3. \A id \in Tokens : id = req[h].token =>
             req'[h].token = id /\ (~Alive(id) => ~Alive(id)')
      BY <3>2
    <3>4. \A token \in RefreshToken : token = req[h].stored =>
             req'[h].stored = token /\ (~IsValid(token, now) => ~IsValid(token, now)')
      BY <3>2
    <3>5. QED
      BY <2>1, <2>2, <3>1, <3>2, <3>3, <3>4 DEF LateRefused, Alive, Stored, IsValid
  <2>5. QED
    BY <2>3, <2>4
<1>4. QED
  BY <1>1, <1>2, <1>3 DEF AuthInv

(* A token good later was good before: time and the rest only end it. *)
LEMMA PurgeKeeps ==
  ASSUME AuthInv, Purge
  PROVE  AuthInv'
<1>1. /\ TypeOK /\ \A id \in Tokens : locks[id] # Nil => Stored(id)
      /\ UNCHANGED <<locks, users, now, issued, pc, req, history>>
      /\ \A id \in Tokens : Purgeable(id, now) => locks[id] = Nil
      /\ tokens' = [id \in Tokens |-> IF Purgeable(id, now) THEN Nil ELSE tokens[id]]
  BY DEF AuthInv, Purge, DeleteExpiredAndRevoked
<1>2. TypeOK'
  <2>1. tokens' \in [Tokens -> RefreshToken \cup {Nil}]
    BY <1>1 DEF TypeOK
  <2>2. QED
    BY <1>1, <2>1 DEF TypeOK, history
<1>3. \A id \in Tokens : tokens'[id] = Nil \/ tokens'[id] = tokens[id]
  BY <1>1
<1>4. \A id \in Tokens : locks[id] # Nil => Stored(id)'
  BY <1>1 DEF Stored
<1>5. \A token \in RefreshToken : ~IsValid(token, now) => ~IsValid(token, now)'
  BY <1>1 DEF IsValid
<1>6. \A id \in Tokens : (Stored(id)' => Stored(id)) /\ (~Alive(id) => ~Alive(id)')
  BY <1>1, <1>3 DEF Stored, Alive
<1>7. QED
  BY <1>1, <1>2, <1>4, <1>5, <1>6, WorseRows

LEMMA TickKeeps ==
  ASSUME AuthInv, Tick
  PROVE  AuthInv'
<1>1. /\ TypeOK /\ now' = now + 1 /\ now < MaxNow /\ now \in Int /\ TTL \in Int
      /\ UNCHANGED <<tokens, locks, users, issued, pc, req, history>>
      /\ \A id \in Tokens : locks[id] # Nil => Stored(id)
  BY AuthBoundsAssumption, TokenTimesAssumption DEF AuthInv, Tick, TypeOK, tables
<1>2. TypeOK'
  BY <1>1, AuthBoundsAssumption DEF TypeOK, history
<1>3. \A token \in RefreshToken : ~IsValid(token, now) => ~IsValid(token, now)'
  BY <1>1 DEF IsValid, RefreshToken
<1>4. \A id \in Tokens : Stored(id)' <=> Stored(id)
  BY <1>1 DEF Stored
<1>5. \A id \in Tokens : ~Alive(id) => ~Alive(id)'
  <2>1. \A id \in Tokens : Stored(id) => tokens[id] \in RefreshToken
    BY <1>1 DEF TypeOK, Stored
  <2>2. QED
    BY <1>1, <1>3, <1>4, <2>1 DEF Alive
<1>6. QED
  BY <1>1, <1>2, <1>3, <1>4, <1>5, WorseRows

(* A crash empties every handler and releases every lock. *)
LEMMA CrashKeeps ==
  ASSUME AuthInv, Crash
  PROVE  AuthInv'
<1>1. /\ TypeOK /\ UNCHANGED <<tokens, users, now, issued, history>>
      /\ \A h \in Handlers : pc'[h] = Idle /\ req'[h] = NoRequest
      /\ \A id \in Tokens : locks'[id] = Nil
  BY DEF AuthInv, Crash
<1>2. TypeOK'
  BY <1>1, NoRequestType DEF TypeOK, Crash, history, PCs
<1>3. \A id \in Tokens : (Stored(id)' <=> Stored(id)) /\ (Alive(id)' <=> Alive(id))
  BY <1>1 DEF Stored, Alive
<1>4. NoRequest.child = Nil
  BY DEF NoRequest
<1>5. \A h \in Handlers : LocalsFit(h)' /\ LateRefused(h)'
  BY <1>1, <1>4 DEF LocalsFit, LateRefused, FreshPCs
<1>6. IdsUnique' /\ HeldWasCommitted'
  BY <1>1, <1>3, <1>4 DEF AuthInv, IdsUnique, HeldWasCommitted, history
<1>7. EndedStaysEnded'
  BY <1>1, <1>3 DEF AuthInv, EndedStaysEnded, history, TypeOK
<1>8. QED
  BY <1>1, <1>2, <1>5, <1>6, <1>7 DEF AuthInv, history

LEMMA StutterKeeps ==
  ASSUME AuthInv, UNCHANGED vars
  PROVE  AuthInv'
<1>1. /\ UNCHANGED <<tokens, locks, users, now, issued, pc, req, history>>
      /\ TypeOK /\ \A id \in Tokens : locks[id] # Nil => Stored(id)
  BY DEF vars, tables, AuthInv
<1>2. TypeOK'
  BY <1>1 DEF TypeOK, history
<1>3. \A token \in RefreshToken : ~IsValid(token, now) => ~IsValid(token, now)'
  BY <1>1 DEF IsValid
<1>4. \A id \in Tokens : (Stored(id)' <=> Stored(id)) /\ (Alive(id)' <=> Alive(id))
  BY <1>1 DEF Stored, Alive
<1>5. QED
  BY <1>1, <1>2, <1>3, <1>4, WorseRows

-----------------------------------------------------------------------------
(* The invariant *)

(* Every step of a handler is a Step. *)
LEMMA HandlerSteps ==
  ASSUME AuthInv, NEW h \in Handlers, Arrival(h) \/ HandlerStep(h)
  PROVE  Step(h)
<1>1. CASE Arrival(h)
  BY <1>1, BeginSignUpStep, BeginLoginStep, BeginRefreshStep, BeginLogoutStep
     DEF Arrival
<1>2. CASE HandlerStep(h)
  <2>1. LookupNewUser(h) \/ CreateUser(h) \/ LookupUser(h) \/ StoreToken(h)
           \/ Respond(h) => Step(h)
    BY LookupNewUserStep, CreateUserStep, LookupUserStep, StoreTokenStep, RespondStep
  <2>2. LookupForRefresh(h) \/ LookupForLogout(h) => Step(h)
    BY LookupStep DEF LookupForRefresh, LookupForLogout
  <2>3. CheckRefresh(h) \/ CheckLogout(h) => Step(h)
    BY CheckStep DEF CheckRefresh, CheckLogout
  <2>4. GetUser(h) \/ InsertChild(h) \/ UpdateParent(h) \/ Commit(h) \/ Rollback(h)
           \/ UpdateRevoked(h) => Step(h)
    BY GetUserStep, InsertChildStep, UpdateParentStep, CommitStep, RollbackStep,
       UpdateRevokedStep
  <2>5. QED
    BY <1>2, <2>1, <2>2, <2>3, <2>4 DEF HandlerStep
<1>3. QED
  BY <1>1, <1>2

LEMMA InvStep == AuthInv /\ [Next]_vars => AuthInv'
<1> SUFFICES ASSUME AuthInv, [Next]_vars PROVE AuthInv'
  OBVIOUS
<1>1. ASSUME NEW h \in Handlers, Arrival(h) \/ HandlerStep(h) PROVE AuthInv'
  BY <1>1, HandlerSteps, StepKeeps
<1>2. QED
  BY <1>1, PurgeKeeps, TickKeeps, CrashKeeps, StutterKeeps DEF Next

LEMMA InitInv == Init => AuthInv
<1> SUFFICES ASSUME Init PROVE AuthInv
  OBVIOUS
<1>1. TypeOK
  BY NoRequestType, AuthBoundsAssumption DEF Init, TokensInit, TypeOK, PCs
<1>2. NoRequest.child = Nil
  BY DEF NoRequest
<1>3. \A id \in Tokens : ~Stored(id) /\ locks[id] = Nil /\ parent[id] = Nil
  BY DEF Init, TokensInit, Stored
<1>4. \A h \in Handlers : LocalsFit(h) /\ LateRefused(h)
  BY <1>2 DEF Init, LocalsFit, LateRefused, FreshPCs
<1>5. IdsUnique /\ HeldWasCommitted /\ EndedStaysEnded
  BY <1>2, <1>3 DEF Init, IdsUnique, HeldWasCommitted, EndedStaysEnded
<1>6. QED
  BY <1>1, <1>3, <1>4, <1>5 DEF AuthInv, Init

(* What is committed, held, replaced and locked fits what the requests of  *)
(* auth_service.go have read and are about to write, in every state.       *)
THEOREM AuthInvariant == Spec => []AuthInv
  BY InitInv, InvStep, PTL DEF Spec

(* RefreshTokens answers a token and what replaces it by one good token:   *)
(* through failed INSERTs, UPDATEs and COMMITs, Logout's old copies and    *)
(* the purge.                                                              *)
THEOREM RotationIsAtomic == Spec => []RotationAtomic
<1>1. AuthInv => RotationAtomic
  BY DEF AuthInv, RotationAtomic, EndedStaysEnded
<1>2. QED
  BY <1>1, AuthInvariant, PTL

(* RefreshTokens never opens a transaction for a token that was rotated,   *)
(* logged out or expired when the request arrived.                         *)
THEOREM LateIsRefused == Spec => []NoLateRotation
<1>1. AuthInv => NoLateRotation
  BY DEF AuthInv, NoLateRotation, LateRefused
<1>2. QED
  BY <1>1, AuthInvariant, PTL

(* Update never writes an old copy back over a rotation or a logout.       *)
THEOREM EndedIsFinal == Spec => []EndedStaysEnded
  BY AuthInvariant, PTL DEF AuthInv

-----------------------------------------------------------------------------
(* Row locks *)

(* Only the UPDATE of a rotation takes a row's lock, and only the end of   *)
(* its transaction gives it back.                                          *)
LEMMA LockSteps ==
  ASSUME NEW h \in Handlers, Arrival(h) \/ HandlerStep(h)
  PROVE  \/ UNCHANGED locks /\ pc[h] \notin {"Commit", "Rollback"}
         \/ UpdateParent(h)
         \/ Unlock(h)
<1>1. CASE Arrival(h)
  BY <1>1 DEF Arrival, BeginSignUp, BeginLogin, BeginRefresh, BeginLogout, Arrive, tables
<1>2. CASE HandlerStep(h)
  <2>1. CASE LookupNewUser(h) \/ CreateUser(h) \/ LookupUser(h) \/ StoreToken(h)
                \/ Respond(h)
    BY <2>1 DEF LookupNewUser, CreateUser, LookupUser, StoreToken, Respond, tables
  <2>2. CASE LookupForRefresh(h) \/ LookupForLogout(h) \/ CheckRefresh(h)
                \/ CheckLogout(h) \/ GetUser(h) \/ InsertChild(h) \/ UpdateRevoked(h)
    BY <2>2 DEF LookupForRefresh, LookupForLogout, Lookup, CheckRefresh, CheckLogout,
                Check, GetUser, InsertChild, UpdateRevoked, tables
  <2>3. CASE UpdateParent(h) \/ Commit(h) \/ Rollback(h)
    BY <2>3 DEF Commit, Rollback
  <2>4. QED
    BY <1>2, <2>1, <2>2, <2>3 DEF HandlerStep
<1>3. QED
  BY <1>1, <1>2

(* The UPDATE leaves its request at the end of the transaction.            *)
LEMMA UpdateEndsWaiting ==
  ASSUME TypeOK, NEW h \in Handlers, UpdateParent(h)
  PROVE  /\ pc'[h] \in {"Commit", "Rollback"}
         /\ req'[h] = req[h]
         /\ \A id \in Tokens : \/ locks'[id] = locks[id]
                               \/ locks'[id] = h /\ id = req[h].token
<1>1. PICK call \in {"Commit", "Rollback"} : Goto(h, call)
  BY DEF UpdateParent
<1>2. pc'[h] = call /\ req'[h] = req[h]
  BY <1>1, GotoMove DEF PCs
<1>3. PICK id : id = req[h].token
  OBVIOUS
<1>4. \/ locks' = [locks EXCEPT ![id] = h]
      \/ locks' = locks
  BY <1>3 DEF UpdateParent
<1>5. \A t \in Tokens : locks'[t] = locks[t] \/ (locks'[t] = h /\ t = id)
  BY <1>4 DEF TypeOK
<1>6. QED
  BY <1>2, <1>3, <1>5

(* A step of one request keeps the locks with transactions that only end.  *)
LEMMA RequestWaits ==
  ASSUME AuthInv, WaitsEnd, NEW h \in Handlers, Arrival(h) \/ HandlerStep(h)
  PROVE  WaitsEnd'
<1>1. TypeOK /\ OthersStay(h)
  BY HandlerSteps DEF AuthInv, Step
<1>2. SUFFICES ASSUME NEW id \in Tokens, locks'[id] # Nil
               PROVE  /\ pc'[locks'[id]] \in {"Commit", "Rollback"}
                      /\ req'[locks'[id]].token = id
  BY DEF WaitsEnd
<1>3. ASSUME locks'[id] = locks[id], locks[id] # h
      PROVE  /\ pc'[locks'[id]] \in {"Commit", "Rollback"}
             /\ req'[locks'[id]].token = id
  <2>1. locks[id] \in Handlers \ {h}
    BY <1>1, <1>2, <1>3 DEF TypeOK
  <2>2. pc'[locks[id]] = pc[locks[id]] /\ req'[locks[id]] = req[locks[id]]
    BY <1>1, <2>1 DEF OthersStay
  <2>3. QED
    BY <1>2, <1>3, <2>2 DEF WaitsEnd
<1>4. CASE UNCHANGED locks /\ pc[h] \notin {"Commit", "Rollback"}
  <2>1. locks[id] # h
    BY <1>2, <1>4 DEF WaitsEnd
  <2>2. QED
    BY <1>3, <1>4, <2>1
<1>5. CASE UpdateParent(h)
  <2>1. /\ pc'[h] \in {"Commit", "Rollback"} /\ req'[h] = req[h]
        /\ \/ locks'[id] = locks[id]
           \/ locks'[id] = h /\ id = req[h].token
    BY <1>1, <1>5, UpdateEndsWaiting
  <2>2. locks[id] # h
    <3>1. pc[h] = "UpdateParent"
      BY <1>5 DEF UpdateParent
    <3>2. CASE locks[id] = Nil
      BY <3>2, TokenIdsAssumption
    <3>3. CASE locks[id] # Nil
      BY <3>1, <3>3 DEF WaitsEnd
    <3>4. QED
      BY <3>2, <3>3
  <2>3. CASE locks'[id] = locks[id]
    BY <1>3, <2>2, <2>3
  <2>4. CASE locks'[id] = h /\ id = req[h].token
    BY <2>1, <2>4
  <2>5. QED
    BY <2>1, <2>3, <2>4
<1>6. CASE Unlock(h)
  BY <1>1, <1>2, <1>3, <1>6, UnlockFrees
<1>7. QED
  BY <1>4, <1>5, <1>6, LockSteps

(* Whoever waits for a row of refresh_tokens, an UPDATE or the purge,      *)
(* waits for a rotation that has only its COMMIT or ROLLBACK to make: the  *)
(* requests and the worker never wait for each other in a circle.          *)
THEOREM WaitingEnds == Spec => []WaitsEnd
<1>1. Init => WaitsEnd
  BY DEF Init, TokensInit, WaitsEnd
<1>2. AuthInv /\ WaitsEnd /\ [Next]_vars => WaitsEnd'
  <2> SUFFICES ASSUME AuthInv, WaitsEnd, [Next]_vars PROVE WaitsEnd'
    OBVIOUS
  <2>1. ASSUME NEW h \in Handlers, Arrival(h) \/ HandlerStep(h) PROVE WaitsEnd'
    BY <2>1, RequestWaits
  <2>2. CASE Purge \/ Tick \/ UNCHANGED vars
    BY <2>2 DEF Purge, DeleteExpiredAndRevoked, Tick, tables, vars, WaitsEnd
  <2>3. CASE Crash
    BY <2>3 DEF Crash, WaitsEnd
  <2>4. QED
    BY <2>1, <2>2, <2>3 DEF Next
<1>3. QED
  BY <1>1, <1>2, AuthInvariant, PTL DEF Spec

-----------------------------------------------------------------------------
(* Ends of sessions *)

(* A handler's statement that is no COMMIT and no UPDATE of Logout leaves  *)
(* every good row alone.                                                   *)
LEMMA RowsKept ==
  ASSUME AuthInv, NEW h \in Handlers, Arrival(h) \/ HandlerStep(h),
         pc[h] \notin {"Commit", "UpdateRevoked"},
         NEW id \in Tokens, Stored(id)
  PROVE  tokens'[id] = tokens[id] /\ now' = now
<1>1. pc[h] \in FreshPCs => id # req[h].child
  BY TokenIdsAssumption DEF AuthInv, LocalsFit, IdsUnique
<1>2. CASE StoreToken(h)
  BY <1>1, <1>2 DEF StoreToken, AuthInv, TypeOK, FreshPCs
<1>3. CASE ~StoreToken(h)
  BY <1>3 DEF Arrival, HandlerStep, BeginSignUp, BeginLogin, BeginRefresh, BeginLogout,
       LookupNewUser, CreateUser, LookupUser, Respond, LookupForRefresh, CheckRefresh,
       Lookup, Check, GetUser, InsertChild, UpdateParent, Commit, Rollback,
       LookupForLogout, CheckLogout, UpdateRevoked, tables
<1>4. QED
  BY <1>2, <1>3

(* COMMIT and UPDATE end no session but that of the token presented.       *)
LEMMA RowsEnded ==
  ASSUME AuthInv, NEW h \in Handlers, Commit(h) \/ UpdateRevoked(h),
         NEW id \in Tokens, Stored(id), id # req[h].token
  PROVE  tokens'[id] = tokens[id] /\ now' = now
<1>1. pc[h] \in FreshPCs => id # req[h].child
  BY TokenIdsAssumption DEF AuthInv, LocalsFit, IdsUnique
<1>2. CASE Commit(h)
  BY <1>1, <1>2 DEF Commit, CommitRotation, FreshPCs
<1>3. CASE UpdateRevoked(h)
  BY <1>3 DEF UpdateRevoked, AuthInv, TypeOK
<1>4. QED
  BY <1>2, <1>3

(* The purge deletes no good row. *)
LEMMA GoodNotPurged ==
  ASSUME AuthInv, Purge, NEW id \in Tokens, Alive(id)
  PROVE  tokens'[id] = tokens[id] /\ now' = now
<1>1. tokens[id].issued_at \in Int /\ now \in Int /\ TTL \in Int
  BY AuthBoundsAssumption, TokenTimesAssumption
     DEF AuthInv, TypeOK, Alive, Stored, RefreshToken
<1>2. ~Purgeable(id, now)
  BY <1>1 DEF Purgeable, Alive, IsValid
<1>3. QED
  BY <1>2 DEF Purge, DeleteExpiredAndRevoked

(* A good session ends by its own token in Logout or RefreshTokens, or by  *)
(* the clock: never by the purge, or by the rotation of another token.     *)
THEOREM SessionsEndByHolder == Spec => SessionEndsByHolder
<1> DEFINE ByHolder == \A id \in Tokens : (Alive(id) /\ ~Alive(id)') =>
          \/ now' # now
          \/ \E h \in Handlers : /\ pc[h] \in {"Commit", "UpdateRevoked"}
                                 /\ req[h].token = id
<1>1. AuthInv /\ [Next]_vars => ByHolder
  <2> SUFFICES ASSUME AuthInv, [Next]_vars, NEW id \in Tokens, Alive(id), now' = now,
                      ~ \E h \in Handlers : /\ pc[h] \in {"Commit", "UpdateRevoked"}
                                            /\ req[h].token = id
               PROVE  Alive(id)'
    OBVIOUS
  <2>1. tokens'[id] = tokens[id]
    <3>1. ASSUME NEW h \in Handlers, Arrival(h) \/ HandlerStep(h)
          PROVE  tokens'[id] = tokens[id]
      <4>1. CASE pc[h] \notin {"Commit", "UpdateRevoked"}
        BY <3>1, <4>1, RowsKept DEF Alive
      <4>2. CASE pc[h] \in {"Commit", "UpdateRevoked"}
        <5>1. Commit(h) \/ UpdateRevoked(h)
          BY <3>1, <4>2 DEF Arrival, HandlerStep, BeginSignUp, BeginLogin, BeginRefresh,
             BeginLogout, Arrive, LookupNewUser, CreateUser, LookupUser, StoreToken,
             Respond, LookupForRefresh, CheckRefresh, Lookup, Check, GetUser, InsertChild,
             UpdateParent, Rollback, LookupForLogout, CheckLogout
        <5>2. QED
          BY <4>2, <5>1, RowsEnded DEF Alive
      <4>3. QED
        BY <4>1, <4>2
    <3>2. Tick \/ Crash \/ UNCHANGED vars => tokens' = tokens
      BY DEF Tick, Crash, vars, tables
    <3>3. QED
      BY <3>1, <3>2, GoodNotPurged DEF Next
  <2>2. QED
    BY <2>1 DEF Alive, Stored
<1>2. QED
  BY <1>1, AuthInvariant, PTL DEF Spec, SessionEndsByHolder

-----------------------------------------------------------------------------
(* Refinement: AuthService implements TokenLineage *)

(* No step makes a committed token good again, or forgets a token.         *)
LEMMA NoRevival ==
  ASSUME AuthInv, [Next]_vars
  PROVE  /\ committed \subseteq committed'
         /\ \A id \in committed : ~Alive(id) => ~Alive(id)'
<1>1. ASSUME NEW h \in Handlers, Arrival(h) \/ HandlerStep(h)
      PROVE  /\ committed \subseteq committed'
             /\ \A id \in committed : ~Alive(id) => ~Alive(id)'
  BY <1>1, HandlerSteps DEF Step, Frame
<1>2. TypeOK /\ committed \subseteq Tokens
  BY DEF AuthInv, TypeOK
<1>3. CASE Tick
  <2>1. now' = now + 1 /\ now \in Int /\ TTL \in Int /\ tokens' = tokens
        /\ committed' = committed
    BY <1>2, <1>3, AuthBoundsAssumption, TokenTimesAssumption
       DEF Tick, TypeOK, tables, history
  <2>2. \A id \in committed : Stored(id) => tokens[id].issued_at \in Int
    BY <1>2 DEF TypeOK, Stored, RefreshToken
  <2>3. QED
    BY <2>1, <2>2 DEF Alive, Stored, IsValid
<1>4. CASE Purge
  BY <1>2, <1>4 DEF Purge, DeleteExpiredAndRevoked, Alive, Stored, history
<1>5. CASE Crash \/ UNCHANGED vars
  BY <1>5 DEF Crash, vars, tables, history, Alive, Stored
<1>6. QED
  BY <1>1, <1>3, <1>4, <1>5 DEF Next

(* A step that brings in no row moves phases only towards their end. *)
LEMMA PhasesEnd ==
  ASSUME AuthInv, [Next]_vars, committed' = committed
  PROVE  /\ TokenPhase' \in [Tokens -> {"unborn", "good", "ended"}]
         /\ \A id \in Tokens : \/ TokenPhase'[id] = TokenPhase[id]
                               \/ TokenPhase[id] = "good" /\ TokenPhase'[id] = "ended"
<1>1. TokenPhase' \in [Tokens -> {"unborn", "good", "ended"}]
  BY DEF TokenPhase
<1>2. ASSUME NEW id \in Tokens
      PROVE  \/ TokenPhase'[id] = TokenPhase[id]
             \/ TokenPhase[id] = "good" /\ TokenPhase'[id] = "ended"
  <2>1. id \in committed => (~Alive(id) => ~Alive(id)')
    BY NoRevival
  <2>2. QED
    BY <2>1 DEF TokenPhase
<1>3. QED
  BY <1>1, <1>2

(* Such a step that adds no claim either is an End. *)
LEMMA OtherwiseEnd ==
  ASSUME AuthInv, [Next]_vars, committed' = committed,
         \A h \in Handlers, id \in Tokens : Claims(h, id)' => Claims(h, id)
  PROVE  Lineage!End
<1>1. TokenClaims' \in [Tokens -> SUBSET Handlers]
  BY DEF TokenClaims
<1>2. \A id \in Tokens : TokenClaims'[id] \subseteq TokenClaims[id]
  BY DEF TokenClaims
<1>3. QED
  BY <1>1, <1>2, PhasesEnd DEF Lineage!End, Lineage!Phases

(* What the others claim stays as it is while the clock stands. *)
LEMMA OthersClaim ==
  ASSUME NEW h \in Handlers, OthersStay(h), now' = now
  PROVE  \A g \in Handlers \ {h}, id \in Tokens : Claims(g, id)' <=> Claims(g, id)
<1>1. ASSUME NEW g \in Handlers \ {h} PROVE pc'[g] = pc[g] /\ req'[g] = req[g]
  BY DEF OthersStay
<1>2. QED
  BY <1>1 DEF Claims, IsValid

(* A handler comes to claim a token only by reading its row while good. *)
LEMMA ClaimOrigin ==
  ASSUME AuthInv, NEW h \in Handlers, Arrival(h) \/ HandlerStep(h),
         NEW id \in Tokens, Claims(h, id)', ~Claims(h, id)
  PROVE  /\ pc[h] = "LookupForRefresh" /\ Alive(id) /\ id \in committed
         /\ UNCHANGED <<tokens, now, committed>>
<1>1. TypeOK /\ LocalsFit(h)
  BY DEF AuthInv
<1>2. pc'[h] \in {"CheckRefresh", "GetUser", "InsertChild", "UpdateParent", "Commit"}
        /\ req'[h].token = id /\ pc[h] \in PCs
  BY <1>1 DEF Claims, TypeOK
<1>3. CASE LookupForRefresh(h)
  <2>1. Lookup(h, "LookupForRefresh", "CheckRefresh") /\ pc'[h] # Idle
    BY <1>2, <1>3 DEF LookupForRefresh
  <2>2. /\ OthersStay(h) /\ pc'[h] = "CheckRefresh" /\ req[h].token \in committed
        /\ req'[h] = [req[h] EXCEPT !.stored = tokens[req[h].token]]
    BY <2>1, LookupMove DEF PCs
  <2>3. req'[h].token = req[h].token /\ req'[h].stored = tokens[req[h].token]
    BY <1>1, <2>2 DEF TypeOK, Request
  <2>4. pc[h] = "LookupForRefresh" /\ UNCHANGED <<tokens, now, committed>>
    BY <2>1 DEF Lookup, tables, history
  <2>5. req'[h].stored # Nil /\ IsValid(req'[h].stored, now)
    BY <2>2, <2>4 DEF Claims, IsValid
  <2>6. QED
    BY <1>2, <2>2, <2>3, <2>4, <2>5 DEF Alive, Stored
<1>4. CASE CheckRefresh(h)
  <2>1. Check(h, "CheckRefresh", "GetUser") /\ Goto(h, "GetUser")
    BY <1>1, <1>2, <1>4 DEF CheckRefresh, Check, Return, TypeOK
  <2>2. req[h].stored # Nil /\ IsValid(req[h].stored, now)
    BY <1>1, <1>2, <1>4 DEF CheckRefresh, Check, Return, TypeOK
  <2>3. pc[h] = "CheckRefresh" /\ req' = req
    BY <2>1 DEF Check, Goto
  <2>4. QED
    BY <1>2, <2>2, <2>3 DEF Claims
<1>5. CASE GetUser(h) \/ UpdateParent(h) \/ Commit(h)
  <2>1. pc[h] \in {"GetUser", "UpdateParent", "Commit"} /\ req'[h] = req[h]
    BY <1>1, <1>2, <1>5 DEF GetUser, UpdateParent, Commit, Fail, Return, Goto, TypeOK
  <2>2. QED
    BY <1>2, <2>1 DEF Claims
<1>6. CASE InsertChild(h)
  <2>1. pc[h] = "InsertChild" /\ req'[h].token = req[h].token
    BY <1>1, <1>2, <1>6 DEF InsertChild, Goto, TypeOK, Request
  <2>2. QED
    BY <1>2, <2>1 DEF Claims
<1>7. ASSUME \/ Arrival(h) \/ LookupNewUser(h) \/ CreateUser(h) \/ LookupUser(h)
             \/ StoreToken(h) \/ Respond(h) \/ Rollback(h) \/ UpdateRevoked(h)
             \/ CheckLogout(h)
      PROVE  FALSE
  BY <1>1, <1>2, <1>7
     DEF Arrival, BeginSignUp, BeginLogin, BeginRefresh, BeginLogout, Arrive,
         LookupNewUser, CreateUser, LookupUser, StoreToken, Respond, Rollback,
         UpdateRevoked, CheckLogout, Check, Fail, Goto, Return, TypeOK
<1>8. ASSUME LookupForLogout(h) PROVE FALSE
  BY <1>1, <1>2, <1>8 DEF LookupForLogout, Lookup, Fail, Return, TypeOK
<1>9. QED
  BY <1>3, <1>4, <1>5, <1>6, <1>7, <1>8 DEF HandlerStep

(* The clock, a crash and the purge claim nothing. *)
LEMMA EnvironmentClaims ==
  ASSUME AuthInv, Purge \/ Tick \/ Crash \/ UNCHANGED vars,
         NEW h \in Handlers, NEW id \in Tokens, Claims(h, id)'
  PROVE  Claims(h, id)
<1>1. CASE Crash
  BY <1>1 DEF Crash, Claims
<1>2. CASE Purge \/ UNCHANGED vars
  BY <1>2 DEF Purge, Claims, IsValid, vars
<1>3. CASE Tick
  <2>1. /\ now \in Int /\ TTL \in Int /\ now' = now + 1 /\ pc' = pc /\ req' = req
        /\ req[h].stored = Nil \/ req[h].stored \in RefreshToken
    BY <1>3, AuthBoundsAssumption, TokenTimesAssumption, RequestTypes
       DEF AuthInv, TypeOK, Tick
  <2>2. QED
    BY <2>1 DEF Claims, IsValid, RefreshToken
<1>4. QED
  BY <1>1, <1>2, <1>3

(* The read of a good row adds its request to the claims. *)
LEMMA ClaimStep ==
  ASSUME AuthInv, NEW h \in Handlers, Arrival(h) \/ HandlerStep(h),
         NEW id \in Tokens, Claims(h, id)', ~Claims(h, id)
  PROVE  Lineage!Claim(id, h)
<1>1. /\ pc[h] = "LookupForRefresh" /\ Alive(id) /\ id \in committed
      /\ UNCHANGED <<tokens, now, committed>> /\ Step(h)
  BY ClaimOrigin, HandlerSteps
<1>2. TokenPhase' = TokenPhase /\ TokenPhase[id] = "good"
  BY <1>1 DEF TokenPhase, Alive, Stored, IsValid
<1>3. \A g \in Handlers \ {h}, t \in Tokens : Claims(g, t)' <=> Claims(g, t)
  BY <1>1, OthersClaim DEF Step, Frame
<1>4. \A t \in Tokens : ~Claims(h, t)
  BY <1>1 DEF Claims
<1>5. \A t \in Tokens : Claims(h, t)' <=> t = id
  BY DEF Claims
<1>6. TokenClaims' = [TokenClaims EXCEPT ![id] = @ \cup {h}]
  BY <1>3, <1>4, <1>5 DEF TokenClaims
<1>7. QED
  BY <1>2, <1>6 DEF Lineage!Claim

(* SignUp and Login issue a token. *)
LEMMA IssueStep ==
  ASSUME AuthInv, NEW h \in Handlers, StoreToken(h), committed' # committed
  PROVE  \E id \in Tokens : Lineage!Issue(id)
<1> PICK id : id = req[h].child
  OBVIOUS
<1> DEFINE row == NewToken(req[h].user, now)
<1>1. /\ TypeOK /\ LocalsFit(h) /\ pc[h] = "StoreToken" /\ now' = now /\ now \in Int
      /\ TTL \in Nat \ {0} /\ req[h].user \in Users
  BY AuthBoundsAssumption, TokenTimesAssumption, RequestTypes
     DEF AuthInv, TypeOK, StoreToken, LocalsFit
<1>2. id \in Tokens \ committed
  BY <1>1, TokenIdsAssumption DEF LocalsFit, FreshPCs
<1>3. /\ tokens' = [tokens EXCEPT ![id] = row] /\ committed' = committed \cup {id}
      /\ Goto(h, "Respond") \/ Return(h)
  BY DEF StoreToken, Fail
<1>4. row \in RefreshToken /\ row # Nil /\ IsValid(row, now)
  BY <1>1, TokenTypes DEF NewToken, IsValid
<1> HIDE DEF row
<1>5. \A t \in Tokens \ {id} : Alive(t)' <=> Alive(t)
  BY <1>1, <1>2, <1>3 DEF Alive, Stored, IsValid, TypeOK
<1>6. \A t \in Tokens : t = id => Alive(t)'
  BY <1>1, <1>2, <1>3, <1>4 DEF Alive, Stored, IsValid, TypeOK
<1>7. TokenPhase[id] = "unborn" /\ TokenPhase' = [TokenPhase EXCEPT ![id] = "good"]
  BY <1>2, <1>3, <1>5, <1>6 DEF TokenPhase
<1>8. Step(h) /\ pc'[h] \in {"Respond", Idle}
  BY <1>1, <1>3, StoreTokenStep DEF Goto, Return, TypeOK
<1>9. \A g \in Handlers, t \in Tokens : Claims(g, t)' <=> Claims(g, t)
  <2>1. \A t \in Tokens : ~Claims(h, t) /\ ~Claims(h, t)'
    BY <1>1, <1>8 DEF Claims
  <2>2. QED
    BY <1>8, <2>1, OthersClaim DEF Step, Frame
<1>10. TokenClaims' = TokenClaims
  BY <1>9 DEF TokenClaims
<1>11. QED
  BY <1>2, <1>7, <1>10 DEF Lineage!Issue

(* The COMMIT of a rotation rotates. *)
LEMMA RotateStep ==
  ASSUME AuthInv, NEW h \in Handlers, Commit(h), committed' # committed
  PROVE  \E t, child \in Tokens : Lineage!Rotate(t, h, child)
<1> PICK id, child : id = req[h].token /\ child = req[h].child
  OBVIOUS
<1>1. /\ TypeOK /\ LocalsFit(h) /\ pc[h] = "Commit" /\ CommitRotation(h)
      /\ committed \subseteq Tokens
      /\ Goto(h, "Respond") \/ Return(h)
  BY DEF AuthInv, TypeOK, Commit, Fail
<1>2. id \in committed /\ child \in Tokens \ committed
  BY <1>1, TokenIdsAssumption DEF LocalsFit, FreshPCs
<1>3. committed' = committed \cup {child} /\ id \in ended'
  BY <1>1 DEF CommitRotation
<1>4. Step(h) /\ pc'[h] \in {"Respond", Idle}
  BY <1>1, CommitStep DEF Goto, Return, TypeOK
<1>5. \A t \in Tokens : t = id => ~Alive(t)'
  BY <1>3, <1>4 DEF Step, Frame
<1>6. \A t \in committed \ {id} : Alive(t)' <=> Alive(t)
  <2>1. ASSUME NEW t \in committed, t # id, Stored(t)
        PROVE  Alive(t)' <=> Alive(t)
    BY <1>1, <2>1, RowsEnded DEF Alive, Stored, IsValid
  <2>2. ASSUME NEW t \in committed, ~Stored(t)
        PROVE  ~Alive(t)' /\ ~Alive(t)
    BY <1>4, <2>2 DEF Alive, Step, Frame
  <2>3. QED
    BY <2>1, <2>2
<1>7. TokenPhase[child] = "unborn"
  BY <1>2 DEF TokenPhase
<1>8. \E p \in {"good", "ended"} :
         TokenPhase' = [TokenPhase EXCEPT ![id] = "ended", ![child] = p]
  <2> DEFINE p == TokenPhase'[child]
  <2>1. p \in {"good", "ended"}
    BY <1>2, <1>3 DEF TokenPhase
  <2>2. \A t \in Tokens : TokenPhase'[t] = IF t = child THEN p
                                           ELSE IF t = id THEN "ended" ELSE TokenPhase[t]
    BY <1>2, <1>3, <1>5, <1>6 DEF TokenPhase
  <2>3. TokenPhase' = [t \in Tokens |-> TokenPhase'[t]]
          /\ TokenPhase = [t \in Tokens |-> TokenPhase[t]]
    BY DEF TokenPhase
  <2> HIDE DEF p
  <2>4. TokenPhase' = [TokenPhase EXCEPT ![id] = "ended", ![child] = p]
    BY <1>1, <1>2, <2>2, <2>3
  <2>5. QED
    BY <2>1, <2>4
<1>9. TokenClaims' = [TokenClaims EXCEPT ![id] = @ \ {h}]
  <2>1. \A g \in Handlers \ {h}, t \in Tokens : Claims(g, t)' <=> Claims(g, t)
    BY <1>4, OthersClaim DEF Step, Frame
  <2>2. \A t \in Tokens : ~Claims(h, t)' /\ (Claims(h, t) <=> t = id)
    BY <1>1, <1>4 DEF Claims
  <2>3. QED
    BY <2>1, <2>2 DEF TokenClaims
<1>10. h \in TokenClaims[id]
  BY <1>1, <1>2 DEF TokenClaims, Claims
<1>11. QED
  BY <1>1, <1>2, <1>7, <1>8, <1>9, <1>10 DEF Lineage!Rotate

(* The service keeps the promise of TokenLineage: whatever interleaves or  *)
(* fails, a replacement is issued only to a request that read its token    *)
(* good, it ends that token, and no token ever comes back.                 *)
THEOREM AuthServiceIsTokenLineage == Spec => ImplementsTokenLineage
<1>1. Init => Lineage!LInit
  <2> SUFFICES ASSUME Init PROVE Lineage!LInit
    OBVIOUS
  <2>1. TokenPhase = [id \in Tokens |-> "unborn"]
    BY DEF Init, TokenPhase
  <2>2. TokenClaims = [id \in Tokens |-> {}]
    BY DEF Init, TokenClaims, Claims
  <2>3. QED
    BY <2>1, <2>2 DEF Lineage!LInit
<1>2. AuthInv /\ [Next]_vars => [Lineage!LNext]_(Lineage!lvars)
  <2> SUFFICES ASSUME AuthInv, [Next]_vars PROVE Lineage!LNext
    OBVIOUS
  <2>1. CASE committed' # committed
    <3>1. PICK h \in Handlers : StoreToken(h) \/ Commit(h)
      BY <2>1 DEF Next, Arrival, HandlerStep, BeginSignUp, BeginLogin, BeginRefresh,
         BeginLogout, LookupNewUser, CreateUser, LookupUser, Respond, LookupForRefresh,
         CheckRefresh, Lookup, Check, GetUser, InsertChild, UpdateParent, Rollback,
         LookupForLogout, CheckLogout, UpdateRevoked, Purge, Tick, Crash, vars, history
    <3>2. QED
      BY <2>1, <3>1, IssueStep, RotateStep DEF Lineage!LNext
  <2>2. ASSUME NEW h \in Handlers, NEW id \in Tokens, Claims(h, id)', ~Claims(h, id)
        PROVE  Lineage!LNext
    <3>1. PICK g \in Handlers : Arrival(g) \/ HandlerStep(g)
      BY <2>2, EnvironmentClaims DEF Next
    <3>2. g = h
      BY <2>2, <3>1, HandlerSteps, OthersClaim DEF Step, Frame
    <3>3. QED
      BY <2>2, <3>1, <3>2, ClaimStep DEF Lineage!LNext
  <2>3. CASE /\ committed' = committed
             /\ \A h \in Handlers, id \in Tokens : Claims(h, id)' => Claims(h, id)
    BY <2>3, OtherwiseEnd DEF Lineage!LNext
  <2>4. QED
    BY <2>1, <2>2, <2>3
<1>3. QED
  BY <1>1, <1>2, AuthInvariant, PTL DEF Spec, ImplementsTokenLineage, Lineage!LSpec
-----------------------------------------------------------------------------
(* Whose tokens they are *)

(* RefreshTokens reads the user of the new token off a copy of the old     *)
(* row: as long as both rows are stored, they belong to one user.          *)
LineageKeepsUser ==
    \A c \in Tokens : (Stored(c) /\ parent[c] # Nil /\ Stored(parent[c])) =>
        tokens[c].user_id = tokens[parent[c]].user_id

(* A copy has the user of its row, and the row to insert that of the copy. *)
CopyHasUser(h) ==
    /\ (/\ pc[h] \in RefreshPCs \cup LogoutPCs
        /\ req[h].stored # Nil /\ Stored(req[h].token)) =>
              tokens[req[h].token].user_id = req[h].stored.user_id
    /\ pc[h] \in {"UpdateParent", "Commit"} =>
          req[h].row.user_id = req[h].stored.user_id

UserInv == LineageKeepsUser /\ \A h \in Handlers : CopyHasUser(h)

(* A request that is at its COMMIT or at Logout's UPDATE makes that next.  *)
LEMMA OtherStatement ==
  ASSUME NEW h \in Handlers, Arrival(h) \/ HandlerStep(h),
         pc[h] \in {"Commit", "UpdateRevoked"}
  PROVE  Commit(h) \/ UpdateRevoked(h)
BY DEF Arrival, HandlerStep, BeginSignUp, BeginLogin, BeginRefresh,
       BeginLogout, Arrive, LookupNewUser, CreateUser, LookupUser, StoreToken,
       Respond, LookupForRefresh, CheckRefresh, Lookup, Check, GetUser, InsertChild,
       UpdateParent, Rollback, LookupForLogout, CheckLogout

(* No UPDATE writes the user of a row, and no committed id gets a second   *)
(* row.                                                                    *)
LEMMA RowsKeepUser ==
  ASSUME AuthInv, [Next]_vars, NEW id \in committed, Stored(id)'
  PROVE  Stored(id) /\ tokens'[id].user_id = tokens[id].user_id
<1>0. TypeOK /\ id \in Tokens
  BY DEF AuthInv, TypeOK
<1>1. ASSUME NEW h \in Handlers, Arrival(h) \/ HandlerStep(h)
      PROVE  Stored(id) /\ tokens'[id].user_id = tokens[id].user_id
  <2>1. Stored(id)
    BY <1>1, HandlerSteps DEF Step, Frame
  <2>2. CASE pc[h] \notin {"Commit", "UpdateRevoked"}
    BY <1>0, <1>1, <2>1, <2>2, RowsKept
  <2>3. CASE (Commit(h) \/ UpdateRevoked(h)) /\ id # req[h].token
    BY <1>0, <2>1, <2>3, RowsEnded
  <2>4. ASSUME Commit(h) \/ UpdateRevoked(h), id = req[h].token
        PROVE  tokens'[id].user_id = tokens[id].user_id
    <3>1. LocalsFit(h) /\ tokens[id] \in RefreshToken
      BY <1>0, <2>1 DEF AuthInv, TypeOK, Stored
    <3>2. id # req[h].child \/ pc[h] # "Commit"
      BY <3>1 DEF LocalsFit, FreshPCs
    <3>3. \/ tokens'[id] = tokens[id]
          \/ \E copy : tokens'[id] = Written(tokens[id], copy)
      BY <1>0, <2>1, <2>4, <3>2
         DEF Commit, CommitRotation, UpdateRevoked, TypeOK, Stored
    <3>4. \A copy : Written(tokens[id], copy).user_id = tokens[id].user_id
      BY <3>1 DEF Written, RefreshToken
    <3>5. QED
      BY <3>3, <3>4
  <2>5. QED
    BY <1>1, <2>1, <2>2, <2>3, <2>4, OtherStatement
<1>2. CASE Purge
  BY <1>0, <1>2 DEF Purge, DeleteExpiredAndRevoked, Stored
<1>3. CASE Tick \/ Crash \/ UNCHANGED vars
  BY <1>3 DEF Tick, Crash, vars, tables, Stored
<1>4. QED
  BY <1>1, <1>2, <1>3 DEF Next

(* What a request copies keeps its user. *)
LEMMA OwnCopyKeepsUser ==
  ASSUME AuthInv, NEW h \in Handlers, CopyHasUser(h), [Next]_vars,
         Arrival(h) \/ HandlerStep(h)
  PROVE  CopyHasUser(h)'
<1>0. /\ TypeOK /\ LocalsFit(h) /\ OthersStay(h)
      /\ pc \in [Handlers -> PCs] /\ req \in [Handlers -> Request]
      /\ committed \subseteq Tokens
  BY HandlerSteps DEF AuthInv, TypeOK, Step
<1>1. ASSUME req'[h] = req[h], pc'[h] \in RefreshPCs \cup LogoutPCs,
             pc[h] \in RefreshPCs \cup LogoutPCs,
             pc'[h] \in {"UpdateParent", "Commit"} => pc[h] \in {"UpdateParent", "Commit"}
      PROVE  CopyHasUser(h)'
  <2>1. PICK id \in committed : id = req[h].token /\ id = req'[h].token
    BY <1>0, <1>1 DEF LocalsFit
  <2>2. Stored(id)' => Stored(id) /\ tokens'[id].user_id = tokens[id].user_id
    BY RowsKeepUser
  <2>3. QED
    BY <1>1, <2>1, <2>2 DEF CopyHasUser, Stored
<1>2. ASSUME pc'[h] \notin RefreshPCs \cup LogoutPCs
      PROVE  CopyHasUser(h)'
  BY <1>2 DEF CopyHasUser
<1>3. CASE Arrival(h)
  <2>1. ASSUME NEW call \in {"LookupNewUser", "LookupUser", "LookupForRefresh",
                             "LookupForLogout"},
               NEW request, Arrive(h, call, request), request.stored = Nil
        PROVE  CopyHasUser(h)'
    <3>1. pc'[h] = call /\ req'[h] = request
      BY <1>0, <2>1 DEF Arrive
    <3>2. QED
      BY <2>1, <3>1 DEF CopyHasUser
  <2>2. ASSUME NEW user \in Users, NEW child \in Tokens,
               BeginSignUp(h, user, child) \/ BeginLogin(h, user, child)
        PROVE  CopyHasUser(h)'
    BY <2>1, <2>2 DEF BeginSignUp, BeginLogin, NoRequest
  <2>3. ASSUME NEW id \in Tokens, NEW child \in Tokens, BeginRefresh(h, id, child)
        PROVE  CopyHasUser(h)'
    BY <2>1, <2>3 DEF BeginRefresh, NoRequest
  <2>4. ASSUME NEW id \in Tokens, BeginLogout(h, id)
        PROVE  CopyHasUser(h)'
    BY <2>1, <2>4 DEF BeginLogout, NoRequest
  <2>5. QED
    BY <1>3, <2>2, <2>3, <2>4 DEF Arrival
<1>4. ASSUME NEW call \in {"LookupForRefresh", "LookupForLogout"},
             NEW next \in {"CheckRefresh", "CheckLogout"}, Lookup(h, call, next)
      PROVE  CopyHasUser(h)'
  <2>1. CASE pc'[h] = Idle
    BY <1>2, <2>1
  <2>2. CASE pc'[h] # Idle
    <3>1. /\ pc'[h] = next
          /\ req'[h] = [req[h] EXCEPT !.stored = tokens[req[h].token]]
          /\ tokens' = tokens
      BY <1>4, <2>2, LookupMove DEF PCs, Lookup, tables
    <3>2. /\ req'[h].stored = tokens[req[h].token] /\ req'[h].token = req[h].token
      BY <1>0, <3>1 DEF Request
    <3>3. QED
      BY <3>1, <3>2 DEF CopyHasUser
  <2>3. QED
    BY <2>1, <2>2
<1>5. CASE InsertChild(h)
  <2>1. CASE Goto(h, "Rollback")
    <3>1. pc'[h] = "Rollback" /\ req'[h] = req[h] /\ pc[h] = "InsertChild"
      BY <1>0, <1>5, <2>1 DEF Goto, InsertChild
    <3>2. QED
      BY <1>1, <3>1
  <2>2. CASE /\ pc' = [pc EXCEPT ![h] = "UpdateParent"]
             /\ req' = [req EXCEPT ![h].row = NewToken(req[h].stored.user_id, now)]
    <3>1. /\ pc[h] = "InsertChild" /\ pc'[h] = "UpdateParent" /\ tokens' = tokens
          /\ req'[h].row = NewToken(req[h].stored.user_id, now)
          /\ req'[h].stored = req[h].stored /\ req'[h].token = req[h].token
      BY <1>0, <1>5, <2>2 DEF InsertChild, Request, tables
    <3>2. req'[h].row.user_id = req'[h].stored.user_id
      BY <3>1 DEF NewToken
    <3>3. QED
      BY <3>1, <3>2 DEF CopyHasUser, Stored
  <2>3. QED
    BY <1>5, <2>1, <2>2 DEF InsertChild
<1>6. CASE \/ LookupNewUser(h) \/ CreateUser(h) \/ LookupUser(h) \/ StoreToken(h)
           \/ Respond(h) \/ Commit(h) \/ Rollback(h) \/ UpdateRevoked(h)
  <2>1. pc'[h] \notin RefreshPCs \cup LogoutPCs
    BY <1>0, <1>6 DEF LookupNewUser, CreateUser, LookupUser, StoreToken,
       Respond, Commit, Rollback, UpdateRevoked, Goto, Return, Fail
  <2>2. QED
    BY <1>2, <2>1
<1>7. CASE CheckRefresh(h) \/ CheckLogout(h) \/ GetUser(h) \/ UpdateParent(h)
  <2>1. \/ pc'[h] = Idle
        \/ /\ req'[h] = req[h] /\ pc'[h] \in RefreshPCs \cup LogoutPCs
           /\ pc[h] \in RefreshPCs \cup LogoutPCs
           /\ pc'[h] \in {"UpdateParent", "Commit"} => pc[h] \in {"UpdateParent", "Commit"}
    BY <1>0, <1>7 DEF CheckRefresh, CheckLogout, Check, GetUser, UpdateParent,
       Goto, Return, Fail
  <2>2. QED
    BY <1>1, <1>2, <2>1
<1>8. QED
  BY <1>3, <1>4, <1>5, <1>6, <1>7 DEF HandlerStep, LookupForRefresh, LookupForLogout

(* The copies of requests that wait keep theirs. *)
LEMMA WaitingCopyKeepsUser ==
  ASSUME AuthInv, NEW h \in Handlers, CopyHasUser(h), [Next]_vars,
         pc'[h] = pc[h], req'[h] = req[h]
  PROVE  CopyHasUser(h)'
<1> SUFFICES ASSUME pc[h] \in RefreshPCs \cup LogoutPCs
             PROVE  CopyHasUser(h)'
  BY DEF CopyHasUser
<1>1. PICK id \in committed : id = req[h].token /\ id = req'[h].token
  BY DEF AuthInv, LocalsFit
<1>2. Stored(id)' => Stored(id) /\ tokens'[id].user_id = tokens[id].user_id
  BY RowsKeepUser
<1>3. QED
  BY <1>1, <1>2 DEF CopyHasUser, Stored

(* Only a COMMIT gives a token its parent, and both rows the same user. *)
LEMMA LineageNext ==
  ASSUME AuthInv, UserInv, [Next]_vars,
         NEW c \in Tokens, NEW p, p = parent'[c], p # Nil, Stored(c)', Stored(p)'
  PROVE  tokens'[c].user_id = tokens'[p].user_id
<1>0. TypeOK /\ ended \subseteq committed /\ committed \subseteq Tokens
  BY DEF AuthInv, TypeOK
<1>1. CASE parent'[c] = parent[c]
  <2>1. c \in committed /\ p \in committed
    BY <1>0, <1>1 DEF AuthInv
  <2>2. /\ Stored(c) /\ tokens'[c].user_id = tokens[c].user_id
        /\ Stored(p) /\ tokens'[p].user_id = tokens[p].user_id
    BY <2>1, RowsKeepUser
  <2>3. QED
    BY <1>1, <2>2 DEF UserInv, LineageKeepsUser
<1>2. CASE parent'[c] # parent[c]
  <2>1. PICK h \in Handlers : Commit(h) /\ CommitRotation(h)
    BY <1>2 DEF Next, Arrival, HandlerStep, BeginSignUp, BeginLogin, BeginRefresh,
       BeginLogout, LookupNewUser, CreateUser, LookupUser, StoreToken, Respond,
       LookupForRefresh, CheckRefresh, Lookup, Check, GetUser, InsertChild,
       UpdateParent, Commit, Rollback, LookupForLogout, CheckLogout, UpdateRevoked,
       Purge, Tick, Crash, vars, history
  <2>2. /\ pc[h] = "Commit" /\ req[h].token \in committed
        /\ req[h].child \in Tokens \ committed /\ req[h].stored # Nil
        /\ CopyHasUser(h)
    BY <2>1 DEF Commit, AuthInv, LocalsFit, FreshPCs, UserInv
  <2>3. c = req[h].child /\ p = req[h].token
    BY <1>0, <1>2, <2>1 DEF CommitRotation, TypeOK
  <2>4. tokens'[c] = req[h].row
    BY <2>1, <2>3 DEF CommitRotation
  <2>5. Stored(p) /\ tokens'[p].user_id = tokens[p].user_id
    BY <2>2, <2>3, RowsKeepUser
  <2>6. QED
    BY <2>2, <2>3, <2>4, <2>5 DEF CopyHasUser
<1>3. QED
  BY <1>1, <1>2

(* A rotation never hands the session to another account: failed and       *)
(* repeated statements, old copies, logouts and the purge included.        *)
THEOREM RotationsKeepUser == Spec => []LineageKeepsUser
<1>1. Init => UserInv
  BY DEF Init, TokensInit, Stored, UserInv, LineageKeepsUser, CopyHasUser
<1>2. AuthInv /\ UserInv /\ [Next]_vars => UserInv'
  <2> SUFFICES ASSUME AuthInv, UserInv, [Next]_vars PROVE UserInv'
    OBVIOUS
  <2>1. LineageKeepsUser'
    BY LineageNext DEF LineageKeepsUser, Stored
  <2>2. ASSUME NEW h \in Handlers
        PROVE  CopyHasUser(h)'
    <3>0. CopyHasUser(h)
      BY DEF UserInv
    <3>1. ASSUME NEW g \in Handlers \ {h}, Arrival(g) \/ HandlerStep(g)
          PROVE  pc'[h] = pc[h] /\ req'[h] = req[h]
      BY <3>1, HandlerSteps DEF Step, OthersStay
    <3>2. Purge \/ Tick \/ UNCHANGED vars => pc'[h] = pc[h] /\ req'[h] = req[h]
      BY DEF Purge, Tick, vars
    <3>3. Crash => CopyHasUser(h)'
      BY DEF Crash, CopyHasUser
    <3>4. QED
      BY <3>0, <3>1, <3>2, <3>3, OwnCopyKeepsUser, WaitingCopyKeepsUser DEF Next
  <2>3. QED
    BY <2>1, <2>2 DEF UserInv
<1>3. UserInv => LineageKeepsUser
  BY DEF UserInv
<1>4. QED
  BY <1>1, <1>2, <1>3, AuthInvariant, PTL DEF Spec
-----------------------------------------------------------------------------
(* How long a request lasts *)

(* The calls a request has yet to make, at most. *)
StepsLeft(call) ==
    CASE call = Idle -> 0
      [] call \in {"Respond", "Rollback", "UpdateRevoked"} -> 1
      [] call \in {"StoreToken", "Commit", "CheckLogout"} -> 2
      [] call \in {"CreateUser", "LookupUser", "UpdateParent", "LookupForLogout"} -> 3
      [] call \in {"LookupNewUser", "InsertChild"} -> 4
      [] call = "GetUser" -> 5
      [] call = "CheckRefresh" -> 6
      [] call = "LookupForRefresh" -> 7

(* No call is made twice for one request, whatever failed: nothing but an  *)
(* arrival sends a handler back.                                           *)
RequestsAdvance ==
    [][\A h \in Handlers : (pc[h] # Idle /\ pc'[h] # pc[h]) =>
          StepsLeft(pc'[h]) < StepsLeft(pc[h])]_vars

(* Each statement brings its request closer to the answer. *)
LEMMA StatementsAdvance ==
  ASSUME TypeOK, NEW h \in Handlers, HandlerStep(h)
  PROVE  StepsLeft(pc'[h]) < StepsLeft(pc[h])
<1>0. pc \in [Handlers -> PCs] /\ req \in [Handlers -> Request]
  BY DEF TypeOK
<1>1. CASE LookupNewUser(h) \/ CreateUser(h) \/ LookupUser(h) \/ StoreToken(h)
              \/ Respond(h)
  BY <1>0, <1>1 DEF LookupNewUser, CreateUser, LookupUser, StoreToken, Respond,
     Goto, Return, Fail, StepsLeft
<1>2. CASE LookupForRefresh(h) \/ LookupForLogout(h) \/ CheckRefresh(h)
              \/ CheckLogout(h) \/ UpdateRevoked(h)
  BY <1>0, <1>2 DEF LookupForRefresh, LookupForLogout, Lookup, CheckRefresh,
     CheckLogout, Check, UpdateRevoked, Goto, Return, Fail, StepsLeft
<1>3. CASE GetUser(h) \/ InsertChild(h) \/ UpdateParent(h) \/ Commit(h) \/ Rollback(h)
  BY <1>0, <1>3 DEF GetUser, InsertChild, UpdateParent, Commit, Rollback,
     Goto, Return, Fail, StepsLeft
<1>4. QED
  BY <1>1, <1>2, <1>3 DEF HandlerStep

(* A request of auth_service.go makes at most seven calls, and no step of  *)
(* another request, the purge, the clock or a crash gives it more to do.   *)
THEOREM RequestsOnlyAdvance == Spec => RequestsAdvance
<1>1. AuthInv /\ [Next]_vars =>
        \A h \in Handlers : (pc[h] # Idle /\ pc'[h] # pc[h]) =>
            StepsLeft(pc'[h]) < StepsLeft(pc[h])
  <2> SUFFICES ASSUME AuthInv, [Next]_vars, NEW h \in Handlers,
                      pc[h] # Idle, pc'[h] # pc[h]
               PROVE  StepsLeft(pc'[h]) < StepsLeft(pc[h])
    OBVIOUS
  <2>0. TypeOK /\ pc[h] \in PCs
    BY DEF AuthInv, TypeOK
  <2>1. ASSUME NEW g \in Handlers, Arrival(g)
        PROVE  FALSE
    BY <2>0, <2>1 DEF Arrival, BeginSignUp, BeginLogin, BeginRefresh, BeginLogout,
       Arrive, TypeOK
  <2>2. ASSUME NEW g \in Handlers \ {h}, HandlerStep(g)
        PROVE  FALSE
    BY <2>2, HandlerSteps DEF Step, OthersStay
  <2>3. CASE HandlerStep(h)
    BY <2>0, <2>3, StatementsAdvance
  <2>4. CASE Crash
    BY <2>0, <2>4 DEF Crash, StepsLeft, PCs
  <2>5. Purge \/ Tick \/ UNCHANGED vars => FALSE
    BY DEF Purge, Tick, vars
  <2>6. QED
    BY <2>1, <2>2, <2>3, <2>4, <2>5 DEF Next
<1>2. QED
  BY <1>1, AuthInvariant, PTL DEF Spec, RequestsAdvance

-----------------------------------------------------------------------------
(* How often a token is replaced *)

Replacements(t) == {c \in Tokens : parent[c] = t}
Claimants(t) == {h \in Handlers : Claims(h, t)}

(* A token is replaced once for each request that read it before it was    *)
(* replaced for the first time, and no read makes another one afterwards.  *)
ReplacementsOverlap ==
    \A t \in Tokens :
        /\ IsFiniteSet(Replacements(t))
        /\ Cardinality(Replacements(t)) + Cardinality(Claimants(t)) <= Cardinality(Handlers)

(* The COMMIT of a rotation gives up its claim for the new token.          *)
LEMMA RotationPays ==
  ASSUME AuthInv, NEW h \in Handlers, Commit(h), parent' # parent
  PROVE  \E id \in Tokens, child \in Tokens :
            /\ parent[child] = Nil /\ parent' = [parent EXCEPT ![child] = id]
            /\ h \in Claimants(id) /\ Claimants(id)' = Claimants(id) \ {h}
            /\ \A t \in Tokens \ {id} : Claimants(t)' = Claimants(t)
<1> PICK id, child : id = req[h].token /\ child = req[h].child
  OBVIOUS
<1>1. /\ TypeOK /\ LocalsFit(h) /\ pc[h] = "Commit" /\ CommitRotation(h)
      /\ committed \subseteq Tokens
      /\ Goto(h, "Respond") \/ Return(h)
  BY DEF AuthInv, TypeOK, Commit, Fail
<1>2. id \in Tokens /\ child \in Tokens \ committed
  BY <1>1, TokenIdsAssumption DEF LocalsFit, FreshPCs
<1>3. parent' = [parent EXCEPT ![child] = id] /\ parent[child] = Nil
  BY <1>1, <1>2 DEF CommitRotation, AuthInv
<1>4. Step(h) /\ pc'[h] \in {"Respond", Idle}
  BY <1>1, CommitStep DEF Goto, Return, TypeOK
<1>5. \A g \in Handlers \ {h}, t \in Tokens : Claims(g, t)' <=> Claims(g, t)
  BY <1>4, OthersClaim DEF Step, Frame
<1>6. \A t \in Tokens : ~Claims(h, t)' /\ (Claims(h, t) <=> t = id)
  BY <1>1, <1>4 DEF Claims
<1>7. \A t \in Tokens : Claimants(t)' = IF t = id THEN Claimants(t) \ {h} ELSE Claimants(t)
  BY <1>5, <1>6 DEF Claimants
<1>8. h \in Claimants(id)
  BY <1>2, <1>6 DEF Claimants
<1>9. QED
  BY <1>2, <1>3, <1>7, <1>8

LEMMA OnlyCommitReplaces ==
  ASSUME [Next]_vars, parent' # parent
  PROVE  \E h \in Handlers : Commit(h)
<1>1. ASSUME NEW h \in Handlers, Arrival(h)
      PROVE  FALSE
  BY <1>1 DEF Arrival, BeginSignUp, BeginLogin, BeginRefresh, BeginLogout, history
<1>2. ASSUME NEW h \in Handlers, HandlerStep(h), ~Commit(h)
      PROVE  FALSE
  <2>1. CASE \/ LookupNewUser(h) \/ CreateUser(h) \/ LookupUser(h)
             \/ StoreToken(h) \/ Respond(h)
    BY <2>1 DEF LookupNewUser, CreateUser, LookupUser, StoreToken, Respond, history
  <2>2. CASE \/ LookupForRefresh(h) \/ CheckRefresh(h) \/ GetUser(h) \/ InsertChild(h)
             \/ LookupForLogout(h) \/ CheckLogout(h)
    BY <2>2 DEF LookupForRefresh, LookupForLogout, Lookup, CheckRefresh, CheckLogout, Check,
                GetUser, InsertChild, history
  <2>3. CASE UpdateParent(h) \/ Rollback(h) \/ UpdateRevoked(h)
    BY <2>3 DEF UpdateParent, Rollback, UpdateRevoked, history
  <2>4. QED
    BY <1>2, <2>1, <2>2, <2>3 DEF HandlerStep
<1>3. ~(Purge \/ Tick \/ Crash \/ UNCHANGED vars)
  BY DEF Purge, Tick, Crash, vars, history
<1>4. QED
  BY <1>1, <1>2, <1>3 DEF Next

(* A replaced token is good no more: nobody comes to claim it.             *)
LEMMA ReplacedNotClaimed ==
  ASSUME AuthInv, [Next]_vars, NEW t \in Tokens, Replacements(t) # {}
  PROVE  Claimants(t)' \subseteq Claimants(t)
<1>1. ~Alive(t)
  BY TokenIdsAssumption DEF Replacements, AuthInv, EndedStaysEnded
<1>2. ASSUME NEW h \in Handlers, Claims(h, t)', ~Claims(h, t)
      PROVE  FALSE
  <2>1. PICK g \in Handlers : Arrival(g) \/ HandlerStep(g)
    BY <1>2, EnvironmentClaims DEF Next
  <2>2. g = h
    BY <1>2, <2>1, HandlerSteps, OthersClaim DEF Step, Frame
  <2>3. QED
    BY <1>1, <1>2, <2>1, <2>2, ClaimOrigin
<1>3. QED
  BY <1>2 DEF Claimants

(* The promise of refresh.bru, 401 for a token that was used, holds up to  *)
(* the overlap of requests: however often a token is presented, it is      *)
(* replaced at most as often as the server handles requests at a time.     *)
THEOREM ReplacementsAreOverlaps ==
  ASSUME IsFiniteSet(Handlers)
  PROVE  Spec => []ReplacementsOverlap
<1>1. \A t \in Tokens : Claimants(t) \in SUBSET Handlers /\ Claimants(t)' \in SUBSET Handlers
  BY DEF Claimants
<1>2. \A t \in Tokens :
         /\ IsFiniteSet(Claimants(t)) /\ IsFiniteSet(Claimants(t)')
         /\ Cardinality(Claimants(t)) \in Nat /\ Cardinality(Claimants(t)') \in Nat
         /\ Cardinality(Claimants(t)) <= Cardinality(Handlers)
         /\ Cardinality(Claimants(t)') <= Cardinality(Handlers)
  BY <1>1, FS_Subset, FS_CardinalityType
<1>3. IsFiniteSet({}) /\ Cardinality({}) = 0 /\ Cardinality(Handlers) \in Nat
  BY FS_EmptySet, FS_CardinalityType
<1>4. Init => ReplacementsOverlap
  <2> SUFFICES ASSUME Init, NEW t \in Tokens
               PROVE  /\ IsFiniteSet(Replacements(t))
                      /\ Cardinality(Replacements(t)) + Cardinality(Claimants(t))
                             <= Cardinality(Handlers)
    BY DEF ReplacementsOverlap
  <2>1. Replacements(t) = {}
    BY TokenIdsAssumption DEF Init, Replacements
  <2>2. QED
    BY <1>2, <1>3, <2>1
<1>5. AuthInv /\ ReplacementsOverlap /\ [Next]_vars => ReplacementsOverlap'
  <2> SUFFICES ASSUME AuthInv, ReplacementsOverlap, [Next]_vars, NEW t \in Tokens
               PROVE  /\ IsFiniteSet(Replacements(t)')
                      /\ Cardinality(Replacements(t)') + Cardinality(Claimants(t)')
                             <= Cardinality(Handlers)
    BY DEF ReplacementsOverlap
  <2>1. /\ IsFiniteSet(Replacements(t)) /\ Cardinality(Replacements(t)) \in Nat
        /\ Cardinality(Replacements(t)) + Cardinality(Claimants(t)) <= Cardinality(Handlers)
    BY FS_CardinalityType DEF ReplacementsOverlap
  <2>2. CASE parent' # parent
    <3>1. PICK h \in Handlers : Commit(h)
      BY <2>2, OnlyCommitReplaces
    <3>2. PICK id \in Tokens, child \in Tokens :
            /\ parent[child] = Nil /\ parent' = [parent EXCEPT ![child] = id]
            /\ h \in Claimants(id) /\ Claimants(id)' = Claimants(id) \ {h}
            /\ \A u \in Tokens \ {id} : Claimants(u)' = Claimants(u)
      BY <2>2, <3>1, RotationPays
    <3>3. parent \in [Tokens -> Tokens \cup {Nil}]
      BY DEF AuthInv, TypeOK
    <3>4. CASE t = id
      <4>1. Replacements(t)' = Replacements(t) \cup {child} /\ child \notin Replacements(t)
        BY <3>2, <3>3, <3>4, TokenIdsAssumption DEF Replacements
      <4>2. /\ IsFiniteSet(Replacements(t)')
            /\ Cardinality(Replacements(t)') = Cardinality(Replacements(t)) + 1
        BY <2>1, <4>1, FS_AddElement
      <4>3. Cardinality(Claimants(t)') = Cardinality(Claimants(t)) - 1
        BY <1>2, <3>2, <3>4, FS_RemoveElement
      <4>4. QED
        BY <1>2, <1>3, <2>1, <4>2, <4>3
    <3>5. CASE t # id
      <4>1. Replacements(t)' = Replacements(t) /\ Claimants(t)' = Claimants(t)
        BY <3>2, <3>3, <3>5, TokenIdsAssumption DEF Replacements
      <4>2. QED
        BY <2>1, <4>1
    <3>6. QED
      BY <3>4, <3>5
  <2>3. CASE parent' = parent
    <3>1. Replacements(t)' = Replacements(t)
      BY <2>3 DEF Replacements
    <3>2. CASE Replacements(t) = {}
      BY <1>2, <1>3, <3>1, <3>2
    <3>3. CASE Replacements(t) # {}
      <4>1. Claimants(t)' \in SUBSET Claimants(t)
        BY <3>3, ReplacedNotClaimed
      <4>2. Cardinality(Claimants(t)') <= Cardinality(Claimants(t))
        BY <1>2, <4>1, FS_Subset
      <4>3. QED
        BY <1>2, <1>3, <2>1, <3>1, <4>2
    <3>4. QED
      BY <3>2, <3>3
  <2>4. QED
    BY <2>2, <2>3
<1>6. QED
  BY <1>4, <1>5, AuthInvariant, PTL DEF Spec

-----------------------------------------------------------------------------
(* The schema of the migrations *)

(* With the foreign key, rows are never replaced: the UPDATE of a rotation *)
(* is refused, so that a transaction only commits without its row.         *)
RowsUnreplaced == \A id \in Tokens : Stored(id) => tokens[id].replaced_by = Nil

CopyUnreplaced(h) ==
    /\ req[h].stored # Nil => req[h].stored.replaced_by = Nil
    /\ req[h].row # Nil => req[h].row.replaced_by = Nil
    /\ pc[h] = "Commit" => ~Stored(req[h].token)

ReplacesNoRow == \A c \in Tokens : parent[c] # Nil => ~Stored(parent[c])

SchemaInv ==
    /\ RowsUnreplaced /\ ReplacesNoRow
    /\ \A h \in Handlers : CopyUnreplaced(h)

(* What an UPDATE writes into replaced_by. *)
LEMMA ReplacedFields ==
  /\ \A user : NewToken(user, now).replaced_by = Nil
  /\ \A stored \in RefreshToken :
        /\ Rotated(stored).replaced_by = UnstoredId
        /\ Revoked(stored).replaced_by = stored.replaced_by
  /\ \A row \in RefreshToken : \A copy :
        Written(row, copy).replaced_by = copy.replaced_by
<1>1. \A stored \in RefreshToken : Revoked(stored) \in RefreshToken
  BY TokenTypes
<1>2. \A stored \in RefreshToken : Rotated(stored).replaced_by = UnstoredId
  BY <1>1 DEF Rotated, RefreshToken
<1>3. QED
  BY <1>2 DEF NewToken, Revoked, Written, RefreshToken

(* UnstoredId is the id of no row. *)
LEMMA RotationRefused ==
  ASSUME ReplacedByFK, RowsUnreplaced, NEW id \in Tokens, Stored(id),
         NEW stored \in RefreshToken
  PROVE  UpdateRejected(id, Rotated(stored))
BY ReplacedFields, TokenIdsAssumption DEF UpdateRejected, RowsUnreplaced

(* A committed id gets no second row. *)
LEMMA GoneForGood ==
  ASSUME AuthInv, [Next]_vars, NEW id \in committed, ~Stored(id)
  PROVE  ~Stored(id)'
BY RowsKeepUser

LEMMA RowsUnreplacedNext ==
  ASSUME AuthInv, SchemaInv, [Next]_vars
  PROVE  RowsUnreplaced'
<1>0. TypeOK /\ RowsUnreplaced
  BY DEF AuthInv, SchemaInv
<1>1. CASE tokens' = tokens
  BY <1>0, <1>1 DEF RowsUnreplaced, Stored
<1>2. ASSUME NEW h \in Handlers, StoreToken(h)
      PROVE  RowsUnreplaced'
  <2>1. CASE tokens' = [tokens EXCEPT ![req[h].child] = NewToken(req[h].user, now)]
    <3>1. \A id \in Tokens : \/ tokens'[id] = tokens[id]
                             \/ tokens'[id] = NewToken(req[h].user, now)
      BY <1>0, <2>1 DEF TypeOK
    <3>2. QED
      BY <1>0, <3>1, ReplacedFields DEF RowsUnreplaced, Stored
  <2>2. QED
    BY <1>1, <1>2, <2>1 DEF StoreToken
<1>3. ASSUME NEW h \in Handlers, Commit(h)
      PROVE  RowsUnreplaced'
  <2>1. /\ CopyUnreplaced(h) /\ pc[h] = "Commit" /\ req[h].row # Nil
        /\ req[h].token \in Tokens /\ locks[req[h].token] # h
    BY <1>0, <1>3, TokenIdsAssumption
       DEF Commit, SchemaInv, AuthInv, LocalsFit, CopyUnreplaced, TypeOK
  <2>2. CASE CommitRotation(h)
    <3>1. \A id \in Tokens : tokens'[id] = tokens[id] \/ tokens'[id] = req[h].row
      BY <2>1, <2>2 DEF CommitRotation
    <3>2. QED
      BY <1>0, <2>1, <3>1 DEF CopyUnreplaced, RowsUnreplaced, Stored
  <2>3. QED
    BY <1>1, <1>3, <2>2 DEF Commit
<1>4. ASSUME NEW h \in Handlers, UpdateRevoked(h)
      PROVE  RowsUnreplaced'
  <2>1. PICK copy : copy = Revoked(req[h].stored)
    OBVIOUS
  <2>2. copy.replaced_by = Nil
    <3>1. req[h].stored \in RefreshToken /\ CopyUnreplaced(h)
      BY <1>0, <1>4, RequestTypes DEF UpdateRevoked, SchemaInv, AuthInv, LocalsFit
    <3>2. QED
      BY <2>1, <3>1, NilNoTokenAssumption, ReplacedFields DEF CopyUnreplaced
  <2>3. ASSUME NEW id \in Tokens, Stored(id)'
        PROVE  \/ Stored(id) /\ tokens'[id] = tokens[id]
               \/ tokens[id] \in RefreshToken /\ tokens'[id] = Written(tokens[id], copy)
    BY <1>0, <1>4, <2>1, <2>3 DEF UpdateRevoked, TypeOK, Stored
  <2>4. QED
    BY <1>0, <2>2, <2>3, ReplacedFields DEF RowsUnreplaced
<1>5. CASE Purge
  BY <1>0, <1>5 DEF Purge, DeleteExpiredAndRevoked, RowsUnreplaced, Stored
<1>6. ASSUME NEW h \in Handlers, Arrival(h)
      PROVE  tokens' = tokens
  BY <1>6 DEF Arrival, BeginSignUp, BeginLogin, BeginRefresh, BeginLogout, tables
<1>7. ASSUME NEW h \in Handlers, HandlerStep(h),
             ~StoreToken(h), ~Commit(h), ~UpdateRevoked(h)
      PROVE  tokens' = tokens
  BY <1>7 DEF HandlerStep, LookupNewUser, CreateUser, LookupUser, Respond,
     LookupForRefresh, CheckRefresh, Lookup, Check, GetUser, InsertChild, UpdateParent,
     Rollback, LookupForLogout, CheckLogout, tables
<1>8. Tick \/ Crash \/ UNCHANGED vars => tokens' = tokens
  BY DEF Tick, Crash, vars, tables
<1>9. QED
  BY <1>1, <1>2, <1>3, <1>4, <1>5, <1>6, <1>7, <1>8 DEF Next

(* The copy of a request comes from a row, the row it inserts is new, and  *)
(* its UPDATE lets it through to the COMMIT only without a row.            *)
LEMMA OwnCopyUnreplaced ==
  ASSUME ReplacedByFK, AuthInv, SchemaInv, [Next]_vars, NEW h \in Handlers,
         Arrival(h) \/ HandlerStep(h)
  PROVE  CopyUnreplaced(h)'
<1>0. /\ TypeOK /\ LocalsFit(h) /\ CopyUnreplaced(h) /\ RowsUnreplaced
      /\ pc \in [Handlers -> PCs] /\ req \in [Handlers -> Request]
  BY DEF AuthInv, SchemaInv, TypeOK
<1>1. ASSUME req'[h] = req[h], pc'[h] # "Commit"
      PROVE  CopyUnreplaced(h)'
  BY <1>0, <1>1 DEF CopyUnreplaced
<1>2. ASSUME req'[h].stored = Nil, req'[h].row = Nil, pc'[h] # "Commit"
      PROVE  CopyUnreplaced(h)'
  BY <1>2 DEF CopyUnreplaced
<1>3. ASSUME Return(h)
      PROVE  CopyUnreplaced(h)'
  BY <1>0, <1>2, <1>3 DEF Return, NoRequest
<1>4. CASE Arrival(h)
  <2>1. ASSUME NEW call \in {"LookupNewUser", "LookupUser", "LookupForRefresh",
                             "LookupForLogout"},
               NEW request, Arrive(h, call, request),
               request.stored = Nil, request.row = Nil
        PROVE  CopyUnreplaced(h)'
    <3>1. pc'[h] = call /\ req'[h] = request
      BY <1>0, <2>1 DEF Arrive
    <3>2. QED
      BY <1>2, <2>1, <3>1
  <2>2. ASSUME NEW user \in Users, NEW child \in Tokens,
               BeginSignUp(h, user, child) \/ BeginLogin(h, user, child)
        PROVE  CopyUnreplaced(h)'
    BY <2>1, <2>2 DEF BeginSignUp, BeginLogin, NoRequest
  <2>3. ASSUME NEW id \in Tokens, NEW child \in Tokens, BeginRefresh(h, id, child)
        PROVE  CopyUnreplaced(h)'
    BY <2>1, <2>3 DEF BeginRefresh, NoRequest
  <2>4. ASSUME NEW id \in Tokens, BeginLogout(h, id)
        PROVE  CopyUnreplaced(h)'
    BY <2>1, <2>4 DEF BeginLogout, NoRequest
  <2>5. QED
    BY <1>4, <2>2, <2>3, <2>4 DEF Arrival
<1>5. ASSUME NEW call \in {"LookupForRefresh", "LookupForLogout"},
             NEW next \in {"CheckRefresh", "CheckLogout"}, Lookup(h, call, next)
      PROVE  CopyUnreplaced(h)'
  <2>1. CASE pc' = [pc EXCEPT ![h] = next]
             /\ req' = [req EXCEPT ![h].stored = tokens[req[h].token]]
    <3>1. /\ pc'[h] = next /\ req'[h].row = req[h].row
          /\ req'[h].stored = tokens[req[h].token]
      BY <1>0, <2>1 DEF Request
    <3>2. req[h].token \in Tokens
      BY <1>0, <1>5 DEF Lookup, LocalsFit, TypeOK
    <3>3. QED
      BY <1>0, <3>1, <3>2 DEF CopyUnreplaced, RowsUnreplaced, Stored
  <2>2. QED
    BY <1>3, <1>5, <2>1 DEF Lookup, Fail
<1>6. CASE InsertChild(h)
  <2>1. CASE Goto(h, "Rollback")
    BY <1>0, <1>1, <2>1 DEF Goto
  <2>2. CASE /\ pc' = [pc EXCEPT ![h] = "UpdateParent"]
             /\ req' = [req EXCEPT ![h].row = NewToken(req[h].stored.user_id, now)]
    <3>1. /\ pc'[h] = "UpdateParent" /\ req'[h].stored = req[h].stored
          /\ req'[h].row = NewToken(req[h].stored.user_id, now)
      BY <1>0, <2>2 DEF Request
    <3>2. QED
      BY <1>0, <3>1, ReplacedFields DEF CopyUnreplaced
  <2>3. QED
    BY <1>6, <2>1, <2>2 DEF InsertChild
<1>7. CASE UpdateParent(h)
  <2>1. req'[h] = req[h] \/ Return(h)
    BY <1>7 DEF UpdateParent, Goto
  <2>2. ASSUME pc'[h] = "Commit"
        PROVE  ~Stored(req[h].token) /\ tokens' = tokens
    <3>1. req[h].token \in Tokens /\ req[h].stored \in RefreshToken
      BY <1>0, <1>7, RequestTypes DEF UpdateParent, LocalsFit, TypeOK
    <3>2. Stored(req[h].token) => UpdateRejected(req[h].token, Rotated(req[h].stored))
      BY <1>0, <3>1, RotationRefused
    <3>3. QED
      BY <1>0, <1>7, <2>2, <3>2 DEF UpdateParent, Goto
  <2>3. QED
    BY <1>0, <1>3, <2>1, <2>2 DEF CopyUnreplaced, Stored
<1>8. CASE StoreToken(h) \/ Commit(h)
  BY <1>0, <1>1, <1>3, <1>8 DEF StoreToken, Commit, Goto, Fail
<1>9. CASE \/ LookupNewUser(h) \/ CreateUser(h) \/ LookupUser(h)
           \/ Respond(h) \/ Rollback(h) \/ UpdateRevoked(h)
  BY <1>0, <1>1, <1>3, <1>9
     DEF LookupNewUser, CreateUser, LookupUser, Respond, Rollback, UpdateRevoked,
         Goto, Fail
<1>10. CASE CheckRefresh(h) \/ CheckLogout(h) \/ GetUser(h)
  BY <1>0, <1>1, <1>3, <1>10 DEF CheckRefresh, CheckLogout, Check, GetUser, Goto, Fail
<1>11. QED
  BY <1>4, <1>5, <1>6, <1>7, <1>8, <1>9, <1>10
     DEF HandlerStep, LookupForRefresh, LookupForLogout

(* A request that waits keeps its copy, and its row does not come back.    *)
LEMMA WaitingCopyUnreplaced ==
  ASSUME AuthInv, NEW h \in Handlers, CopyUnreplaced(h), [Next]_vars,
         pc'[h] = pc[h], req'[h] = req[h]
  PROVE  CopyUnreplaced(h)'
<1>1. ASSUME pc[h] = "Commit"
      PROVE  tokens'[req'[h].token] = Nil
  <2>1. PICK id \in committed : id = req[h].token /\ id = req'[h].token
    BY <1>1 DEF AuthInv, LocalsFit
  <2>2. ~Stored(id)'
    BY <1>1, <2>1, GoneForGood DEF CopyUnreplaced
  <2>3. QED
    BY <2>1, <2>2 DEF Stored
<1>2. QED
  BY <1>1 DEF CopyUnreplaced, Stored

LEMMA ReplacesNoRowNext ==
  ASSUME AuthInv, SchemaInv, [Next]_vars, NEW c \in Tokens, NEW p, p = parent'[c], p # Nil
  PROVE  ~Stored(p)'
<1>0. TypeOK /\ ended \subseteq committed
  BY DEF AuthInv
<1>1. CASE p = parent[c]
  BY <1>0, <1>1, GoneForGood DEF AuthInv, SchemaInv, ReplacesNoRow
<1>2. CASE p # parent[c]
  <2>1. PICK h \in Handlers : Commit(h)
    BY <1>2, OnlyCommitReplaces
  <2>2. /\ pc[h] = "Commit" /\ req[h].token \in committed /\ CopyUnreplaced(h)
    BY <2>1 DEF Commit, AuthInv, LocalsFit, SchemaInv
  <2>3. p = req[h].token
    BY <1>0, <1>2, <2>1 DEF Commit, CommitRotation, TypeOK
  <2>4. QED
    BY <2>2, <2>3, GoneForGood DEF CopyUnreplaced
<1>3. QED
  BY <1>1, <1>2

(* refresh.bru promises a new pair.  On the schema of the migrations no    *)
(* rotation of a stored token ever commits, whatever overlaps and fails:   *)
(* a token only gets a replacement once the purge has deleted its row.     *)
THEOREM SchemaRefusesRotations ==
  ASSUME ReplacedByFK
  PROVE  Spec => []ReplacesNoRow
<1>1. Init => SchemaInv
  BY DEF Init, TokensInit, Stored, SchemaInv, RowsUnreplaced, ReplacesNoRow,
         CopyUnreplaced, NoRequest
<1>2. AuthInv /\ SchemaInv /\ [Next]_vars => SchemaInv'
  <2> SUFFICES ASSUME AuthInv, SchemaInv, [Next]_vars PROVE SchemaInv'
    OBVIOUS
  <2>1. RowsUnreplaced'
    BY RowsUnreplacedNext
  <2>2. ReplacesNoRow'
    BY ReplacesNoRowNext DEF ReplacesNoRow, Stored
  <2>3. ASSUME NEW h \in Handlers
        PROVE  CopyUnreplaced(h)'
    <3>0. CopyUnreplaced(h)
      BY DEF SchemaInv
    <3>1. ASSUME NEW g \in Handlers \ {h}, Arrival(g) \/ HandlerStep(g)
          PROVE  pc'[h] = pc[h] /\ req'[h] = req[h]
      BY <3>1, HandlerSteps DEF Step, OthersStay
    <3>2. Purge \/ Tick \/ UNCHANGED vars => pc'[h] = pc[h] /\ req'[h] = req[h]
      BY DEF Purge, Tick, vars
    <3>3. Crash => CopyUnreplaced(h)'
      BY DEF Crash, CopyUnreplaced, NoRequest
    <3>4. QED
      BY <3>0, <3>1, <3>2, <3>3, OwnCopyUnreplaced, WaitingCopyUnreplaced DEF Next
  <2>4. QED
    BY <2>1, <2>2, <2>3 DEF SchemaInv
<1>3. SchemaInv => ReplacesNoRow
  BY DEF SchemaInv
<1>4. QED
  BY <1>1, <1>2, <1>3, AuthInvariant, PTL DEF Spec
===========================================================================
