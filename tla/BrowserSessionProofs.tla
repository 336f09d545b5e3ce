------------------------ MODULE BrowserSessionProofs ------------------------
(* The session of the browser, for any number of tabs, calls, pairs and    *)
(* accounts: types, no revival after a sign-out, no call without end, and, *)
(* as long as calls do not overlap, no token and no session lost; and the  *)
(* server it speaks to is the one that TokenLineage describes.             *)
EXTENDS BrowserSession, TLAPS

(* The two tokens of a pair are stored and removed together. *)
StoredTogether == store.access = Nil <=> store.refresh = Nil

RefreshPCs == {"refreshSent", "refreshChecked", "refreshAnswered"}

(* A refresh needs a stored token to begin: one that meets an empty store  *)
(* was in flight when the store was cleared.                               *)
RefreshesAreStragglers ==
    store.access = Nil =>
        \A c \in Calls : pc[c] \in RefreshPCs => c \in stragglers

(* A refresh presents a token. *)
RefreshesPresent ==
    \A c \in Calls : pc[c] \in RefreshPCs => call[c].sent \in Pairs

(* What a tab stores is a pair. *)
Issuing(c) ==
    /\ call[c].status = 200
    /\ \/ pc[c] = "refreshAnswered"
       \/ pc[c] = "answered" /\ call[c].kind = "login"

AnswersCarryPairs == \A c \in Calls : Issuing(c) => call[c].pair \in Pairs

SessionInv ==
    /\ TypeOK
    /\ StoredTogether
    /\ RefreshesAreStragglers /\ RefreshesPresent

IInv == SessionInv /\ AnswersCarryPairs

-----------------------------------------------------------------------------
(* Records *)

LEMMA NoCallIsCall == NoCall \in Call
  BY DEF NoCall, Call, Kinds

LEMMA EmptyIsStore == Empty \in Store /\ Empty.access = Nil /\ Empty.refresh = Nil
  BY DEF Empty, Store

(* A call begins with one argument besides those its sender fills in. *)
LEMMA NoCallIsEmpty == NoCall.body = Nil /\ NoCall.sent = Nil /\ NoCall.pair = Nil
  BY DEF NoCall

LEMMA LoginArguments ==
    ASSUME NEW u \in Users, NEW x, x = [NoCall EXCEPT !.user = u]
    PROVE  x \in Call /\ x.body = Nil /\ x.sent = Nil /\ x.pair = Nil
  <1>1. \A y \in Call : LET z == [y EXCEPT !.user = u] IN
           z \in Call /\ z.body = y.body /\ z.sent = y.sent /\ z.pair = y.pair
    BY DEF Call
  <1> QED BY <1>1, NoCallIsCall, NoCallIsEmpty

LEMMA LogoutArguments ==
    ASSUME NEW q \in Pairs \cup {Nil}, NEW x, x = [NoCall EXCEPT !.body = q]
    PROVE  x \in Call /\ x.body = q /\ x.sent = Nil /\ x.pair = Nil
  <1>1. \A y \in Call : LET z == [y EXCEPT !.body = q] IN
           z \in Call /\ z.body = q /\ z.sent = y.sent /\ z.pair = y.pair
    BY DEF Call
  <1> QED BY <1>1, NoCallIsCall, NoCallIsEmpty

(* The fields of a call that an action sets. *)
LEMMA PairUpdate ==
    ASSUME NEW x \in Call, NEW p \in Pairs
    PROVE  [x EXCEPT !.pair = p] \in Call
  BY DEF Call

LEMMA SentUpdate ==
    ASSUME NEW x \in Call, NEW p \in Pairs \cup {Nil}
    PROVE  [x EXCEPT !.sent = p] \in Call
  BY DEF Call

LEMMA CreatorUpdate ==
    ASSUME NEW x \in Call, NEW u \in Users \cup {Nil}
    PROVE  [x EXCEPT !.creator = u] \in Call
  BY DEF Call

LEMMA RetryUpdate ==
    ASSUME NEW x \in Call, NEW p \in Pairs \cup {Nil}
    PROVE  [x EXCEPT !.header = p, !.refreshed = TRUE, !.status = 0,
                     !.sent = Nil, !.pair = Nil] \in Call
  <1> DEFINE header == [x EXCEPT !.header = p]
             refreshed == [header EXCEPT !.refreshed = TRUE]
             status == [refreshed EXCEPT !.status = 0]
             sent == [status EXCEPT !.sent = Nil]
             pair == [sent EXCEPT !.pair = Nil]
  <1>1. header \in Call BY DEF Call
  <1> HIDE DEF header
  <1>2. refreshed \in Call
    <2>1. \A b \in BOOLEAN : [header EXCEPT !.refreshed = b] \in Call
      BY <1>1 DEF Call
    <2> QED BY <2>1
  <1> HIDE DEF refreshed
  <1>3. status \in Call BY <1>2 DEF Call
  <1> HIDE DEF status
  <1>4. sent \in Call BY <1>3 DEF Call
  <1> HIDE DEF sent
  <1>5. pair \in Call BY <1>4 DEF Call
  <1> QED BY <1>5 DEF header, refreshed, status, sent

LEMMA SendUpdate ==
    ASSUME NEW x \in Call, NEW k \in Kinds, NEW t \in Tabs,
           NEW p \in Pairs \cup {Nil}
    PROVE  [x EXCEPT !.kind = k, !.tab = t, !.header = p] \in Call
  <1> DEFINE kind == [x EXCEPT !.kind = k]
             tab == [kind EXCEPT !.tab = t]
             header == [tab EXCEPT !.header = p]
  <1>1. kind \in Call BY DEF Call
  <1> HIDE DEF kind
  <1>2. tab \in Call BY <1>1 DEF Call
  <1> HIDE DEF tab
  <1>3. header \in Call BY <1>2 DEF Call
  <1> QED BY <1>3 DEF kind, tab

-----------------------------------------------------------------------------
(* A call begins *)

LEMMA SendKeeps ==
    ASSUME SessionInv, NEW c \in Calls, NEW kind \in Kinds, NEW t \in Tabs,
           NEW arguments \in Call, Send(c, kind, t, arguments)
    PROVE  SessionInv'
  <1>1. [arguments EXCEPT !.kind = kind, !.tab = t, !.header = store.access] \in Call
    BY SendUpdate DEF SessionInv, TypeOK, Store
  <1>2. TypeOK'
    <2>1. calm' \in BOOLEAN BY DEF Send
    <2> QED BY <1>1, <2>1 DEF SessionInv, TypeOK, Send, server, PCs
  <1>3. (StoredTogether /\ RefreshesAreStragglers /\ RefreshesPresent)'
    BY DEF SessionInv, TypeOK, StoredTogether, RefreshesAreStragglers, RefreshesPresent,
           RefreshPCs, Send, server
  <1> QED BY <1>2, <1>3 DEF SessionInv

LEMMA TabKeeps ==
    ASSUME SessionInv, NEW t \in Tabs, TabStep(t)
    PROVE  SessionInv'
  <1>1. CASE \E c \in Calls, user \in Users : SubmitLogin(c, t, user)
    <2> PICK c \in Calls, user \in Users : SubmitLogin(c, t, user) BY <1>1
    <2>1. [NoCall EXCEPT !.user = user] \in Call BY LoginArguments
    <2> QED BY <2>1, SendKeeps DEF SubmitLogin, Kinds
  <1>2. CASE \E c \in Calls, kind \in {"load", "create"} : CallApi(c, t, kind)
    BY <1>2, SendKeeps, NoCallIsCall DEF CallApi, Kinds
  <1>3. CASE \E c \in Calls : Logout(c, t)
    <2> PICK c \in Calls : Logout(c, t) BY <1>3
    <2>1. [NoCall EXCEPT !.body = store.refresh] \in Call
      BY LogoutArguments DEF SessionInv, TypeOK, Store
    <2> QED BY <2>1, SendKeeps DEF Logout, Kinds
  <1>4. CASE LogoutLocally(t)
    BY <1>4, EmptyIsStore
    DEF LogoutLocally, SessionInv, TypeOK, StoredTogether, Views, Cleared,
        RefreshesAreStragglers, RefreshesPresent, RefreshPCs, InFlight, server, Idle
  <1>5. CASE Render(t)
    BY <1>5 DEF Render, SessionInv, TypeOK, StoredTogether, Views,
                RefreshesAreStragglers, RefreshesPresent, server, history
  <1> QED BY <1>1, <1>2, <1>3, <1>4, <1>5 DEF TabStep

-----------------------------------------------------------------------------
(* The server answers *)

LEMMA AnswerKeeps ==
    ASSUME SessionInv, NEW c \in Calls, NEW answer \in Call, Answer(c, answer),
           phase' \in [Pairs -> Phases], claims' \in [Pairs -> SUBSET Calls],
           owner' \in [Pairs -> Users \cup {Nil}], fresh' \subseteq Pairs
    PROVE  SessionInv'
  BY DEF SessionInv, TypeOK, StoredTogether, RefreshesAreStragglers, RefreshesPresent,
         RefreshPCs, Answer, PCs

LEMMA IssueKeeps ==
    ASSUME TypeOK, NEW p \in Pairs, Issue(p)
    PROVE  phase' \in [Pairs -> Phases] /\ claims' \in [Pairs -> SUBSET Calls]
  BY DEF TypeOK, Issue, Phases

LEMMA ClaimKeeps ==
    ASSUME TypeOK, NEW c \in Calls, NEW p, Claim(p, c)
    PROVE  phase' \in [Pairs -> Phases] /\ claims' \in [Pairs -> SUBSET Calls]
  BY DEF TypeOK, Claim, Calls

LEMMA RotateKeeps ==
    ASSUME TypeOK, NEW c \in Calls, NEW p, NEW child \in Pairs, Rotate(p, c, child)
    PROVE  phase' \in [Pairs -> Phases] /\ claims' \in [Pairs -> SUBSET Calls]
  BY DEF TypeOK, Rotate, Phases

LEMMA DropKeeps ==
    ASSUME TypeOK, NEW c \in Calls, Drop(c)
    PROVE  claims' \in [Pairs -> SUBSET Calls]
  BY DEF TypeOK, Drop

LEMMA AnswersKeep ==
    ASSUME SessionInv, NEW c \in Calls,
           ServeLoad(c) \/ ServeCreate(c) \/ ServeLogin(c) \/ EndLogout(c)
    PROVE  SessionInv'
  <1>1. call[c] \in Call /\ TypeOK BY DEF SessionInv, TypeOK
  <1>2. \A s \in {0, 200, 401, 500} : WithStatus(c, s) \in Call
    BY <1>1 DEF WithStatus, Call
  <1>3. ASSUME UNCHANGED server
        PROVE  /\ phase' \in [Pairs -> Phases] /\ claims' \in [Pairs -> SUBSET Calls]
               /\ owner' \in [Pairs -> Users \cup {Nil}] /\ fresh' \subseteq Pairs
    BY <1>1, <1>3 DEF TypeOK, server
  <1>4. CASE ServeLoad(c)
    <2> DEFINE s == IF call[c].header \in fresh THEN 200 ELSE 401
    <2>1. WithStatus(c, s) \in Call BY <1>2
    <2> QED BY <1>3, <1>4, <2>1, AnswerKeeps DEF ServeLoad
  <1>5. CASE ServeCreate(c)
    <2>1. Creator(call[c].header) \in Users \cup {Nil}
      BY <1>1 DEF TypeOK, Creator
    <2> DEFINE answer == [WithStatus(c, 200) EXCEPT !.creator = Creator(call[c].header)]
    <2>2. answer \in Call BY <1>2, <2>1, CreatorUpdate
    <2> QED BY <1>3, <1>5, <2>2, AnswerKeeps DEF ServeCreate
  <1>6. CASE ServeLogin(c)
    <2>1. CASE Answer(c, WithStatus(c, 401)) /\ UNCHANGED server
      BY <1>2, <1>3, <2>1, AnswerKeeps
    <2>2. ASSUME NEW p \in Unborn, Issue(p),
                 owner' = [owner EXCEPT ![p] = call[c].user],
                 fresh' = fresh \cup {p},
                 \/ Answer(c, [WithStatus(c, 200) EXCEPT !.pair = p])
                 \/ Answer(c, WithStatus(c, 500))
          PROVE  SessionInv'
      <3>1. p \in Pairs BY DEF Unborn
      <3>2. [WithStatus(c, 200) EXCEPT !.pair = p] \in Call
        BY <1>2, <3>1, PairUpdate
      <3>3. /\ owner' \in [Pairs -> Users \cup {Nil}]
            /\ fresh' \subseteq Pairs
        BY <1>1, <2>2, <3>1 DEF TypeOK, Call
      <3>4. phase' \in [Pairs -> Phases] /\ claims' \in [Pairs -> SUBSET Calls]
        BY <1>1, <2>2, <3>1, IssueKeeps
      <3> QED BY <1>2, <2>2, <3>2, <3>3, <3>4, AnswerKeeps
    <2> QED BY <1>6, <2>1, <2>2 DEF ServeLogin
  <1>7. CASE EndLogout(c)
    <2>1. phase' \in [Pairs -> Phases] BY <1>1, <1>7 DEF EndLogout, TypeOK, Phases
    <2>2. claims' \in [Pairs -> SUBSET Calls] BY <1>1, <1>7, DropKeeps DEF EndLogout
    <2>3. owner' \in [Pairs -> Users \cup {Nil}] /\ fresh' \subseteq Pairs
      BY <1>1, <1>7 DEF EndLogout, TypeOK
    <2> QED BY <1>2, <1>7, <2>1, <2>2, <2>3, AnswerKeeps DEF EndLogout
  <1> QED BY <1>4, <1>5, <1>6, <1>7

LEMMA ChecksKeep ==
    ASSUME SessionInv, NEW c \in Calls, CheckLogout(c) \/ CheckRefresh(c)
    PROVE  SessionInv'
  <1>1. call[c] \in Call /\ TypeOK BY DEF SessionInv, TypeOK
  <1>2. \A s \in {0, 200, 401, 500} : WithStatus(c, s) \in Call
    BY <1>1 DEF WithStatus, Call
  <1>3. CASE CheckLogout(c)
    <2>1. CASE /\ Claim(call[c].body, c)
               /\ pc' = [pc EXCEPT ![c] = "checked"]
               /\ UNCHANGED <<owner, fresh, store, view, call, history>>
      <3>1. phase' \in [Pairs -> Phases] /\ claims' \in [Pairs -> SUBSET Calls]
        BY <1>1, <2>1, ClaimKeeps
      <3> QED
        BY <2>1, <3>1 DEF SessionInv, TypeOK, StoredTogether, PCs,
           RefreshesAreStragglers, RefreshesPresent, RefreshPCs, history
    <2>2. CASE Answer(c, WithStatus(c, 401)) /\ UNCHANGED server
      BY <1>1, <1>2, <2>2, AnswerKeeps DEF TypeOK, server
    <2> QED BY <1>3, <2>1, <2>2 DEF CheckLogout
  <1>4. CASE CheckRefresh(c)
    <2>1. phase' \in [Pairs -> Phases] /\ claims' \in [Pairs -> SUBSET Calls]
      BY <1>1, <1>4, ClaimKeeps DEF CheckRefresh, TypeOK
    <2>2. [call[c] EXCEPT !.status = 401] \in Call BY <1>1 DEF Call
    <2>3. call' \in [Calls -> Call]
      BY <1>1, <1>4, <2>2 DEF CheckRefresh, TypeOK
    <2>4. pc[c] = "refreshSent"
          /\ pc' \in {[pc EXCEPT ![c] = "refreshChecked"],
                      [pc EXCEPT ![c] = "refreshAnswered"]}
          /\ UNCHANGED <<owner, fresh, store, view, history>>
      BY <1>4 DEF CheckRefresh
    <2>5. \A d \in Calls : call'[d].sent = call[d].sent
      BY <1>1, <1>4 DEF CheckRefresh, TypeOK, Call
    <2>6. TypeOK'
      BY <1>1, <2>1, <2>3, <2>4 DEF TypeOK, PCs, history
    <2>7. (StoredTogether /\ RefreshesAreStragglers /\ RefreshesPresent)'
      BY <1>1, <2>4, <2>5 DEF SessionInv, TypeOK, StoredTogether,
         RefreshesAreStragglers, RefreshesPresent, RefreshPCs, history
    <2> QED BY <2>6, <2>7 DEF SessionInv
  <1> QED BY <1>3, <1>4

LEMMA RotationKeeps ==
    ASSUME SessionInv, NEW c \in Calls, RotatePair(c)
    PROVE  SessionInv'
  <1>1. call[c] \in Call /\ TypeOK BY DEF SessionInv, TypeOK
  <1>2. PICK p \in Unborn :
          /\ Rotate(call[c].sent, c, p)
          /\ owner' = [owner EXCEPT ![p] = owner[call[c].sent]]
          /\ fresh' = fresh \cup {p}
          /\ \/ /\ call' = [call EXCEPT ![c].status = 200, ![c].pair = p]
                /\ UNCHANGED calm
             \/ /\ call' = [call EXCEPT ![c].status = 500]
                /\ calm' = FALSE
    BY DEF RotatePair
  <1>3. p \in Pairs BY DEF Unborn
  <1>4. phase' \in [Pairs -> Phases] /\ claims' \in [Pairs -> SUBSET Calls]
    BY <1>1, <1>2, <1>3, RotateKeeps
  <1>5. call' \in [Calls -> Call] /\ calm' \in BOOLEAN
    <2>1. CASE call' = [call EXCEPT ![c].status = 200, ![c].pair = p] /\ UNCHANGED calm
      <3> DEFINE x == [call[c] EXCEPT !.status = 200]
                 y == [x EXCEPT !.pair = p]
      <3>1. x \in Call BY <1>1 DEF Call
      <3>2. y \in Call BY <1>3, <3>1, PairUpdate
      <3>3. call' = [call EXCEPT ![c] = y] BY <1>1, <2>1 DEF TypeOK
      <3> QED BY <1>1, <2>1, <3>2, <3>3 DEF TypeOK
    <2>2. CASE call' = [call EXCEPT ![c].status = 500] /\ calm' = FALSE
      <3>1. [call[c] EXCEPT !.status = 500] \in Call BY <1>1 DEF Call
      <3> QED BY <1>1, <2>2, <3>1 DEF TypeOK
    <2> QED BY <1>2, <2>1, <2>2
  <1>6. owner' \in [Pairs -> Users \cup {Nil}] /\ fresh' \subseteq Pairs
    <2>1. call[c].sent \in Pairs
      BY DEF RotatePair, SessionInv, RefreshesPresent, RefreshPCs
    <2> QED BY <1>1, <1>2, <1>3, <2>1 DEF TypeOK
  <1>7. \A d \in Calls : call'[d].sent = call[d].sent
    <2>1. CASE call' = [call EXCEPT ![c].status = 200, ![c].pair = p]
      <3> DEFINE x == [call[c] EXCEPT !.status = 200]
      <3>1. x.sent = call[c].sent BY <1>1 DEF Call
      <3>2. x \in Call BY <1>1 DEF Call
      <3>3. call' = [call EXCEPT ![c] = [x EXCEPT !.pair = p]]
        BY <1>1, <2>1 DEF TypeOK
      <3> HIDE DEF x
      <3>4. [x EXCEPT !.pair = p].sent = x.sent BY <3>2 DEF Call
      <3> QED BY <1>1, <3>1, <3>3, <3>4 DEF TypeOK
    <2>2. CASE call' = [call EXCEPT ![c].status = 500]
      BY <1>1, <2>2 DEF TypeOK, Call
    <2> QED BY <1>2, <2>1, <2>2
  <1>8. TypeOK'
    BY <1>1, <1>4, <1>5, <1>6 DEF RotatePair, TypeOK, PCs
  <1>9. (StoredTogether /\ RefreshesAreStragglers /\ RefreshesPresent)'
    BY <1>1, <1>7 DEF RotatePair, SessionInv, TypeOK, StoredTogether,
       RefreshesAreStragglers, RefreshesPresent, RefreshPCs
  <1> QED BY <1>8, <1>9 DEF SessionInv

LEMMA FailureKeeps ==
    ASSUME SessionInv, NEW c \in Calls, ServerFails(c) \/ Lose(c)
    PROVE  SessionInv'
  <1>1. call[c] \in Call /\ TypeOK BY DEF SessionInv, TypeOK
  <1>2. [call[c] EXCEPT !.status = 500] \in Call BY <1>1 DEF Call
  <1>3. claims' \in [Pairs -> SUBSET Calls]
    BY <1>1, DropKeeps DEF ServerFails, Lose
  <1>4. CASE ServerFails(c)
    <2>1. \A d \in Calls : call'[d].sent = call[d].sent
      BY <1>1, <1>4 DEF ServerFails, TypeOK, Call
    <2>2. \/ pc' = [pc EXCEPT ![c] = "answered"]
          \/ pc[c] \in RefreshPCs /\ pc' = [pc EXCEPT ![c] = "refreshAnswered"]
      <3>1. CASE pc[c] \in {"sent", "checked"}
        BY <1>1, <1>4, <3>1 DEF ServerFails, TypeOK
      <3>2. CASE pc[c] \in {"refreshSent", "refreshChecked"}
        BY <1>1, <1>4, <3>2 DEF ServerFails, TypeOK, RefreshPCs
      <3> QED BY <1>4, <3>1, <3>2 DEF ServerFails
    <2>3. call' \in [Calls -> Call] BY <1>1, <1>2, <1>4 DEF ServerFails, TypeOK
    <2>4. TypeOK' BY <1>1, <1>3, <1>4, <2>2, <2>3 DEF ServerFails, TypeOK, PCs
    <2>5. (StoredTogether /\ RefreshesAreStragglers /\ RefreshesPresent)'
      BY <1>1, <1>4, <2>1, <2>2
      DEF ServerFails, SessionInv, TypeOK, StoredTogether,
          RefreshesAreStragglers, RefreshesPresent, RefreshPCs
    <2> QED BY <2>4, <2>5 DEF SessionInv
  <1>5. CASE Lose(c)
    BY <1>3, <1>5, NoCallIsCall
    DEF Lose, Return, SessionInv, TypeOK, StoredTogether, PCs, Idle,
        RefreshesAreStragglers, RefreshesPresent, RefreshPCs
  <1> QED BY <1>4, <1>5

-----------------------------------------------------------------------------
(* The answer arrives *)

LEMMA StartRefreshKeeps ==
    ASSUME SessionInv, NEW c \in Calls, StartRefresh(c)
    PROVE  SessionInv'
  <1>1. call[c] \in Call /\ TypeOK BY DEF SessionInv, TypeOK
  <1>2. store.refresh \in Pairs
    BY <1>1 DEF StartRefresh, MustRefresh, TypeOK, Store
  <1>3. [call[c] EXCEPT !.sent = store.refresh] \in Call BY <1>1, <1>2, SentUpdate
  <1>4. call' = [call EXCEPT ![c] = [call[c] EXCEPT !.sent = store.refresh]]
    BY <1>1 DEF StartRefresh, TypeOK
  <1>5. call'[c].sent = store.refresh
    BY <1>1, <1>4 DEF TypeOK, Call
  <1>6. TypeOK'
    BY <1>1, <1>3, <1>4 DEF StartRefresh, TypeOK, PCs, server, history
  <1>7. RefreshesPresent'
    BY <1>1, <1>2, <1>4, <1>5
    DEF StartRefresh, SessionInv, TypeOK, RefreshesPresent, RefreshPCs
  <1>8. (StoredTogether /\ RefreshesAreStragglers)'
    BY <1>1 DEF StartRefresh, MustRefresh, SessionInv, StoredTogether,
       RefreshesAreStragglers, history
  <1> QED BY <1>6, <1>7, <1>8 DEF SessionInv

LEMMA SetIsStore ==
    ASSUME TypeOK, NEW p \in Pairs \cup {Nil}, NEW u \in Users \cup {Nil}
    PROVE  /\ Set(p) \in Store
           /\ Set(p).access = p /\ Set(p).refresh = p
           /\ [Set(p) EXCEPT !.username = u] \in Store
           /\ [Set(p) EXCEPT !.username = u].access = p
           /\ [Set(p) EXCEPT !.username = u].refresh = p
  <1> DEFINE access == [store EXCEPT !.access = p]
  <1>1. access \in Store /\ access.access = p BY DEF TypeOK, Store
  <1>2. Set(p) = [access EXCEPT !.refresh = p] BY DEF Set
  <1> HIDE DEF access
  <1>3. Set(p) \in Store /\ Set(p).access = p /\ Set(p).refresh = p
    BY <1>1, <1>2 DEF Store
  <1> QED BY <1>3 DEF Store

(* Whoever clears the store leaves the refreshes in flight as stragglers. *)
LEMMA ClearKeeps ==
    ASSUME SessionInv, NEW c \in Calls, Clear(c), Return(c),
           view' \in [Tabs -> Views], UNCHANGED <<server, calm>>
    PROVE  SessionInv'
  BY NoCallIsCall, EmptyIsStore
  DEF Clear, Cleared, Return, SessionInv, TypeOK, StoredTogether, PCs, Idle,
      RefreshesAreStragglers, RefreshesPresent, RefreshPCs, InFlight, server

LEMMA SignOutKeeps ==
    ASSUME SessionInv, NEW c \in Calls, SignOut(c), Return(c),
           UNCHANGED <<server, calm>>
    PROVE  SessionInv'
  <1>1. view' \in [Tabs -> Views] BY DEF SignOut, SessionInv, TypeOK, Views
  <1> QED BY <1>1, ClearKeeps DEF SignOut

LEMMA FinishKeeps ==
    ASSUME IInv, NEW c \in Calls, Finish(c)
    PROVE  SessionInv'
  <1>1. call[c] \in Call /\ SessionInv /\ TypeOK BY DEF IInv, SessionInv, TypeOK
  <1>2. pc[c] = "answered" /\ Return(c) /\ UNCHANGED <<server, calm>>
    BY DEF Finish
  <1>3. CASE SignOut(c) BY <1>1, <1>2, <1>3, SignOutKeeps
  <1>4. CASE /\ call[c].kind = "login" /\ call[c].status = 200
             /\ SignIn(c)
    <2>1. call[c].pair \in Pairs BY <1>2, <1>4 DEF IInv, AnswersCarryPairs, Issuing
    <2>2. /\ store' \in Store
          /\ store'.access = call[c].pair /\ store'.refresh = call[c].pair
      BY <1>1, <1>4, <2>1, SetIsStore DEF SignIn, Call
    <2>3. store'.access # Nil /\ store'.refresh # Nil
      BY <2>1, <2>2, BrowserNilAssumption
    <2>4. view' \in [Tabs -> Views] BY <1>1, <1>4 DEF SignIn, TypeOK, Views
    <2>5. TypeOK'
      BY <1>1, <1>2, <1>4, <2>2, <2>4, NoCallIsCall
      DEF SignIn, Return, TypeOK, PCs, Idle, server
    <2>6. (StoredTogether /\ RefreshesAreStragglers)'
      BY <2>3 DEF StoredTogether, RefreshesAreStragglers
    <2>7. RefreshesPresent'
      BY <1>1, <1>2 DEF Return, SessionInv, TypeOK, RefreshesPresent,
         RefreshPCs, Idle
    <2> QED BY <2>5, <2>6, <2>7 DEF SessionInv
  <1>5. CASE stragglers' = stragglers \ {c} /\ UNCHANGED <<store, view>>
    BY <1>1, <1>2, <1>5, NoCallIsCall
    DEF Return, SessionInv, TypeOK, StoredTogether, PCs, Idle, server,
        RefreshesAreStragglers, RefreshesPresent, RefreshPCs
  <1> QED BY <1>3, <1>4, <1>5 DEF Finish

LEMMA RetryKeeps ==
    ASSUME IInv, NEW c \in Calls, Retry(c)
    PROVE  SessionInv'
  <1>1. call[c] \in Call /\ SessionInv /\ TypeOK BY DEF IInv, SessionInv, TypeOK
  <1>2. call[c].pair \in Pairs BY DEF Retry, IInv, AnswersCarryPairs, Issuing
  <1>3. /\ store' \in Store
        /\ store'.access = call[c].pair /\ store'.refresh = call[c].pair
    BY <1>1, <1>2, SetIsStore DEF Retry
  <1>4. store'.access # Nil /\ store'.refresh # Nil
    BY <1>2, <1>3, BrowserNilAssumption
  <1>5. call' \in [Calls -> Call]
    <2>1. PICK x : x = [call[c] EXCEPT !.header = call[c].pair, !.refreshed = TRUE,
                                       !.status = 0, !.sent = Nil, !.pair = Nil]
      OBVIOUS
    <2>2. x \in Call BY <1>1, <1>2, <2>1, RetryUpdate
    <2>3. call' = [call EXCEPT ![c] = x] BY <1>1, <2>1 DEF Retry, TypeOK
    <2> QED BY <1>1, <2>2, <2>3 DEF TypeOK
  <1>6. TypeOK'
    BY <1>1, <1>3, <1>5 DEF Retry, TypeOK, PCs, server, history
  <1>7. (StoredTogether /\ RefreshesAreStragglers)'
    BY <1>4 DEF StoredTogether, RefreshesAreStragglers
  <1>8. RefreshesPresent'
    BY <1>1 DEF Retry, SessionInv, TypeOK, RefreshesPresent, RefreshPCs
  <1> QED BY <1>6, <1>7, <1>8 DEF SessionInv

LEMMA GiveUpKeeps ==
    ASSUME SessionInv, NEW c \in Calls, GiveUp(c)
    PROVE  SessionInv'
  <1>1. Return(c) /\ UNCHANGED <<server, calm>> BY DEF GiveUp
  <1>2. CASE SignOut(c) BY <1>1, <1>2, SignOutKeeps
  <1>3. CASE Clear(c) /\ UNCHANGED view
    BY <1>1, <1>3, ClearKeeps DEF SessionInv, TypeOK
  <1> QED BY <1>2, <1>3 DEF GiveUp

(* Expiry, and a pair that is forgotten. *)
LEMMA PairsKeep ==
    ASSUME SessionInv, NEW p \in Pairs,
           AccessExpires(p) \/ RefreshExpires(p) \/ Recycle(p)
    PROVE  SessionInv'
  <1>1. TypeOK'
    BY DEF SessionInv, TypeOK, Phases, AccessExpires, RefreshExpires, Recycle,
           browser, history
  <1>2. UNCHANGED <<store, pc, call, stragglers>>
    BY DEF AccessExpires, RefreshExpires, Recycle, browser, history
  <1> QED
    BY <1>1, <1>2 DEF SessionInv, StoredTogether, RefreshesAreStragglers,
       RefreshesPresent

-----------------------------------------------------------------------------
(* Answers that issue a pair carry it *)

LEMMA OneCallMoves ==
    ASSUME AnswersCarryPairs, NEW c \in Calls,
           \A d \in Calls \ {c} : pc'[d] = pc[d] /\ call'[d] = call[d],
           Issuing(c)' => call'[c].pair \in Pairs
    PROVE  AnswersCarryPairs'
  BY DEF AnswersCarryPairs, Issuing

LEMMA AnswersKeepPairs ==
    ASSUME TypeOK, AnswersCarryPairs, NEW c \in Calls,
           CallStep(c) \/ ServerFails(c) \/ Lose(c)
    PROVE  AnswersCarryPairs'
  <1>1. call[c] \in Call BY DEF TypeOK
  <1>2. CASE ServeLoad(c) \/ ServeCreate(c) \/ CheckLogout(c) \/ EndLogout(c)
    <2>1. CASE ServeLoad(c) BY <1>1, <2>1, OneCallMoves
      DEF ServeLoad, Answer, WithStatus, Issuing, TypeOK, Call
    <2>2. CASE ServeCreate(c)
      BY <1>1, <2>2, OneCallMoves
      DEF ServeCreate, Answer, WithStatus, Issuing, TypeOK, Call
    <2>3. CASE CheckLogout(c)
      BY <1>1, <2>3, OneCallMoves
      DEF CheckLogout, Answer, WithStatus, Issuing, TypeOK, Call
    <2>4. CASE EndLogout(c)
      <3> PICK status \in {200, 500} : Answer(c, WithStatus(c, status))
        BY <2>4 DEF EndLogout
      <3>1. call'[c].kind # "login"
        <4>1. WithStatus(c, status).kind = call[c].kind
          BY <1>1 DEF WithStatus, Call
        <4>2. call'[c] = WithStatus(c, status) BY DEF Answer, TypeOK
        <4> QED BY <2>4, <4>1, <4>2 DEF EndLogout
      <3>2. \A d \in Calls \ {c} : pc'[d] = pc[d] /\ call'[d] = call[d]
        BY DEF Answer, TypeOK
      <3>3. pc'[c] = "answered" BY DEF Answer, TypeOK
      <3> QED BY <3>1, <3>2, <3>3, OneCallMoves DEF Issuing
    <2> QED BY <1>2, <2>1, <2>2, <2>3, <2>4
  <1>3. CASE ServeLogin(c)
    <2>1. \A d \in Calls \ {c} : pc'[d] = pc[d] /\ call'[d] = call[d]
      BY <1>3 DEF ServeLogin, Answer, TypeOK
    <2>2. CASE Answer(c, WithStatus(c, 401)) \/ Answer(c, WithStatus(c, 500))
      <3>1. call'[c].status # 200
        BY <1>1, <2>2 DEF Answer, WithStatus, TypeOK, Call
      <3> QED BY <2>1, <3>1, OneCallMoves DEF Issuing
    <2>3. CASE \E p \in Unborn : Answer(c, [WithStatus(c, 200) EXCEPT !.pair = p])
      <3> PICK p \in Unborn : Answer(c, [WithStatus(c, 200) EXCEPT !.pair = p])
        BY <2>3
      <3>1. WithStatus(c, 200) \in Call BY <1>1 DEF WithStatus, Call
      <3>2. [WithStatus(c, 200) EXCEPT !.pair = p].pair = p BY <3>1 DEF Call
      <3>3. call'[c].pair = p BY <3>2 DEF Answer, TypeOK
      <3> QED BY <2>1, <3>3, OneCallMoves DEF Unborn
    <2> QED BY <1>3, <2>2, <2>3 DEF ServeLogin
  <1>4. CASE CheckRefresh(c)
    BY <1>1, <1>4, OneCallMoves DEF CheckRefresh, Issuing, TypeOK, Call
  <1>5. CASE RotatePair(c)
    BY <1>1, <1>5, OneCallMoves DEF RotatePair, Issuing, TypeOK, Call, Unborn
  <1>6. CASE ServerFails(c)
    BY <1>1, <1>6, OneCallMoves DEF ServerFails, Issuing, TypeOK, Call
  <1>7. CASE StartRefresh(c)
    BY <1>7, OneCallMoves DEF StartRefresh, Issuing, TypeOK
  <1>8. CASE Retry(c)
    BY <1>8, OneCallMoves DEF Retry, Issuing, TypeOK
  <1>9. CASE Finish(c) \/ GiveUp(c) \/ Lose(c)
    BY <1>9, OneCallMoves DEF Finish, GiveUp, Lose, Return, Idle, Issuing, TypeOK
  <1> QED
    BY <1>2, <1>3, <1>4, <1>5, <1>6, <1>7, <1>8, <1>9 DEF CallStep

LEMMA TabKeepsPairs ==
    ASSUME TypeOK, AnswersCarryPairs, NEW t \in Tabs, TabStep(t)
    PROVE  AnswersCarryPairs'
  <1>1. ASSUME NEW c \in Calls, NEW kind, NEW arguments,
               Send(c, kind, t, arguments)
        PROVE  AnswersCarryPairs'
    BY <1>1, OneCallMoves DEF Send, Issuing, TypeOK
  <1>2. CASE LogoutLocally(t) \/ Render(t)
    BY <1>2 DEF LogoutLocally, Render, AnswersCarryPairs, Issuing
  <1> QED BY <1>1, <1>2 DEF TabStep, SubmitLogin, CallApi, Logout

-----------------------------------------------------------------------------
(* The invariant *)

LEMMA Initially == Init => IInv
  <1> SUFFICES ASSUME Init PROVE IInv
    OBVIOUS
  <1>1. TypeOK
    <2>1. phase \in [Pairs -> Phases] /\ claims \in [Pairs -> SUBSET Calls]
      BY DEF Init, LInit, Phases, Pairs, Calls
    <2>2. owner \in [Pairs -> Users \cup {Nil}] /\ fresh \subseteq Pairs
      BY DEF Init
    <2>3. store \in Store /\ view \in [Tabs -> Views]
      BY EmptyIsStore DEF Init, Views
    <2>4. pc \in [Calls -> PCs] /\ call \in [Calls -> Call]
      BY NoCallIsCall DEF Init, PCs
    <2>5. calm \in BOOLEAN /\ stragglers \subseteq Calls
      BY Zenon DEF Init
    <2> QED BY <2>1, <2>2, <2>3, <2>4, <2>5 DEF TypeOK
  <1>2. StoredTogether BY EmptyIsStore DEF Init, StoredTogether
  <1>3. /\ RefreshesAreStragglers /\ RefreshesPresent
        /\ AnswersCarryPairs
    BY DEF Init, RefreshesAreStragglers, RefreshesPresent, RefreshPCs,
           AnswersCarryPairs, Issuing, Idle
  <1> QED BY <1>1, <1>2, <1>3 DEF IInv, SessionInv

LEMMA CallKeeps ==
    ASSUME IInv, NEW c \in Calls, CallStep(c) \/ ServerFails(c) \/ Lose(c)
    PROVE  IInv'
  <1>1. TypeOK /\ SessionInv /\ AnswersCarryPairs BY DEF IInv, SessionInv
  <1>2. SessionInv'
    BY <1>1, AnswersKeep, ChecksKeep, RotationKeeps, FailureKeeps,
       StartRefreshKeeps, FinishKeeps, RetryKeeps, GiveUpKeeps DEF CallStep
  <1> QED BY <1>1, <1>2, AnswersKeepPairs DEF IInv

LEMMA NextKeeps == IInv /\ [Next]_vars => IInv'
  <1> SUFFICES ASSUME IInv, [Next]_vars PROVE IInv'
    OBVIOUS
  <1>1. TypeOK /\ SessionInv /\ AnswersCarryPairs BY DEF IInv, SessionInv
  <1>2. CASE \E c \in Calls : CallStep(c) \/ ServerFails(c) \/ Lose(c)
    BY <1>2, CallKeeps
  <1>3. CASE \E t \in Tabs : TabStep(t)
    BY <1>1, <1>3, TabKeeps, TabKeepsPairs DEF IInv
  <1>4. CASE \E p \in Pairs : AccessExpires(p) \/ RefreshExpires(p) \/ Recycle(p)
    <2>1. AnswersCarryPairs'
      BY <1>1, <1>4 DEF AnswersCarryPairs, Issuing, AccessExpires,
         RefreshExpires, Recycle, browser
    <2> QED BY <1>1, <1>4, <2>1, PairsKeep DEF IInv
  <1>5. CASE UNCHANGED vars
    BY <1>5 DEF IInv, SessionInv, TypeOK, StoredTogether,
       RefreshesAreStragglers, RefreshesPresent, AnswersCarryPairs, Issuing,
       vars, server, browser, history
  <1> QED BY <1>2, <1>3, <1>4, <1>5 DEF Next

(* The strengthening holds in every reachable state. *)
THEOREM SessionInvariant == Spec => []IInv
  BY Initially, NextKeeps, PTL DEF Spec

(* Store, calls and the server's pairs keep to their types. *)
THEOREM SessionTypeOK == Spec => []TypeOK
  <1>1. IInv => TypeOK BY DEF IInv, SessionInv
  <1> QED BY <1>1, SessionInvariant, PTL

-----------------------------------------------------------------------------
(* Sign-out *)

LEMMA OnlySignInAndRetryStore ==
    ASSUME IInv, Next, store.access = Nil, store'.access # Nil
    PROVE  \E c \in Calls :
              \/ pc[c] = "answered" /\ call[c].kind = "login"
              \/ pc[c] = "refreshAnswered"
  <1>1. ASSUME NEW c \in Calls, CallStep(c) \/ ServerFails(c) \/ Lose(c)
        PROVE  \/ pc[c] = "answered" /\ call[c].kind = "login"
               \/ pc[c] = "refreshAnswered"
    <2>1. CASE Finish(c)
      BY <2>1, EmptyIsStore DEF Finish, SignOut, Clear, Cleared
    <2>2. CASE Retry(c) BY <2>2 DEF Retry
    <2>3. CASE GiveUp(c) BY <2>3 DEF GiveUp
    <2>4. CASE ServeLoad(c) \/ ServeCreate(c) \/ ServeLogin(c) \/ EndLogout(c)
      BY <2>4 DEF ServeLoad, ServeCreate, ServeLogin, EndLogout, Answer
    <2>5. CASE CheckLogout(c) \/ CheckRefresh(c) \/ RotatePair(c) \/ StartRefresh(c)
      BY <2>5 DEF CheckLogout, CheckRefresh, RotatePair, StartRefresh, Answer
    <2>6. CASE ServerFails(c) \/ Lose(c) BY <2>6 DEF ServerFails, Lose
    <2> QED BY <1>1, <2>1, <2>2, <2>3, <2>4, <2>5, <2>6 DEF CallStep
  <1>2. ASSUME NEW t \in Tabs, TabStep(t) PROVE FALSE
    BY <1>2, EmptyIsStore
    DEF TabStep, SubmitLogin, CallApi, Logout, Send, LogoutLocally, Cleared, Render
  <1>3. ASSUME NEW p \in Pairs, AccessExpires(p) \/ RefreshExpires(p) \/ Recycle(p)
        PROVE  FALSE
    BY <1>3 DEF AccessExpires, RefreshExpires, Recycle, browser
  <1> QED BY <1>1, <1>2, <1>3 DEF Next

(* After a sign-out, only a sign-in or a refresh that was in flight at the *)
(* time stores a pair again: Auth.clear() is final for every later call.   *)
THEOREM SignOutIsFinal == Spec => SignedOutStaysOut
  <1>1. IInv /\ [Next]_vars =>
            [(store.access = Nil /\ store'.access # Nil) =>
                \E c \in Calls :
                   \/ pc[c] = "answered" /\ call[c].kind = "login"
                   \/ pc[c] = "refreshAnswered" /\ c \in stragglers]_vars
    BY OnlySignInAndRetryStore
    DEF IInv, SessionInv, RefreshesAreStragglers, RefreshPCs
  <1> QED BY <1>1, SessionInvariant, PTL DEF Spec, SignedOutStaysOut

-----------------------------------------------------------------------------
(* No call goes round for ever *)

(* The steps that move a call, by what they make of its pc and its         *)
(* _refreshed option.                                                      *)
Moves(c) ==
    \/ pc'[c] = Idle
    \/ /\ pc[c] = "sent" /\ pc'[c] \in {"checked", "answered"}
       /\ call'[c].refreshed = call[c].refreshed
    \/ /\ pc[c] = "checked" /\ pc'[c] = "answered"
       /\ call'[c].refreshed = call[c].refreshed
    \/ /\ pc[c] = "answered" /\ pc'[c] = "refreshSent"
       /\ ~call[c].refreshed
    \/ /\ pc[c] = "refreshSent" /\ pc'[c] \in {"refreshChecked", "refreshAnswered"}
    \/ /\ pc[c] = "refreshChecked" /\ pc'[c] = "refreshAnswered"
    \/ /\ pc[c] = "refreshAnswered" /\ pc'[c] = "sent"
       /\ call'[c].refreshed

LEMMA MovesDecrease ==
    ASSUME NEW c \in Calls, pc[c] # Idle, pc[c] \in PCs, Moves(c)
    PROVE  StepsLeft(c)' < StepsLeft(c)
  BY DEF Moves, StepsLeft, PCs, Idle

LEMMA CallMoves ==
    ASSUME TypeOK, NEW c \in Calls, CallStep(c) \/ ServerFails(c) \/ Lose(c)
    PROVE  /\ Moves(c)
           /\ \A d \in Calls \ {c} : pc'[d] = pc[d]
  <1>1. call[c] \in Call BY DEF TypeOK
  <1>2. CASE ServeLoad(c)
    BY <1>1, <1>2 DEF ServeLoad, Answer, WithStatus, TypeOK, Call, Moves
  <1>3. CASE ServeCreate(c)
    BY <1>1, <1>3 DEF ServeCreate, Answer, WithStatus, TypeOK, Call, Moves
  <1>4. CASE ServeLogin(c)
    <2>1. ASSUME NEW s \in {200, 401, 500}
          PROVE  WithStatus(c, s) \in Call /\ WithStatus(c, s).refreshed = call[c].refreshed
      BY <1>1 DEF WithStatus, Call
    <2>2. ASSUME NEW p \in Pairs
          PROVE  [WithStatus(c, 200) EXCEPT !.pair = p].refreshed = call[c].refreshed
      BY <2>1 DEF Call
    <2>3. call'[c].refreshed = call[c].refreshed
      <3>1. CASE Answer(c, WithStatus(c, 401)) \/ Answer(c, WithStatus(c, 500))
        BY <2>1, <3>1 DEF Answer, TypeOK
      <3>2. CASE \E p \in Unborn : Answer(c, [WithStatus(c, 200) EXCEPT !.pair = p])
        BY <2>2, <3>2 DEF Answer, TypeOK, Unborn
      <3> QED BY <1>4, <3>1, <3>2 DEF ServeLogin
    <2> QED BY <1>4, <2>3 DEF ServeLogin, Answer, TypeOK, Moves
  <1>5. CASE CheckLogout(c)
    BY <1>1, <1>5 DEF CheckLogout, Answer, WithStatus, TypeOK, Call, Moves
  <1>6. CASE EndLogout(c)
    BY <1>1, <1>6 DEF EndLogout, Answer, WithStatus, TypeOK, Call, Moves
  <1>7. CASE CheckRefresh(c) BY <1>7 DEF CheckRefresh, TypeOK, Moves
  <1>8. CASE RotatePair(c) BY <1>8 DEF RotatePair, TypeOK, Moves
  <1>9. CASE StartRefresh(c) BY <1>9 DEF StartRefresh, MustRefresh, TypeOK, Moves
  <1>10. CASE Retry(c)
    BY <1>1, <1>10 DEF Retry, TypeOK, Call, Moves
  <1>11. CASE Finish(c) \/ GiveUp(c) \/ Lose(c)
    BY <1>11 DEF Finish, GiveUp, Lose, Return, TypeOK, Moves
  <1>12. CASE ServerFails(c)
    <2>1. call'[c].refreshed = call[c].refreshed
      BY <1>1, <1>12 DEF ServerFails, TypeOK, Call
    <2>2. CASE pc[c] \in {"sent", "checked"}
      <3>1. pc' = [pc EXCEPT ![c] = "answered"] BY <1>12, <2>2 DEF ServerFails
      <3> QED BY <2>1, <2>2, <3>1 DEF TypeOK, Moves
    <2>3. CASE pc[c] \in {"refreshSent", "refreshChecked"}
      <3>1. pc' = [pc EXCEPT ![c] = "refreshAnswered"]
        BY <1>12, <2>3 DEF ServerFails
      <3> QED BY <2>3, <3>1 DEF TypeOK, Moves
    <2> QED BY <1>12, <2>2, <2>3 DEF ServerFails
  <1> QED
    BY <1>2, <1>3, <1>4, <1>5, <1>6, <1>7, <1>8, <1>9, <1>10, <1>11, <1>12
    DEF CallStep

(* No call waits for a refresh that starts again and again: each of its    *)
(* steps uses up one of at most nine.                                      *)
THEOREM CallsAreFinite == Spec => CallsEnd
  <1>1. ASSUME TypeOK, [Next]_vars
        PROVE  [\A c \in Calls : (pc[c] # Idle /\ pc'[c] # pc[c]) =>
                                      StepsLeft(c)' < StepsLeft(c)]_vars
    <2> SUFFICES ASSUME Next, NEW c \in Calls, pc[c] # Idle, pc'[c] # pc[c]
                 PROVE  StepsLeft(c)' < StepsLeft(c)
      BY <1>1
    <2>1. CASE \E d \in Calls : CallStep(d) \/ ServerFails(d) \/ Lose(d)
      <3>1. Moves(c) BY <1>1, <2>1, CallMoves
      <3> QED BY <1>1, <3>1, MovesDecrease DEF TypeOK
    <2>2. CASE \E t \in Tabs : TabStep(t)
      <3>1. FALSE
        BY <1>1, <2>2 DEF TabStep, SubmitLogin, CallApi, Logout, Send,
           LogoutLocally, Render, TypeOK
      <3> QED BY <3>1
    <2>3. CASE \E p \in Pairs : AccessExpires(p) \/ RefreshExpires(p) \/ Recycle(p)
      BY <2>3 DEF AccessExpires, RefreshExpires, Recycle, browser
    <2> QED BY <2>1, <2>2, <2>3 DEF Next
  <1> QED BY <1>1, SessionTypeOK, PTL DEF Spec, CallsEnd

-----------------------------------------------------------------------------
(* A calm session: what each stage of the only call under way relies on *)

(* In a calm session at most one call is under way. *)
Alone == \A c, d \in Calls : pc[c] # Idle /\ pc[d] # Idle => c = d

(* The server's good tokens are the stored one and that of an answer. *)
GoodOnesKept ==
    \A p \in Pairs : phase[p] = "good" =>
        p = store.refresh \/ \E c \in InFlight : call[c].pair = p

StoreNamesOwner ==
    store.refresh # Nil => /\ phase[store.refresh] # "unborn"
                           /\ store.username = owner[store.refresh]

(* What the only call under way relies on at each stage. *)
LoginMeetsEmptyStore(c) ==
    call[c].kind = "login" => store.refresh = Nil /\ pc[c] \in {"sent", "answered"}

(* A logout tells the server of the stored token: it refreshes only after  *)
(* that was refused, and is refused again.                                 *)
LogoutEndsStored(c) ==
    call[c].kind = "logout" =>
        /\ store.refresh # Nil /\ call[c].body = store.refresh
        /\ pc[c] # "refreshChecked"
        /\ pc[c] \notin {"sent", "checked"} => phase[store.refresh] # "good"
        /\ pc[c] = "refreshAnswered" => call[c].status # 200

RefreshSendsStored(c) ==
    pc[c] \in RefreshPCs =>
        /\ store.refresh # Nil /\ call[c].sent = store.refresh
        /\ pc[c] = "refreshAnswered" => phase[store.refresh] # "good"

AnswerNamesOwner(c) ==
    call[c].pair # Nil =>
        /\ Issuing(c)
        /\ phase[call[c].pair] # "unborn"
        /\ owner[call[c].pair] = IF call[c].kind = "login" THEN call[c].user
                                 ELSE store.username

CallFits(c) ==
    /\ LoginMeetsEmptyStore(c) /\ LogoutEndsStored(c)
    /\ RefreshSendsStored(c) /\ AnswerNamesOwner(c)

CalmInv ==
    calm => /\ Alone /\ GoodOnesKept /\ StoreNamesOwner
            /\ \A c \in InFlight : CallFits(c)

LEMMA AloneGood ==
    ASSUME calm, CalmInv, NEW c \in Calls, pc[c] # Idle
    PROVE  /\ \A p \in Pairs : phase[p] = "good" => p = store.refresh \/ p = call[c].pair
           /\ CallFits(c) /\ StoreNamesOwner
  BY DEF CalmInv, Alone, GoodOnesKept, InFlight

(* A step of the call changes no other call: none is under way. *)
LEMMA OnlyCallMoves ==
    ASSUME calm, CalmInv, NEW c \in Calls, pc[c] # Idle,
           \A d \in Calls \ {c} : pc'[d] = pc[d],
           \A p \in Pairs : phase'[p] = "good" =>
              p = store'.refresh \/ (pc'[c] # Idle /\ p = call'[c].pair),
           StoreNamesOwner', pc'[c] # Idle => CallFits(c)'
    PROVE  CalmInv'
  <1>1. \A d \in Calls \ {c} : pc'[d] = Idle BY DEF CalmInv, Alone
  <1> QED BY <1>1 DEF CalmInv, Alone, GoodOnesKept, InFlight

LEMMA StatusFields ==
    ASSUME TypeOK, NEW c \in Calls, NEW s \in {0, 200, 401, 500}
    PROVE  LET x == WithStatus(c, s) IN
           /\ x \in Call /\ x.status = s
           /\ x.kind = call[c].kind /\ x.user = call[c].user
           /\ x.body = call[c].body /\ x.pair = call[c].pair
  BY DEF WithStatus, TypeOK, Call

LEMMA PairFields ==
    ASSUME NEW x \in Call, NEW p
    PROVE  LET y == [x EXCEPT !.pair = p] IN
           /\ y.pair = p /\ y.status = x.status /\ y.kind = x.kind
           /\ y.user = x.user /\ y.sent = x.sent
  BY DEF Call

(* An answer without a pair: tokens may have ended, a refused or ended     *)
(* logout leaves its own without effect.                                   *)
LEMMA AnswerCalm ==
    ASSUME IInv, calm, CalmInv, NEW c \in Calls, pc[c] \in {"sent", "checked"},
           NEW x, Answer(c, x), x.kind = call[c].kind,
           x.body = call[c].body, x.pair = call[c].pair, UNCHANGED owner,
           \A p \in Pairs : \/ phase'[p] = phase[p]
                            \/ phase[p] = "good" /\ phase'[p] = "ended",
           x.kind = "logout" => phase'[store.refresh] # "good"
    PROVE  CalmInv'
  <1>1. TypeOK BY DEF IInv, SessionInv
  <1>2. /\ pc' = [pc EXCEPT ![c] = "answered"] /\ call' = [call EXCEPT ![c] = x]
        /\ UNCHANGED store
    BY DEF Answer
  <1>3. /\ pc'[c] = "answered" /\ call'[c] = x
        /\ \A d \in Calls \ {c} : pc'[d] = pc[d]
    BY <1>1, <1>2 DEF TypeOK
  <1>4. /\ \A p \in Pairs : phase[p] = "good" => p = store.refresh \/ p = call[c].pair
        /\ CallFits(c) /\ StoreNamesOwner
    BY AloneGood DEF Idle
  <1>5. call[c].pair = Nil
    BY <1>4 DEF CallFits, AnswerNamesOwner, Issuing
  <1>6. StoreNamesOwner'
    BY <1>1, <1>2, <1>4 DEF StoreNamesOwner, TypeOK, Store
  <1>7. CallFits(c)'
    BY <1>2, <1>3, <1>4, <1>5
    DEF CallFits, LoginMeetsEmptyStore, LogoutEndsStored, RefreshSendsStored,
        AnswerNamesOwner, RefreshPCs
  <1>8. \A p \in Pairs : phase'[p] = "good" => p = store'.refresh
    BY <1>2, <1>4, <1>5, BrowserNilAssumption
  <1> QED BY <1>3, <1>6, <1>7, <1>8, OnlyCallMoves DEF Idle

LEMMA ServeCalm ==
    ASSUME IInv, calm, calm', CalmInv, NEW c \in Calls,
           ServeLoad(c) \/ ServeCreate(c)
    PROVE  CalmInv'
  <1>1. TypeOK /\ call[c] \in Call BY DEF IInv, SessionInv, TypeOK
  <1>2. CASE ServeLoad(c)
    <2> PICK s \in {200, 401} : Answer(c, WithStatus(c, s)) BY <1>2 DEF ServeLoad
    <2> QED BY <1>1, <1>2, StatusFields, AnswerCalm DEF ServeLoad, server
  <1>3. CASE ServeCreate(c)
    <2> DEFINE x == [WithStatus(c, 200) EXCEPT !.creator = Creator(call[c].header)]
    <2>1. x.kind = call[c].kind /\ x.body = call[c].body /\ x.pair = call[c].pair
      BY <1>1, StatusFields DEF Call
    <2>2. Answer(c, x) /\ call[c].kind = "create" /\ pc[c] = "sent" /\ UNCHANGED server
      BY <1>3 DEF ServeCreate
    <2> HIDE DEF x
    <2> QED BY <2>1, <2>2, AnswerCalm DEF server
  <1> QED BY <1>2, <1>3

LEMMA LoginCalm ==
    ASSUME IInv, calm, calm', CalmInv, NEW c \in Calls, ServeLogin(c)
    PROVE  CalmInv'
  <1>1. /\ TypeOK /\ call[c] \in Call /\ pc[c] = "sent" /\ call[c].kind = "login"
    BY DEF IInv, SessionInv, TypeOK, ServeLogin
  <1>2. CASE Answer(c, WithStatus(c, 401)) /\ UNCHANGED server
    BY <1>1, <1>2, StatusFields, AnswerCalm DEF server
  <1>3. ASSUME NEW p \in Unborn, Issue(p), owner' = [owner EXCEPT ![p] = call[c].user],
               Answer(c, [WithStatus(c, 200) EXCEPT !.pair = p])
        PROVE  CalmInv'
    <2> DEFINE x == [WithStatus(c, 200) EXCEPT !.pair = p]
    <2>1. /\ x.pair = p /\ x.kind = "login" /\ x.user = call[c].user
          /\ x.status = 200
      BY <1>1, StatusFields, PairFields
    <2> HIDE DEF x
    <2>2. /\ pc' = [pc EXCEPT ![c] = "answered"] /\ call' = [call EXCEPT ![c] = x]
          /\ UNCHANGED store
      BY <1>3 DEF Answer, x
    <2>3. /\ pc'[c] = "answered" /\ call'[c] = x
          /\ \A d \in Calls \ {c} : pc'[d] = pc[d]
      BY <1>1, <2>2 DEF TypeOK
    <2>4. /\ \A q \in Pairs : phase[q] = "good" => q = store.refresh \/ q = call[c].pair
          /\ CallFits(c) /\ StoreNamesOwner
      BY <1>1, AloneGood DEF Idle
    <2>5. call[c].pair = Nil /\ store.refresh = Nil
      BY <1>1, <2>4 DEF CallFits, AnswerNamesOwner, LoginMeetsEmptyStore, Issuing
    <2>6. /\ p \in Pairs /\ phase'[p] = "good" /\ owner'[p] = call[c].user
          /\ \A q \in Pairs \ {p} : phase'[q] = phase[q]
      BY <1>1, <1>3 DEF Unborn, Issue, TypeOK
    <2>7. StoreNamesOwner' BY <2>2, <2>5 DEF StoreNamesOwner
    <2>8. CallFits(c)'
      BY <2>1, <2>2, <2>3, <2>5, <2>6
      DEF CallFits, LoginMeetsEmptyStore, LogoutEndsStored, RefreshSendsStored,
          AnswerNamesOwner, RefreshPCs, Issuing
    <2>9. \A q \in Pairs : phase'[q] = "good" => q = call'[c].pair
      BY <2>1, <2>3, <2>4, <2>5, <2>6, BrowserNilAssumption
    <2> QED BY <1>1, <2>3, <2>7, <2>8, <2>9, OnlyCallMoves DEF Idle
  <1>4. ~Answer(c, WithStatus(c, 500))
    <2>1. WithStatus(c, 500).status = 500 BY <1>1, StatusFields
    <2> QED BY <2>1 DEF Answer
  <1> QED BY <1>2, <1>3, <1>4 DEF ServeLogin

LEMMA LogoutCalm ==
    ASSUME IInv, calm, calm', CalmInv, NEW c \in Calls, CheckLogout(c) \/ EndLogout(c)
    PROVE  CalmInv'
  <1>1. /\ TypeOK /\ call[c].kind = "logout" /\ pc[c] \in {"sent", "checked"}
    BY DEF IInv, SessionInv, CheckLogout, EndLogout
  <1>2. /\ \A p \in Pairs : phase[p] = "good" => p = store.refresh \/ p = call[c].pair
        /\ CallFits(c) /\ StoreNamesOwner
    BY <1>1, AloneGood DEF Idle
  <1>3. store.refresh \in Pairs /\ call[c].body = store.refresh
    BY <1>1, <1>2 DEF CallFits, LogoutEndsStored, TypeOK, Store
  <1>4. CASE CheckLogout(c)
    <2>1. CASE /\ Claim(call[c].body, c) /\ pc' = [pc EXCEPT ![c] = "checked"]
               /\ UNCHANGED <<owner, fresh, store, view, call, history>>
      <3>1. pc'[c] = "checked" /\ \A d \in Calls \ {c} : pc'[d] = pc[d]
        BY <1>1, <2>1 DEF TypeOK
      <3>2. UNCHANGED <<phase, owner, store, call>> BY <2>1 DEF Claim
      <3>3. StoreNamesOwner' BY <1>2, <3>2 DEF StoreNamesOwner
      <3>4. call[c].pair = Nil
        BY <1>1, <1>2 DEF CallFits, AnswerNamesOwner, Issuing
      <3>5. CallFits(c)'
        BY <1>1, <1>2, <3>1, <3>2, <3>4
        DEF CallFits, LoginMeetsEmptyStore, LogoutEndsStored, RefreshSendsStored,
            AnswerNamesOwner, RefreshPCs
      <3> QED BY <1>1, <1>2, <3>1, <3>2, <3>3, <3>5, OnlyCallMoves DEF Idle
    <2>2. CASE /\ phase[call[c].body] # "good"
               /\ Answer(c, WithStatus(c, 401)) /\ UNCHANGED server
      BY <1>1, <1>3, <2>2, StatusFields, AnswerCalm DEF server
    <2> QED BY <1>4, <2>1, <2>2 DEF CheckLogout
  <1>5. CASE EndLogout(c)
    <2>1. PICK s \in {200, 500} : Answer(c, WithStatus(c, s)) BY <1>5 DEF EndLogout
    <2>2. s \in {0, 200, 401, 500} OBVIOUS
    <2>3. phase' = [phase EXCEPT ![store.refresh] = "ended"] /\ UNCHANGED owner
      BY <1>3, <1>5 DEF EndLogout
    <2>4. CASE phase[store.refresh] = "good"
      <3>1. \A p \in Pairs : \/ phase'[p] = phase[p]
                             \/ phase[p] = "good" /\ phase'[p] = "ended"
        BY <1>1, <2>3, <2>4 DEF TypeOK
      <3>2. phase'[store.refresh] # "good" BY <1>1, <1>3, <2>3 DEF TypeOK
      <3> QED BY <1>1, <2>1, <2>2, <2>3, <3>1, <3>2, StatusFields, AnswerCalm
    <2>5. CASE phase[store.refresh] # "good"
      <3>1. phase[store.refresh] = "ended"
        BY <1>1, <1>2, <1>3, <2>5, BrowserNilAssumption DEF StoreNamesOwner, TypeOK, Phases
      <3>2. \A p \in Pairs : phase'[p] = phase[p] BY <1>1, <2>3, <3>1 DEF TypeOK
      <3> QED BY <1>1, <1>3, <2>1, <2>2, <2>3, <2>5, <3>2, StatusFields, AnswerCalm
    <2> QED BY <2>4, <2>5
  <1> QED BY <1>4, <1>5

LEMMA CheckRefreshCalm ==
    ASSUME IInv, calm, CalmInv, NEW c \in Calls, CheckRefresh(c)
    PROVE  CalmInv'
  <1>1. TypeOK /\ call[c] \in Call /\ pc[c] = "refreshSent"
    BY DEF IInv, SessionInv, TypeOK, CheckRefresh
  <1>2. /\ \A p \in Pairs : phase[p] = "good" => p = store.refresh \/ p = call[c].pair
        /\ CallFits(c) /\ StoreNamesOwner
    BY <1>1, AloneGood DEF Idle
  <1>3. /\ call[c].pair = Nil /\ call[c].kind # "login"
        /\ store.refresh # Nil /\ call[c].sent = store.refresh
        /\ call[c].kind = "logout" =>
              call[c].body = store.refresh /\ phase[store.refresh] # "good"
    BY <1>1, <1>2 DEF CallFits, AnswerNamesOwner, Issuing, LoginMeetsEmptyStore,
       RefreshSendsStored, RefreshPCs, LogoutEndsStored
  <1>4. UNCHANGED <<owner, store, phase>> BY DEF CheckRefresh, Claim
  <1>5. StoreNamesOwner' BY <1>2, <1>4 DEF StoreNamesOwner
  <1>6. \A d \in Calls \ {c} : pc'[d] = pc[d] BY <1>1 DEF CheckRefresh, TypeOK
  <1>7. \A p \in Pairs : phase'[p] = "good" => p = store'.refresh
    BY <1>2, <1>3, <1>4, BrowserNilAssumption
  <1>8. CallFits(c)'
    <2>1. CASE Claim(call[c].sent, c) /\ pc' = [pc EXCEPT ![c] = "refreshChecked"]
                  /\ UNCHANGED call
      <3>1. pc'[c] = "refreshChecked" BY <1>1, <2>1 DEF TypeOK
      <3>2. call[c].kind # "logout" BY <1>3, <2>1 DEF Claim
      <3> QED
        BY <1>3, <1>4, <2>1, <3>1, <3>2
        DEF CallFits, LoginMeetsEmptyStore, LogoutEndsStored, RefreshSendsStored,
            AnswerNamesOwner, RefreshPCs
    <2>2. CASE /\ phase[call[c].sent] # "good"
               /\ pc' = [pc EXCEPT ![c] = "refreshAnswered"]
               /\ call' = [call EXCEPT ![c].status = 401]
      <3>1. /\ pc'[c] = "refreshAnswered" /\ call'[c].status = 401
            /\ call'[c].kind = call[c].kind /\ call'[c].body = call[c].body
            /\ call'[c].sent = call[c].sent /\ call'[c].pair = call[c].pair
        BY <1>1, <2>2 DEF TypeOK, Call
      <3> QED
        BY <1>3, <1>4, <2>2, <3>1
        DEF CallFits, LoginMeetsEmptyStore, LogoutEndsStored, RefreshSendsStored,
            AnswerNamesOwner, RefreshPCs
    <2> QED BY <2>1, <2>2 DEF CheckRefresh
  <1> QED BY <1>1, <1>5, <1>6, <1>7, <1>8, OnlyCallMoves DEF Idle

LEMMA RotateCalm ==
    ASSUME IInv, calm, calm', CalmInv, NEW c \in Calls, RotatePair(c)
    PROVE  CalmInv'
  <1>1. TypeOK /\ call[c] \in Call /\ pc[c] = "refreshChecked"
    BY DEF IInv, SessionInv, TypeOK, RotatePair
  <1>2. /\ \A p \in Pairs : phase[p] = "good" => p = store.refresh \/ p = call[c].pair
        /\ CallFits(c) /\ StoreNamesOwner
    BY <1>1, AloneGood DEF Idle
  <1>3. /\ call[c].pair = Nil /\ call[c].kind \notin {"login", "logout"}
        /\ store.refresh \in Pairs /\ store.refresh # Nil
        /\ call[c].sent = store.refresh
        /\ phase[store.refresh] # "unborn" /\ store.username = owner[store.refresh]
    BY <1>1, <1>2 DEF CallFits, AnswerNamesOwner, Issuing, LoginMeetsEmptyStore,
       RefreshSendsStored, RefreshPCs, LogoutEndsStored, StoreNamesOwner, TypeOK, Store
  <1>4. PICK p \in Unborn :
          /\ Rotate(call[c].sent, c, p)
          /\ owner' = [owner EXCEPT ![p] = owner[call[c].sent]]
          /\ call' = [call EXCEPT ![c].status = 200, ![c].pair = p]
    BY DEF RotatePair
  <1>5. /\ p \in Pairs /\ p # store.refresh
        /\ phase'[store.refresh] = "ended" /\ phase'[p] # "unborn"
        /\ \A q \in Pairs \ {p, store.refresh} : phase'[q] = phase[q]
        /\ owner'[p] = store.username /\ owner'[store.refresh] = store.username
    BY <1>1, <1>3, <1>4 DEF Unborn, Rotate, TypeOK
  <1>6. /\ call'[c].pair = p /\ call'[c].status = 200
        /\ call'[c].kind = call[c].kind /\ call'[c].sent = call[c].sent
    <2> DEFINE x == [call[c] EXCEPT !.status = 200]
    <2>1. /\ x \in Call /\ x.status = 200 /\ x.kind = call[c].kind
          /\ x.sent = call[c].sent
      BY <1>1 DEF Call
    <2>2. call'[c] = [x EXCEPT !.pair = p] BY <1>1, <1>4 DEF TypeOK
    <2> HIDE DEF x
    <2> QED BY <2>1, <2>2, PairFields
  <1>7. /\ UNCHANGED store /\ pc'[c] = "refreshAnswered"
        /\ \A d \in Calls \ {c} : pc'[d] = pc[d]
    BY <1>1 DEF RotatePair, TypeOK
  <1>8. StoreNamesOwner' BY <1>5, <1>7 DEF StoreNamesOwner
  <1>9. CallFits(c)'
    BY <1>3, <1>5, <1>6, <1>7
    DEF CallFits, LoginMeetsEmptyStore, LogoutEndsStored, RefreshSendsStored,
        AnswerNamesOwner, RefreshPCs, Issuing
  <1>10. \A q \in Pairs : phase'[q] = "good" => q = call'[c].pair
    BY <1>2, <1>3, <1>5, <1>6, BrowserNilAssumption
  <1> QED BY <1>1, <1>7, <1>8, <1>9, <1>10, OnlyCallMoves DEF Idle

LEMMA StartRefreshCalm ==
    ASSUME IInv, calm, CalmInv, NEW c \in Calls, StartRefresh(c)
    PROVE  CalmInv'
  <1>1. /\ TypeOK /\ call[c] \in Call /\ pc[c] = "answered"
        /\ call[c].status = 401 /\ store.refresh # Nil
    BY DEF IInv, SessionInv, TypeOK, StartRefresh, MustRefresh
  <1>2. /\ \A p \in Pairs : phase[p] = "good" => p = store.refresh \/ p = call[c].pair
        /\ CallFits(c) /\ StoreNamesOwner
    BY <1>1, AloneGood DEF Idle
  <1>3. /\ call[c].pair = Nil /\ call[c].kind # "login"
        /\ call[c].kind = "logout" =>
              call[c].body = store.refresh /\ phase[store.refresh] # "good"
    BY <1>1, <1>2 DEF CallFits, AnswerNamesOwner, Issuing, LoginMeetsEmptyStore,
       LogoutEndsStored
  <1>4. /\ UNCHANGED <<phase, owner, store>> /\ pc'[c] = "refreshSent"
        /\ \A d \in Calls \ {c} : pc'[d] = pc[d]
        /\ call' = [call EXCEPT ![c].sent = store.refresh]
    BY <1>1 DEF StartRefresh, TypeOK, server
  <1>5. /\ call'[c].sent = store.refresh /\ call'[c].kind = call[c].kind
        /\ call'[c].body = call[c].body /\ call'[c].pair = call[c].pair
    BY <1>1, <1>4 DEF TypeOK, Call
  <1>6. StoreNamesOwner' BY <1>2, <1>4 DEF StoreNamesOwner
  <1>7. CallFits(c)'
    BY <1>1, <1>3, <1>4, <1>5
    DEF CallFits, LoginMeetsEmptyStore, LogoutEndsStored, RefreshSendsStored,
        AnswerNamesOwner, RefreshPCs
  <1>8. \A p \in Pairs : phase'[p] = "good" => p = store'.refresh
    BY <1>2, <1>3, <1>4, BrowserNilAssumption
  <1> QED BY <1>1, <1>4, <1>6, <1>7, <1>8, OnlyCallMoves DEF Idle

LEMMA FinishCalm ==
    ASSUME IInv, calm, CalmInv, NEW c \in Calls, Finish(c)
    PROVE  CalmInv'
  <1>1. /\ TypeOK /\ call[c] \in Call /\ pc[c] = "answered"
        /\ UNCHANGED <<phase, owner>> /\ Return(c)
    BY DEF IInv, SessionInv, TypeOK, Finish, server
  <1>2. /\ \A p \in Pairs : phase[p] = "good" => p = store.refresh \/ p = call[c].pair
        /\ CallFits(c) /\ StoreNamesOwner
    BY <1>1, AloneGood DEF Idle
  <1>3. pc'[c] = Idle /\ \A d \in Calls \ {c} : pc'[d] = pc[d]
    BY <1>1 DEF Return, TypeOK
  <1>4. CASE call[c].kind = "login" /\ call[c].status = 200 /\ SignIn(c)
    <2>1. call[c].pair \in Pairs BY <1>1, <1>4 DEF IInv, AnswersCarryPairs, Issuing
    <2>2. /\ store' = [Set(call[c].pair) EXCEPT !.username = call[c].user]
          /\ call[c].user \in Users \cup {Nil}
      BY <1>1, <1>4 DEF SignIn, Call
    <2>3. store'.refresh = call[c].pair /\ store'.username = call[c].user
      <3>1. Set(call[c].pair) \in Store BY <1>1, <2>1, SetIsStore
      <3> QED BY <1>1, <2>1, <2>2, <3>1, SetIsStore DEF Store
    <2>4. /\ store.refresh = Nil /\ phase[call[c].pair] # "unborn"
          /\ owner[call[c].pair] = call[c].user
      BY <1>2, <1>4, <2>1, BrowserNilAssumption
      DEF CallFits, LoginMeetsEmptyStore, AnswerNamesOwner
    <2>5. StoreNamesOwner' BY <1>1, <2>3, <2>4 DEF StoreNamesOwner
    <2>6. \A p \in Pairs : phase'[p] = "good" => p = store'.refresh
      BY <1>1, <1>2, <2>3, <2>4, BrowserNilAssumption
    <2> QED BY <1>1, <1>3, <2>5, <2>6, OnlyCallMoves DEF Idle
  <1>5. CASE call[c].kind = "logout" /\ SignOut(c)
    <2>1. store' = Empty BY <1>5 DEF SignOut, Clear, Cleared
    <2>2. call[c].pair = Nil /\ phase[store.refresh] # "good"
      BY <1>1, <1>2, <1>5 DEF CallFits, AnswerNamesOwner, LogoutEndsStored, Issuing
    <2>3. \A p \in Pairs : phase'[p] # "good"
      BY <1>1, <1>2, <2>2, BrowserNilAssumption
    <2>4. StoreNamesOwner' BY <2>1, EmptyIsStore DEF StoreNamesOwner
    <2> QED BY <1>1, <1>3, <2>3, <2>4, OnlyCallMoves DEF Idle
  <1>6. CASE /\ ~(call[c].kind = "login" /\ call[c].status = 200)
             /\ UNCHANGED store
    <2>1. call[c].pair = Nil
      BY <1>1, <1>2, <1>6 DEF CallFits, AnswerNamesOwner, Issuing
    <2>2. \A p \in Pairs : phase'[p] = "good" => p = store'.refresh
      BY <1>1, <1>2, <1>6, <2>1, BrowserNilAssumption
    <2>3. StoreNamesOwner' BY <1>1, <1>2, <1>6 DEF StoreNamesOwner
    <2> QED BY <1>1, <1>3, <2>2, <2>3, OnlyCallMoves DEF Idle
  <1> QED BY <1>4, <1>5, <1>6 DEF Finish

LEMMA RetryCalm ==
    ASSUME IInv, calm, CalmInv, NEW c \in Calls, Retry(c)
    PROVE  CalmInv'
  <1>1. /\ TypeOK /\ call[c] \in Call /\ pc[c] = "refreshAnswered"
        /\ call[c].status = 200 /\ UNCHANGED <<phase, owner>>
    BY DEF IInv, SessionInv, TypeOK, Retry, server
  <1>2. /\ \A p \in Pairs : phase[p] = "good" => p = store.refresh \/ p = call[c].pair
        /\ CallFits(c) /\ StoreNamesOwner
    BY <1>1, AloneGood DEF Idle
  <1>3. call[c].pair \in Pairs /\ call[c].pair # Nil
    BY <1>1, BrowserNilAssumption DEF IInv, AnswersCarryPairs, Issuing
  <1>4. /\ phase[store.refresh] # "good" /\ phase[call[c].pair] # "unborn"
        /\ call[c].kind \notin {"login", "logout"}
        /\ owner[call[c].pair] = store.username
    BY <1>1, <1>2, <1>3
    DEF CallFits, LoginMeetsEmptyStore, LogoutEndsStored, RefreshSendsStored,
        AnswerNamesOwner, RefreshPCs
  <1>5. store'.refresh = call[c].pair /\ store'.username = store.username
    <2> DEFINE access == [store EXCEPT !.access = call[c].pair]
    <2>1. access \in Store /\ access.username = store.username
      BY <1>1, <1>3 DEF TypeOK, Store
    <2>2. store' = [access EXCEPT !.refresh = call[c].pair] BY DEF Retry, Set
    <2> HIDE DEF access
    <2> QED BY <2>1, <2>2 DEF Store
  <1>6. /\ pc'[c] = "sent" /\ \A d \in Calls \ {c} : pc'[d] = pc[d]
        /\ call'[c] = [call[c] EXCEPT !.header = call[c].pair, !.refreshed = TRUE,
                                      !.status = 0, !.sent = Nil, !.pair = Nil]
    BY <1>1 DEF Retry, TypeOK
  <1>7. call'[c].kind = call[c].kind /\ call'[c].pair = Nil
    <2> DEFINE x == [call[c] EXCEPT !.header = call[c].pair, !.refreshed = TRUE,
                                    !.status = 0, !.sent = Nil]
    <2>1. x.kind = call[c].kind /\ "pair" \in DOMAIN x /\ "kind" \in DOMAIN x
      BY <1>1 DEF Call
    <2>2. call'[c] = [x EXCEPT !.pair = Nil] BY <1>6
    <2> HIDE DEF x
    <2> QED BY <2>1, <2>2
  <1>8. StoreNamesOwner' BY <1>1, <1>4, <1>5 DEF StoreNamesOwner
  <1>9. CallFits(c)'
    BY <1>4, <1>6, <1>7
    DEF CallFits, LoginMeetsEmptyStore, LogoutEndsStored, RefreshSendsStored,
        AnswerNamesOwner, RefreshPCs
  <1>10. \A p \in Pairs : phase'[p] = "good" => p = store'.refresh
    BY <1>1, <1>2, <1>4, <1>5
  <1> QED BY <1>1, <1>6, <1>8, <1>9, <1>10, OnlyCallMoves DEF Idle

LEMMA GiveUpFacts ==
    ASSUME IInv, calm, CalmInv, NEW c \in Calls, GiveUp(c)
    PROVE  /\ phase[store.refresh] # "good" /\ call[c].pair = Nil
           /\ store' = Empty /\ UNCHANGED <<phase, owner>>
           /\ pc[c] = "refreshAnswered" /\ Return(c)
  <1>1. pc[c] = "refreshAnswered" /\ call[c].status # 200 BY DEF GiveUp
  <1>2. CallFits(c) BY <1>1, AloneGood DEF Idle
  <1>3. store' = Empty BY DEF GiveUp, SignOut, Clear, Cleared
  <1> QED
    BY <1>1, <1>2, <1>3 DEF CallFits, RefreshSendsStored, AnswerNamesOwner,
       RefreshPCs, Issuing, GiveUp, server

LEMMA GiveUpCalm ==
    ASSUME IInv, calm, CalmInv, NEW c \in Calls, GiveUp(c)
    PROVE  CalmInv'
  <1>1. TypeOK /\ pc[c] = "refreshAnswered" BY DEF IInv, SessionInv, GiveUp
  <1>2. \A p \in Pairs : phase[p] = "good" => p = store.refresh \/ p = call[c].pair
    BY <1>1, AloneGood DEF Idle
  <1>3. \A p \in Pairs : phase'[p] # "good"
    BY <1>2, GiveUpFacts, BrowserNilAssumption
  <1>4. pc'[c] = Idle /\ \A d \in Calls \ {c} : pc'[d] = pc[d]
    BY <1>1, GiveUpFacts DEF Return, TypeOK
  <1>5. StoreNamesOwner' BY GiveUpFacts, EmptyIsStore DEF StoreNamesOwner
  <1> QED BY <1>1, <1>3, <1>4, <1>5, OnlyCallMoves DEF Idle

(* In a calm session a call begins when no other is under way. *)
LEMMA SendCalm ==
    ASSUME IInv, calm', CalmInv, NEW c \in Calls, NEW kind \in Kinds, NEW t \in Tabs,
           NEW arguments \in Call, Send(c, kind, t, arguments), arguments.pair = Nil,
           kind = "logout" => store.refresh # Nil /\ arguments.body = store.refresh
    PROVE  CalmInv'
  <1>1. /\ TypeOK /\ calm /\ InFlight = {} /\ UNCHANGED <<phase, owner, store>>
        /\ kind = "login" => store.refresh = Nil
    BY EmptyIsStore DEF IInv, SessionInv, Send, server
  <1>2. \A d \in Calls : pc[d] = Idle BY <1>1 DEF InFlight
  <1>3. pc'[c] = "sent" /\ \A d \in Calls \ {c} : pc'[d] = Idle
    BY <1>1, <1>2 DEF Send, TypeOK
  <1>4. /\ call'[c].kind = kind /\ call'[c].pair = Nil
        /\ call'[c].body = arguments.body
    <2> DEFINE x == [arguments EXCEPT !.kind = kind, !.tab = t, !.header = store.access]
    <2>1. x.kind = kind /\ x.pair = Nil /\ x.body = arguments.body BY DEF Call
    <2>2. call'[c] = x BY <1>1 DEF Send, TypeOK
    <2> QED BY <2>1, <2>2
  <1>5. (Alone /\ StoreNamesOwner)'
    BY <1>1, <1>3 DEF Alone, CalmInv, StoreNamesOwner
  <1>6. GoodOnesKept' BY <1>1 DEF GoodOnesKept, CalmInv
  <1>7. CallFits(c)'
    BY <1>1, <1>3, <1>4
    DEF CallFits, LoginMeetsEmptyStore, LogoutEndsStored, RefreshSendsStored,
        AnswerNamesOwner, RefreshPCs
  <1> QED BY <1>3, <1>5, <1>6, <1>7 DEF CalmInv, InFlight

LEMMA TabCalm ==
    ASSUME IInv, calm', CalmInv, NEW t \in Tabs, TabStep(t)
    PROVE  CalmInv'
  <1>1. CASE \E c \in Calls, user \in Users : SubmitLogin(c, t, user)
    <2> PICK c \in Calls, user \in Users : SubmitLogin(c, t, user) BY <1>1
    <2>1. PICK x : x = [NoCall EXCEPT !.user = user] OBVIOUS
    <2>2. x \in Call /\ x.pair = Nil BY <2>1, LoginArguments
    <2>3. Send(c, "login", t, x) BY <2>1 DEF SubmitLogin
    <2> QED BY <2>2, <2>3, SendCalm DEF Kinds
  <1>2. CASE \E c \in Calls, kind \in {"load", "create"} : CallApi(c, t, kind)
    <2>1. NoCall.pair = Nil BY DEF NoCall
    <2> QED BY <1>2, <2>1, SendCalm, NoCallIsCall DEF CallApi, Kinds
  <1>3. CASE \E c \in Calls : Logout(c, t)
    <2> PICK c \in Calls : Logout(c, t) BY <1>3
    <2>1. PICK x : x = [NoCall EXCEPT !.body = store.refresh] OBVIOUS
    <2>2. store.refresh \in Pairs \cup {Nil}
      BY DEF IInv, SessionInv, TypeOK, Store
    <2>3. x \in Call /\ x.body = store.refresh /\ x.pair = Nil
      BY <2>1, <2>2, LogoutArguments
    <2>4. store.refresh # Nil /\ Send(c, "logout", t, x) BY <2>1 DEF Logout
    <2> QED BY <2>3, <2>4, SendCalm DEF Kinds
  <1>4. CASE LogoutLocally(t)
    <2>1. /\ store.refresh = Nil /\ store' = Empty /\ calm
          /\ UNCHANGED <<phase, owner, pc, call>>
      BY <1>4 DEF LogoutLocally, Cleared, server
    <2>2. store'.refresh = store.refresh BY <2>1, EmptyIsStore
    <2>3. ASSUME NEW c \in InFlight PROVE CallFits(c)'
      <3>1. CallFits(c) BY <2>1, <2>3 DEF CalmInv
      <3> QED
        BY <2>1, <2>2, <3>1
        DEF CallFits, LoginMeetsEmptyStore, LogoutEndsStored, RefreshSendsStored,
            AnswerNamesOwner, RefreshPCs, Issuing
    <2> QED
      BY <2>1, <2>2, <2>3
      DEF CalmInv, Alone, GoodOnesKept, StoreNamesOwner, InFlight
  <1>5. CASE Render(t)
    BY <1>5 DEF Render, server, history, CalmInv, Alone, GoodOnesKept,
       StoreNamesOwner, InFlight, CallFits, LoginMeetsEmptyStore, LogoutEndsStored,
       RefreshSendsStored, AnswerNamesOwner, Issuing
  <1> QED BY <1>1, <1>2, <1>3, <1>4, <1>5 DEF TabStep

(* A token that is stored, or in an answer, may end and is not forgotten. *)
LEMMA PairsCalm ==
    ASSUME IInv, CalmInv, NEW p \in Pairs,
           AccessExpires(p) \/ RefreshExpires(p) \/ Recycle(p)
    PROVE  CalmInv'
  <1>1. TypeOK /\ UNCHANGED <<store, pc, call, calm>>
    BY DEF IInv, SessionInv, AccessExpires, RefreshExpires, Recycle, browser, history
  <1>2. \A q \in Pairs : phase'[q] = "good" => phase[q] = "good"
    BY <1>1 DEF AccessExpires, RefreshExpires, Recycle, TypeOK
  <1>3. \A q \in Referred \cap Pairs :
           /\ owner'[q] = owner[q]
           /\ phase[q] # "unborn" => phase'[q] # "unborn"
    BY <1>1 DEF AccessExpires, RefreshExpires, Recycle, TypeOK
  <1>4. /\ store.refresh \in Referred /\ \A c \in Calls : call[c].pair \in Referred
        /\ store.refresh \in Pairs \cup {Nil}
        /\ \A c \in Calls : call[c].pair \in Pairs \cup {Nil}
    BY <1>1 DEF Referred, TypeOK, Store, Call
  <1>5. ASSUME NEW c \in Calls, pc[c] # Idle, CallFits(c) PROVE CallFits(c)'
    <2>1. LoginMeetsEmptyStore(c)' BY <1>1, <1>5 DEF CallFits, LoginMeetsEmptyStore
    <2>2. LogoutEndsStored(c)' /\ RefreshSendsStored(c)'
      BY <1>1, <1>2, <1>4, <1>5 DEF CallFits, LogoutEndsStored, RefreshSendsStored
    <2>3. AnswerNamesOwner(c)'
      BY <1>1, <1>3, <1>4, <1>5 DEF CallFits, AnswerNamesOwner, Issuing
    <2> QED BY <2>1, <2>2, <2>3 DEF CallFits
  <1>6. GoodOnesKept => GoodOnesKept'
    BY <1>1, <1>2 DEF GoodOnesKept, InFlight
  <1>7. StoreNamesOwner => StoreNamesOwner'
    BY <1>1, <1>3, <1>4 DEF StoreNamesOwner
  <1> QED BY <1>1, <1>5, <1>6, <1>7 DEF CalmInv, Alone, InFlight

LEMMA CalmNext == IInv /\ CalmInv /\ [Next]_vars => CalmInv'
  <1> SUFFICES ASSUME IInv, CalmInv, [Next]_vars, calm' PROVE CalmInv'
    BY DEF CalmInv
  <1>1. ASSUME NEW c \in Calls, CallStep(c) \/ ServerFails(c) \/ Lose(c)
        PROVE  CalmInv'
    <2>1. calm
      <3>1. CASE ServeLoad(c) \/ ServeCreate(c) \/ ServeLogin(c)
        BY <3>1 DEF ServeLoad, ServeCreate, ServeLogin, Answer
      <3>2. CASE CheckLogout(c) \/ EndLogout(c)
        BY <3>2 DEF CheckLogout, EndLogout, Answer, history
      <3>3. CASE CheckRefresh(c) \/ RotatePair(c)
        BY <3>3 DEF CheckRefresh, RotatePair, history
      <3>4. CASE StartRefresh(c) \/ Finish(c) \/ Retry(c) \/ GiveUp(c)
        BY <3>4 DEF StartRefresh, Finish, Retry, GiveUp, history
      <3>5. CASE ServerFails(c) \/ Lose(c) BY <3>5 DEF ServerFails, Lose
      <3> QED BY <1>1, <3>1, <3>2, <3>3, <3>4, <3>5 DEF CallStep
    <2>2. ~ServerFails(c) /\ ~Lose(c) BY DEF ServerFails, Lose
    <2> QED
      BY <1>1, <2>1, <2>2, ServeCalm, LoginCalm, LogoutCalm, CheckRefreshCalm, RotateCalm,
         StartRefreshCalm, FinishCalm, RetryCalm, GiveUpCalm DEF CallStep
  <1>2. CASE UNCHANGED vars
    BY <1>2 DEF vars, server, browser, history, CalmInv, Alone, GoodOnesKept,
       StoreNamesOwner, InFlight, CallFits, LoginMeetsEmptyStore, LogoutEndsStored,
       RefreshSendsStored, AnswerNamesOwner, Issuing
  <1> QED BY <1>1, <1>2, TabCalm, PairsCalm DEF Next

LEMMA CalmInvariant == Spec => []CalmInv
  <1>1. Init => CalmInv
    <2> SUFFICES ASSUME Init PROVE CalmInv
      OBVIOUS
    <2>1. store.refresh = Nil BY EmptyIsStore DEF Init
    <2>2. \A c \in Calls : pc[c] = Idle BY DEF Init
    <2>3. ASSUME NEW p \in Pairs PROVE phase[p] # "good"
      <3>1. phase = [t \in Pairs |-> "unborn"] BY DEF Init, LInit, Pairs
      <3> QED BY <3>1
    <2> QED
      BY <2>1, <2>2, <2>3 DEF CalmInv, Alone, GoodOnesKept, StoreNamesOwner, InFlight
  <1> QED BY <1>1, CalmNext, SessionInvariant, PTL DEF Spec

(* Calls made one at a time leave no good token but the stored one, and    *)
(* the name shown is that of its account, through refreshes, sign-ins and  *)
(* sign-outs of any number of tabs.                                        *)
THEOREM NoneIsOrphaned == Spec => []NoOrphans
  <1>1. CalmInv => NoOrphans
    BY DEF CalmInv, GoodOnesKept, StoreNamesOwner, NoOrphans
  <1> QED BY <1>1, CalmInvariant, PTL

(* A step of the call at hand that empties the store: the end of a logout, *)
(* or a refresh whose token was no longer good.                            *)
LEMMA OnlyEndsEmpty ==
    ASSUME IInv, CalmInv, Next, calm', store.refresh # Nil, store'.refresh = Nil
    PROVE  \/ phase[store.refresh] # "good"
           \/ \E c \in Calls : call[c].kind = "logout" /\ pc[c] = "answered"
  <1>1. ASSUME NEW c \in Calls, CallStep(c) \/ ServerFails(c) \/ Lose(c)
        PROVE  \/ phase[store.refresh] # "good"
               \/ call[c].kind = "logout" /\ pc[c] = "answered"
    <2>1. CASE Finish(c)
      <3>1. CASE call[c].kind = "logout" BY <2>1, <3>1 DEF Finish
      <3>2. CASE call[c].kind = "login" /\ call[c].status = 200 /\ SignIn(c)
        <4>1. call[c].pair \in Pairs
          BY <2>1, <3>2 DEF Finish, IInv, AnswersCarryPairs, Issuing
        <4>2. store'.refresh = call[c].pair
          <5>1. TypeOK /\ call[c].user \in Users \cup {Nil}
            BY DEF IInv, SessionInv, TypeOK, Call
          <5> QED BY <3>2, <4>1, <5>1, SetIsStore DEF SignIn
        <4> QED BY <4>1, <4>2, BrowserNilAssumption
      <3> QED BY <2>1, <3>1, <3>2 DEF Finish
    <2>2. CASE Retry(c)
      <3>1. call[c].pair \in Pairs BY <2>2 DEF Retry, IInv, AnswersCarryPairs, Issuing
      <3>2. store'.refresh = call[c].pair
        BY <2>2, <3>1, SetIsStore DEF Retry, IInv, SessionInv, TypeOK, Store
      <3> QED BY <3>1, <3>2, BrowserNilAssumption
    <2>3. CASE GiveUp(c)
      <3>1. calm BY <2>3 DEF GiveUp
      <3> QED BY <2>3, <3>1, GiveUpFacts
    <2>4. CASE ServeLoad(c) \/ ServeCreate(c) \/ ServeLogin(c) \/ EndLogout(c)
      BY <2>4 DEF ServeLoad, ServeCreate, ServeLogin, EndLogout, Answer
    <2>5. CASE CheckLogout(c) \/ CheckRefresh(c) \/ RotatePair(c) \/ StartRefresh(c)
      BY <2>5 DEF CheckLogout, CheckRefresh, RotatePair, StartRefresh, Answer
    <2>6. CASE ServerFails(c) \/ Lose(c) BY <2>6 DEF ServerFails, Lose
    <2> QED BY <1>1, <2>1, <2>2, <2>3, <2>4, <2>5, <2>6 DEF CallStep
  <1>2. ASSUME NEW t \in Tabs, TabStep(t) PROVE FALSE
    <2>1. CASE LogoutLocally(t) BY <2>1 DEF LogoutLocally
    <2>2. CASE Render(t) BY <2>2 DEF Render
    <2>3. ASSUME NEW c, NEW kind, NEW arguments, Send(c, kind, t, arguments)
          PROVE  FALSE
      BY <2>3 DEF Send
    <2> QED BY <1>2, <2>1, <2>2, <2>3 DEF TabStep, SubmitLogin, CallApi, Logout
  <1>3. ASSUME NEW p \in Pairs, AccessExpires(p) \/ RefreshExpires(p) \/ Recycle(p)
        PROVE  FALSE
    BY <1>3 DEF AccessExpires, RefreshExpires, Recycle, browser
  <1> QED BY <1>1, <1>2, <1>3 DEF Next

(* The automatic refresh of a call never costs a good session, as long as  *)
(* calls do not overlap and none fails.                                    *)
THEOREM RefreshesKeepSession == Spec => RefreshKeepsSession
  <1>1. IInv /\ CalmInv /\ [Next]_vars =>
            [(calm' /\ store.refresh # Nil /\ store'.refresh = Nil) =>
                \/ phase[store.refresh] # "good"
                \/ \E c \in Calls : call[c].kind = "logout" /\ pc[c] = "answered"]_vars
    BY OnlyEndsEmpty
  <1> QED BY <1>1, SessionInvariant, CalmInvariant, PTL DEF Spec, RefreshKeepsSession

-----------------------------------------------------------------------------
(* What the browser makes of the server's promise *)

(* Issued pairs, and null. *)
Known == {p \in Pairs : phase[p] # "unborn"} \cup {Nil}

Refs(x) == {x.header, x.body, x.sent, x.pair}

(* Whatever the store and the calls hold has been issued. *)
RefersKnown ==
    /\ {store.access, store.refresh} \subseteq Known
    /\ \A c \in Calls : Refs(call[c]) \subseteq Known

LogoutsPresent == \A c \in Calls : call[c].kind = "logout" => call[c].body \in Pairs

(* The server remembers a token for the calls that are about to use it. *)
Holds(c, p) ==
    \/ pc[c] = "checked" /\ call[c].kind = "logout" /\ call[c].body = p
    \/ pc[c] = "refreshChecked" /\ call[c].sent = p

ClaimsHeld == \A p \in Pairs, c \in Calls : c \in claims[p] => Holds(c, p)

UseInv == RefersKnown /\ LogoutsPresent /\ ClaimsHeld

(* A pair that has ended and that no request claims is taken for a new one. *)
Forget(p) ==
    /\ phase[p] = "ended" /\ claims[p] = {}
    /\ phase' = [phase EXCEPT ![p] = "unborn"]
    /\ UNCHANGED claims

UsesLineage == LInit /\ [][LNext \/ \E p \in Pairs : Forget(p)]_lvars

LEMMA DropEnds ==
    ASSUME TypeOK, NEW c \in Calls, Drop(c),
           \/ UNCHANGED phase
           \/ \E p \in Pairs : /\ phase[p] # "unborn"
                               /\ phase' = [phase EXCEPT ![p] = "ended"]
    PROVE  End
  <1>1. claims' \in [Tokens -> SUBSET Requests] BY DropKeeps DEF Pairs, Calls
  <1>2. \A t \in Tokens : claims'[t] \subseteq claims[t] BY DEF Drop, Pairs, TypeOK
  <1>3. /\ phase' \in [Tokens -> Phases]
        /\ \A t \in Tokens : \/ phase'[t] = phase[t]
                             \/ phase[t] = "good" /\ phase'[t] = "ended"
    BY DEF Pairs, TypeOK, Phases
  <1> QED BY <1>1, <1>2, <1>3 DEF End

(* Every answer of the server is a step that TokenLineage allows. *)
LEMMA CallUses ==
    ASSUME IInv, UseInv, NEW c \in Calls, CallStep(c) \/ ServerFails(c) \/ Lose(c)
    PROVE  LNext \/ UNCHANGED lvars
  <1>1. TypeOK /\ call[c] \in Call BY DEF IInv, SessionInv, TypeOK
  <1>2. Pairs = Tokens /\ Calls = Requests BY DEF Pairs, Calls
  <1>3. CASE UNCHANGED server BY <1>3 DEF server, lvars
  <1>4. CASE ServeLogin(c)
    <2>1. CASE \E p \in Unborn : Issue(p) BY <1>2, <2>1 DEF Unborn, LNext
    <2> QED BY <1>3, <1>4, <2>1 DEF ServeLogin
  <1>5. CASE CheckLogout(c)
    <2>1. CASE Claim(call[c].body, c)
      <3>1. call[c].body \in Pairs BY <1>5 DEF CheckLogout, UseInv, LogoutsPresent
      <3> QED BY <1>2, <2>1, <3>1 DEF LNext
    <2> QED BY <1>3, <1>5, <2>1 DEF CheckLogout
  <1>6. CASE EndLogout(c)
    <2>1. call[c].body \in Pairs BY <1>6 DEF EndLogout, UseInv, LogoutsPresent
    <2>2. phase[call[c].body] # "unborn"
      <3>1. call[c].body \in Known BY DEF UseInv, RefersKnown, Refs
      <3> QED BY <2>1, <3>1, BrowserNilAssumption DEF Known
    <2>3. Drop(c) /\ \E p \in Pairs : /\ phase[p] # "unborn"
                                      /\ phase' = [phase EXCEPT ![p] = "ended"]
      BY <1>6, <2>1, <2>2 DEF EndLogout
    <2>4. End BY <1>1, <2>3, DropEnds
    <2> QED BY <2>4 DEF LNext
  <1>7. CASE CheckRefresh(c)
    <2>1. call[c].sent \in Pairs
      BY <1>7 DEF CheckRefresh, IInv, SessionInv, RefreshesPresent, RefreshPCs
    <2>2. CASE Claim(call[c].sent, c) BY <1>2, <2>1, <2>2 DEF LNext
    <2>3. CASE UNCHANGED <<phase, claims>> BY <2>3 DEF lvars
    <2> QED BY <1>7, <2>2, <2>3 DEF CheckRefresh
  <1>8. CASE RotatePair(c)
    <2>1. call[c].sent \in Pairs
      BY <1>8 DEF RotatePair, IInv, SessionInv, RefreshesPresent, RefreshPCs
    <2> QED BY <1>2, <1>8, <2>1 DEF RotatePair, Unborn, LNext
  <1>9. CASE ServerFails(c) \/ Lose(c)
    BY <1>1, <1>9, DropEnds DEF ServerFails, Lose, LNext
  <1> QED
    BY <1>3, <1>4, <1>5, <1>6, <1>7, <1>8, <1>9
    DEF CallStep, ServeLoad, ServeCreate, StartRefresh, Finish, Retry, GiveUp

LEMMA PairsUse ==
    ASSUME IInv, UseInv, NEW p \in Pairs,
           AccessExpires(p) \/ RefreshExpires(p) \/ Recycle(p)
    PROVE  LNext \/ Forget(p) \/ UNCHANGED lvars
  <1>1. TypeOK BY DEF IInv, SessionInv
  <1>2. CASE AccessExpires(p) BY <1>2 DEF AccessExpires, lvars
  <1>3. CASE RefreshExpires(p)
    <2>1. End BY <1>1, <1>3 DEF RefreshExpires, End, TypeOK, Pairs, Calls, Phases
    <2> QED BY <2>1 DEF LNext
  <1>4. CASE Recycle(p)
    <2>1. \A c \in Calls : call[c].body # p /\ call[c].sent # p
      BY <1>4 DEF Recycle, Referred
    <2>2. claims[p] = {}
      BY <1>1, <2>1 DEF UseInv, ClaimsHeld, Holds, TypeOK
    <2> QED BY <1>4, <2>2 DEF Recycle, Forget
  <1> QED BY <1>2, <1>3, <1>4

LEMMA NextUses ==
    ASSUME IInv, UseInv, [Next]_vars
    PROVE  [LNext \/ \E p \in Pairs : Forget(p)]_lvars
  <1>1. ASSUME NEW t \in Tabs, TabStep(t) PROVE UNCHANGED lvars
    BY <1>1 DEF TabStep, SubmitLogin, CallApi, Logout, LogoutLocally, Render, Send,
       server, lvars
  <1>2. CASE UNCHANGED vars BY <1>2 DEF vars, server, lvars
  <1> QED BY <1>1, <1>2, CallUses, PairsUse DEF Next

(* An issued token stays issued. *)
LEMMA IssuedStay ==
    ASSUME TypeOK, [LNext]_lvars
    PROVE  Known \subseteq Known'
  <1>1. \A p \in Pairs : phase[p] # "unborn" => phase'[p] # "unborn"
    <2>1. CASE \E t \in Tokens : Issue(t) BY <2>1 DEF Issue, TypeOK, Pairs
    <2>2. CASE \E t \in Tokens, r \in Requests : Claim(t, r) BY <2>2 DEF Claim
    <2>3. CASE \E t, child \in Tokens, r \in Requests : Rotate(t, r, child)
      BY <2>3 DEF Rotate, TypeOK, Pairs
    <2>4. CASE End BY <2>4 DEF End, Pairs
    <2>5. CASE UNCHANGED lvars BY <2>5 DEF lvars
    <2> QED BY <2>1, <2>2, <2>3, <2>4, <2>5 DEF LNext
  <1> QED BY <1>1 DEF Known

(* A call ends or goes on with its arguments and with tokens it knew. *)
Follows(x, y) ==
    \/ x = NoCall
    \/ /\ x.kind = y.kind /\ x.body = y.body
       /\ Refs(x) \subseteq Refs(y) \cup {Nil, store.refresh} \cup Known'

LEMMA NoCallHoldsNil == Refs(NoCall) = {Nil} /\ NoCall.kind = "load"
  BY DEF Refs, NoCall

LEMMA StatusFollows ==
    ASSUME NEW y \in Call, NEW s
    PROVE  LET x == [y EXCEPT !.status = s] IN
           /\ x.kind = y.kind /\ x.body = y.body /\ x.sent = y.sent
           /\ Refs(x) = Refs(y)
  BY DEF Call, Refs

LEMMA CallFollows ==
    ASSUME IInv, NEW c \in Calls, CallStep(c) \/ ServerFails(c) \/ Lose(c)
    PROVE  /\ Follows(call'[c], call[c])
           /\ \A d \in Calls \ {c} : pc'[d] = pc[d] /\ call'[d] = call[d]
           /\ {store'.access, store'.refresh} \subseteq
                  {store.access, store.refresh, Nil, call[c].pair}
  <1>1. TypeOK /\ call[c] \in Call BY DEF IInv, SessionInv, TypeOK
  <1>2. \A s : Follows(WithStatus(c, s), call[c])
    BY <1>1, StatusFollows DEF WithStatus, Follows
  <1>3. ASSUME NEW x, Answer(c, x), Follows(x, call[c])
        PROVE  /\ Follows(call'[c], call[c]) /\ store' = store
               /\ \A d \in Calls \ {c} : pc'[d] = pc[d] /\ call'[d] = call[d]
    BY <1>1, <1>3 DEF Answer, TypeOK
  <1>4. ASSUME NEW p \in Pairs, phase'[p] # "unborn"
        PROVE  Follows([WithStatus(c, 200) EXCEPT !.pair = p], call[c])
    <2>1. PICK x : x = WithStatus(c, 200) OBVIOUS
    <2>2. x \in Call BY <1>1, <2>1 DEF WithStatus, Call
    <2>3. /\ Refs(x) = Refs(call[c])
          /\ x.kind = call[c].kind /\ x.body = call[c].body
      BY <1>1, <2>1, StatusFollows DEF WithStatus
    <2>4. PICK y : y = [x EXCEPT !.pair = p] OBVIOUS
    <2>5. /\ y.kind = x.kind /\ y.body = x.body
          /\ Refs(y) \subseteq Refs(x) \cup {p}
      BY <2>2, <2>4 DEF Call, Refs
    <2>6. p \in Known' BY <1>4 DEF Known
    <2>7. Follows(y, call[c]) BY <2>3, <2>5, <2>6 DEF Follows
    <2> QED BY <2>1, <2>4, <2>7
  <1>5. CASE ServeLoad(c) BY <1>2, <1>3, <1>5 DEF ServeLoad
  <1>6. CASE ServeCreate(c)
    <2>1. PICK x : x = WithStatus(c, 200) OBVIOUS
    <2>2. x \in Call BY <1>1, <2>1 DEF WithStatus, Call
    <2>3. /\ Refs(x) = Refs(call[c])
          /\ x.kind = call[c].kind /\ x.body = call[c].body
      BY <1>1, <2>1, StatusFollows DEF WithStatus
    <2>4. PICK y : y = [x EXCEPT !.creator = Creator(call[c].header)] OBVIOUS
    <2>5. y.kind = x.kind /\ y.body = x.body /\ Refs(y) = Refs(x)
      BY <2>2, <2>4 DEF Call, Refs
    <2>6. Answer(c, y) /\ UNCHANGED server BY <1>6, <2>1, <2>4 DEF ServeCreate
    <2>7. Follows(y, call[c]) BY <2>3, <2>5 DEF Follows
    <2> QED BY <1>3, <2>6, <2>7
  <1>7. CASE ServeLogin(c)
    <2>1. ASSUME NEW p \in Unborn, Issue(p)
          PROVE  p \in Pairs /\ phase'[p] # "unborn"
      BY <1>1, <2>1 DEF Unborn, Issue, TypeOK
    <2>2. CASE Answer(c, WithStatus(c, 401)) BY <1>2, <1>3, <2>2
    <2>3. CASE Answer(c, WithStatus(c, 500)) BY <1>2, <1>3, <2>3
    <2>4. ASSUME NEW p \in Unborn, Issue(p),
                 Answer(c, [WithStatus(c, 200) EXCEPT !.pair = p])
          PROVE  /\ Follows(call'[c], call[c]) /\ store' = store
                 /\ \A d \in Calls \ {c} : pc'[d] = pc[d] /\ call'[d] = call[d]
      <3>1. Follows([WithStatus(c, 200) EXCEPT !.pair = p], call[c])
        BY <1>4, <2>1, <2>4
      <3> QED BY <1>3, <2>4, <3>1
    <2> QED BY <1>7, <2>2, <2>3, <2>4 DEF ServeLogin
  <1>8. CASE CheckLogout(c)
    <2>1. CASE Answer(c, WithStatus(c, 401)) BY <1>2, <1>3, <2>1
    <2>2. CASE UNCHANGED <<owner, fresh, store, view, call, history>>
                 /\ pc' = [pc EXCEPT ![c] = "checked"]
      BY <1>1, <2>2 DEF Follows, TypeOK
    <2> QED BY <1>8, <2>1, <2>2 DEF CheckLogout
  <1>9. CASE EndLogout(c) BY <1>2, <1>3, <1>9 DEF EndLogout
  <1>10. ASSUME UNCHANGED store,
                call' = [call EXCEPT ![c] = call'[c]], pc' = [pc EXCEPT ![c] = pc'[c]],
                Follows(call'[c], call[c])
         PROVE  /\ Follows(call'[c], call[c])
                /\ \A d \in Calls \ {c} : pc'[d] = pc[d] /\ call'[d] = call[d]
                /\ {store'.access, store'.refresh} \subseteq
                       {store.access, store.refresh, Nil, call[c].pair}
    BY <1>1, <1>10 DEF TypeOK
  <1>11. CASE CheckRefresh(c)
    <2>1. call'[c] = call[c] \/ call'[c] = WithStatus(c, 401)
      BY <1>1, <1>11 DEF CheckRefresh, WithStatus, TypeOK
    <2>2. Follows(call'[c], call[c]) BY <1>2, <2>1 DEF Follows
    <2> QED BY <1>1, <1>11, <2>2 DEF CheckRefresh, TypeOK
  <1>12. CASE RotatePair(c)
    <2>1. PICK p \in Unborn :
            /\ Rotate(call[c].sent, c, p)
            /\ \/ call' = [call EXCEPT ![c].status = 200, ![c].pair = p]
               \/ call' = [call EXCEPT ![c].status = 500]
      BY <1>12 DEF RotatePair
    <2>2. p \in Pairs /\ phase'[p] # "unborn"
      BY <1>1, <2>1 DEF Unborn, Rotate, TypeOK
    <2>3. CASE call' = [call EXCEPT ![c].status = 500]
      <3>1. call'[c] = WithStatus(c, 500) BY <1>1, <2>3 DEF TypeOK, WithStatus
      <3> QED BY <1>1, <1>2, <1>12, <2>3, <3>1 DEF RotatePair, TypeOK
    <2>4. CASE call' = [call EXCEPT ![c].status = 200, ![c].pair = p]
      <3>1. call'[c] = [WithStatus(c, 200) EXCEPT !.pair = p]
        BY <1>1, <2>4 DEF TypeOK, WithStatus
      <3>2. Follows(call'[c], call[c]) BY <1>4, <2>2, <3>1
      <3> QED BY <1>1, <1>12, <2>4, <3>2 DEF RotatePair, TypeOK
    <2> QED BY <2>1, <2>3, <2>4
  <1>13. CASE StartRefresh(c)
    <2>1. PICK y : y = [call[c] EXCEPT !.sent = store.refresh] OBVIOUS
    <2>2. /\ y.kind = call[c].kind /\ y.body = call[c].body
          /\ Refs(y) \subseteq Refs(call[c]) \cup {store.refresh}
      BY <1>1, <2>1 DEF Call, Refs
    <2>3. call' = [call EXCEPT ![c] = y] BY <1>1, <1>13, <2>1 DEF StartRefresh, TypeOK
    <2>4. call'[c] = y BY <1>1, <2>3 DEF TypeOK
    <2>5. Follows(call'[c], call[c]) BY <2>2, <2>4 DEF Follows
    <2> QED BY <1>1, <1>13, <2>3, <2>5 DEF StartRefresh, TypeOK
  <1>14. CASE Retry(c)
    <2>1. call[c].pair \in Pairs BY <1>14 DEF Retry, IInv, AnswersCarryPairs, Issuing
    <2>2. {store'.access, store'.refresh} \subseteq {call[c].pair}
      BY <1>1, <1>14, <2>1, SetIsStore DEF Retry, TypeOK, Store
    <2>3. call'[c] = [call[c] EXCEPT !.header = call[c].pair, !.refreshed = TRUE,
                                     !.status = 0, !.sent = Nil, !.pair = Nil]
      BY <1>1, <1>14 DEF Retry, TypeOK
    <2>4. PICK y : y = call'[c] OBVIOUS
    <2>5. PICK x : x = [call[c] EXCEPT !.header = call[c].pair, !.refreshed = TRUE,
                                       !.status = 0]
      OBVIOUS
    <2>6. /\ x.header = call[c].pair /\ x.kind = call[c].kind /\ x.body = call[c].body
          /\ DOMAIN x = DOMAIN call[c]
      BY <1>1, <2>5 DEF Call
    <2>7. DOMAIN call[c] = DOMAIN NoCall BY <1>1 DEF Call, NoCall
    <2>8. y = [x EXCEPT !.sent = Nil, !.pair = Nil] BY <2>3, <2>4, <2>5
    <2>9. /\ y.header = x.header /\ y.kind = x.kind /\ y.body = x.body
          /\ y.sent = Nil /\ y.pair = Nil
      BY <2>6, <2>7, <2>8 DEF NoCall
    <2>10. Follows(call'[c], call[c]) BY <2>4, <2>6, <2>9 DEF Follows, Refs
    <2> QED BY <1>1, <1>14, <2>2, <2>10 DEF Retry, TypeOK
  <1>15. ASSUME Return(c)
         PROVE  /\ Follows(call'[c], call[c])
                /\ \A d \in Calls \ {c} : pc'[d] = pc[d] /\ call'[d] = call[d]
    BY <1>1, <1>15 DEF Return, Follows, TypeOK
  <1>16. CASE Finish(c)
    <2>1. CASE call[c].kind = "login" /\ call[c].status = 200 /\ SignIn(c)
      <3>1. call[c].pair \in Pairs /\ call[c].user \in Users \cup {Nil}
        BY <1>1, <1>16, <2>1 DEF Finish, IInv, AnswersCarryPairs, Issuing, Call
      <3>2. {store'.access, store'.refresh} \subseteq {call[c].pair}
        BY <1>1, <2>1, <3>1, SetIsStore DEF SignIn
      <3> QED BY <1>15, <1>16, <3>2 DEF Finish
    <2>2. CASE SignOut(c)
      BY <1>15, <1>16, <2>2, EmptyIsStore DEF Finish, SignOut, Clear, Cleared
    <2>3. CASE UNCHANGED <<store, view>> BY <1>15, <1>16, <2>3 DEF Finish
    <2> QED BY <1>16, <2>1, <2>2, <2>3 DEF Finish
  <1>17. CASE GiveUp(c)
    BY <1>15, <1>17, EmptyIsStore DEF GiveUp, SignOut, Clear, Cleared
  <1>18. CASE Lose(c) BY <1>15, <1>18 DEF Lose
  <1>19. CASE ServerFails(c)
    <2>1. call'[c] = WithStatus(c, 500)
      BY <1>1, <1>19 DEF ServerFails, WithStatus, TypeOK
    <2> QED BY <1>1, <1>2, <1>19, <2>1 DEF ServerFails, TypeOK
  <1> QED
    BY <1>3, <1>5, <1>6, <1>7, <1>8, <1>9, <1>11, <1>12, <1>13, <1>14, <1>16, <1>17,
       <1>18, <1>19 DEF CallStep

LEMMA CallKeepsRefs ==
    ASSUME IInv, UseInv, NEW c \in Calls, CallStep(c) \/ ServerFails(c) \/ Lose(c)
    PROVE  (RefersKnown /\ LogoutsPresent)'
  <1>1. TypeOK BY DEF IInv, SessionInv
  <1>2. [LNext]_lvars BY CallUses
  <1>3. Known \subseteq Known' BY <1>1, <1>2, IssuedStay
  <1>4. /\ Follows(call'[c], call[c])
        /\ \A d \in Calls \ {c} : call'[d] = call[d]
        /\ {store'.access, store'.refresh} \subseteq
               {store.access, store.refresh, Nil, call[c].pair}
    BY CallFollows
  <1>5. Nil \in Known /\ Nil \in Known' BY DEF Known
  <1>6. \A d \in Calls : Refs(call[d]) \subseteq Known
    BY DEF UseInv, RefersKnown
  <1>7. store.access \in Known /\ store.refresh \in Known /\ call[c].pair \in Known
    BY <1>6 DEF UseInv, RefersKnown, Refs
  <1>8. {store'.access, store'.refresh} \subseteq Known' BY <1>3, <1>4, <1>5, <1>7
  <1>9. Refs(call'[c]) \subseteq Known'
    BY <1>3, <1>4, <1>5, <1>6, <1>7, NoCallHoldsNil DEF Follows
  <1>10. RefersKnown' BY <1>3, <1>4, <1>6, <1>8, <1>9 DEF RefersKnown
  <1>11. LogoutsPresent'
    BY <1>4, NoCallHoldsNil DEF Follows, UseInv, LogoutsPresent
  <1> QED BY <1>10, <1>11

LEMMA CallKeepsClaims ==
    ASSUME IInv, UseInv, NEW c \in Calls, CallStep(c) \/ ServerFails(c) \/ Lose(c)
    PROVE  ClaimsHeld'
  <1>1. TypeOK /\ call[c] \in Call BY DEF IInv, SessionInv, TypeOK
  <1>2. SUFFICES \A p \in Pairs :
                    /\ c \in claims'[p] => Holds(c, p)'
                    /\ claims'[p] \ {c} \subseteq claims[p]
    <2>1. ASSUME NEW p \in Pairs, NEW d \in Calls \ {c}, d \in claims'[p]
          PROVE  Holds(d, p)'
      <3>1. Holds(d, p) BY <1>2, <2>1 DEF UseInv, ClaimsHeld
      <3>2. pc'[d] = pc[d] /\ call'[d] = call[d] BY CallFollows
      <3> QED BY <3>1, <3>2 DEF Holds
    <2> QED BY <1>2, <2>1 DEF ClaimsHeld
  <1>3. ASSUME Drop(c)
        PROVE  \A p \in Pairs : c \notin claims'[p] /\ claims'[p] \ {c} \subseteq claims[p]
    BY <1>1, <1>3 DEF Drop, TypeOK
  (* A call that is at neither check claims nothing. *)
  <1>4. ASSUME UNCHANGED claims, pc[c] \notin {"checked", "refreshChecked"}
        PROVE  \A p \in Pairs : c \notin claims'[p] /\ claims'[p] \ {c} \subseteq claims[p]
    BY <1>4 DEF UseInv, ClaimsHeld, Holds
  <1>5. CASE ServeLogin(c) BY <1>4, <1>5 DEF ServeLogin, Issue, server
  <1>6. CASE CheckLogout(c)
    <2>1. CASE /\ Claim(call[c].body, c)
               /\ pc' = [pc EXCEPT ![c] = "checked"]
               /\ UNCHANGED call
      <3>1. \A p \in Pairs : c \notin claims[p]
        BY <1>6 DEF CheckLogout, UseInv, ClaimsHeld, Holds
      <3>2. pc'[c] = "checked" /\ call'[c].kind = "logout" /\ call'[c].body = call[c].body
        BY <1>1, <1>6, <2>1 DEF CheckLogout, TypeOK
      <3>3. \A p \in Pairs : claims'[p] \subseteq claims[p] \cup {c}
                             /\ (p # call[c].body => claims'[p] = claims[p])
        BY <1>1, <2>1 DEF Claim, TypeOK
      <3> QED BY <3>1, <3>2, <3>3 DEF Holds
    <2>2. CASE UNCHANGED server BY <1>4, <1>6, <2>2 DEF CheckLogout, server
    <2> QED BY <1>6, <2>1, <2>2 DEF CheckLogout
  <1>7. CASE CheckRefresh(c)
    <2>1. CASE /\ Claim(call[c].sent, c)
               /\ pc' = [pc EXCEPT ![c] = "refreshChecked"]
               /\ UNCHANGED call
      <3>1. \A p \in Pairs : c \notin claims[p]
        BY <1>7 DEF CheckRefresh, UseInv, ClaimsHeld, Holds
      <3>2. pc'[c] = "refreshChecked" /\ call'[c].sent = call[c].sent
        BY <1>1, <2>1 DEF TypeOK
      <3>3. \A p \in Pairs : claims'[p] \subseteq claims[p] \cup {c}
                             /\ (p # call[c].sent => claims'[p] = claims[p])
        BY <1>1, <2>1 DEF Claim, TypeOK
      <3> QED BY <3>1, <3>2, <3>3 DEF Holds
    <2>2. CASE UNCHANGED <<phase, claims>> BY <1>4, <1>7, <2>2 DEF CheckRefresh
    <2> QED BY <1>7, <2>1, <2>2 DEF CheckRefresh
  <1>8. CASE RotatePair(c)
    <2>1. claims' = [claims EXCEPT ![call[c].sent] = @ \ {c}]
      BY <1>8 DEF RotatePair, Rotate
    <2>2. \A p \in Pairs : claims'[p] \subseteq claims[p]
                           /\ (p = call[c].sent => c \notin claims'[p])
      BY <1>1, <2>1 DEF TypeOK
    <2>3. \A p \in Pairs : c \in claims[p] => p = call[c].sent
      BY <1>8 DEF RotatePair, UseInv, ClaimsHeld, Holds
    <2> QED BY <2>2, <2>3
  <1>9. CASE EndLogout(c) \/ ServerFails(c) \/ Lose(c)
    BY <1>3, <1>9 DEF EndLogout, ServerFails, Lose
  <1> QED
    BY <1>4, <1>5, <1>6, <1>7, <1>8, <1>9
    DEF CallStep, ServeLoad, ServeCreate, StartRefresh, Finish, Retry, GiveUp, server

LEMMA SendKeepsUse ==
    ASSUME IInv, UseInv, NEW c \in Calls, NEW kind, NEW t, NEW x \in Call,
           Send(c, kind, t, x), x.body \in Known, x.sent = Nil, x.pair = Nil,
           kind = "logout" => x.body \in Pairs
    PROVE  UseInv'
  <1>1. TypeOK BY DEF IInv, SessionInv
  <1>2. PICK y : y = [x EXCEPT !.kind = kind, !.tab = t, !.header = store.access] OBVIOUS
  <1>3. /\ y.kind = kind /\ y.header = store.access
        /\ y.body = x.body /\ y.sent = Nil /\ y.pair = Nil
    BY <1>2 DEF Call
  <1>4. call' = [call EXCEPT ![c] = y] BY <1>2 DEF Send
  <1>5. /\ pc[c] = Idle /\ pc'[c] = "sent" /\ UNCHANGED <<phase, claims, store>>
        /\ \A d \in Calls \ {c} : pc'[d] = pc[d] /\ call'[d] = call[d]
        /\ call'[c] = y
    BY <1>1, <1>4 DEF Send, TypeOK, server
  <1>6. Known' = Known /\ Nil \in Known BY <1>5 DEF Known
  <1>7. Refs(y) \subseteq Known BY <1>3, <1>6 DEF Refs, UseInv, RefersKnown
  <1>8. RefersKnown' BY <1>5, <1>6, <1>7 DEF UseInv, RefersKnown
  <1>9. LogoutsPresent' BY <1>3, <1>5 DEF UseInv, LogoutsPresent
  <1>10. ClaimsHeld'
    <2>1. \A p \in Pairs : c \notin claims[p]
      BY <1>5 DEF UseInv, ClaimsHeld, Holds, Idle
    <2> QED BY <1>5, <2>1 DEF UseInv, ClaimsHeld, Holds
  <1> QED BY <1>8, <1>9, <1>10 DEF UseInv

LEMMA TabKeepsUse ==
    ASSUME IInv, UseInv, NEW t \in Tabs, TabStep(t)
    PROVE  UseInv'
  <1>1. CASE \E c \in Calls, user \in Users : SubmitLogin(c, t, user)
    <2> PICK c \in Calls, user \in Users : SubmitLogin(c, t, user) BY <1>1
    <2>1. PICK x : x = [NoCall EXCEPT !.user = user] OBVIOUS
    <2>2. x \in Call /\ x.body = Nil /\ x.sent = Nil /\ x.pair = Nil
      BY <2>1, LoginArguments
    <2> QED BY <2>1, <2>2, SendKeepsUse DEF SubmitLogin, Known
  <1>2. CASE \E c \in Calls, kind \in {"load", "create"} : CallApi(c, t, kind)
    <2>1. NoCall.body = Nil /\ NoCall.sent = Nil /\ NoCall.pair = Nil BY DEF NoCall
    <2> QED BY <1>2, <2>1, NoCallIsCall, SendKeepsUse DEF CallApi, Known
  <1>3. CASE \E c \in Calls : Logout(c, t)
    <2> PICK c \in Calls : Logout(c, t) BY <1>3
    <2>1. PICK x : x = [NoCall EXCEPT !.body = store.refresh] OBVIOUS
    <2>2. store.refresh \in Pairs /\ store.refresh \in Known
      BY DEF Logout, IInv, SessionInv, TypeOK, Store, UseInv, RefersKnown
    <2>3. x \in Call /\ x.body = store.refresh /\ x.sent = Nil /\ x.pair = Nil
      BY <2>1, <2>2, LogoutArguments
    <2> QED BY <2>1, <2>2, <2>3, SendKeepsUse DEF Logout
  <1>4. CASE LogoutLocally(t)
    BY <1>4, EmptyIsStore
    DEF LogoutLocally, server, Cleared, UseInv, RefersKnown, LogoutsPresent, ClaimsHeld,
        Holds, Known
  <1>5. CASE Render(t)
    BY <1>5
    DEF Render, server, UseInv, RefersKnown, LogoutsPresent, ClaimsHeld, Holds, Known
  <1> QED BY <1>1, <1>2, <1>3, <1>4, <1>5 DEF TabStep

LEMMA PairsKeepUse ==
    ASSUME IInv, UseInv, NEW p \in Pairs,
           AccessExpires(p) \/ RefreshExpires(p) \/ Recycle(p)
    PROVE  UseInv'
  <1>1. TypeOK /\ UNCHANGED <<claims, store, pc, call>>
    BY DEF IInv, SessionInv, AccessExpires, RefreshExpires, Recycle, browser
  <1>2. (LogoutsPresent /\ ClaimsHeld)' BY <1>1 DEF UseInv, LogoutsPresent, ClaimsHeld, Holds
  <1>3. Known \cap Referred \subseteq Known'
    BY <1>1 DEF AccessExpires, RefreshExpires, Recycle, Known, TypeOK
  <1>4. /\ {store.access, store.refresh} \subseteq Referred
        /\ \A c \in Calls : Refs(call[c]) \subseteq Referred
    BY DEF Referred, Refs
  <1>5. RefersKnown' BY <1>1, <1>3, <1>4 DEF UseInv, RefersKnown
  <1> QED BY <1>2, <1>5 DEF UseInv

LEMMA UseInvariant == Spec => []UseInv
  <1>1. Init => UseInv
    <2> SUFFICES ASSUME Init PROVE UseInv
      OBVIOUS
    <2>1. RefersKnown /\ LogoutsPresent
      BY EmptyIsStore, NoCallHoldsNil DEF Init, RefersKnown, LogoutsPresent, Known
    <2>2. ClaimsHeld BY DEF Init, LInit, Pairs, ClaimsHeld
    <2> QED BY <2>1, <2>2 DEF UseInv
  <1>2. IInv /\ UseInv /\ [Next]_vars => UseInv'
    <2> SUFFICES ASSUME IInv, UseInv, [Next]_vars PROVE UseInv'
      OBVIOUS
    <2>1. CASE UNCHANGED vars
      BY <2>1 DEF vars, server, browser, UseInv, RefersKnown, LogoutsPresent, ClaimsHeld,
         Holds, Known
    <2> QED BY <2>1, CallKeepsRefs, CallKeepsClaims, TabKeepsUse, PairsKeepUse DEF Next, UseInv
  <1> QED BY <1>1, <1>2, SessionInvariant, PTL DEF Spec

(* The browser's view of the server is TokenLineage, which AuthService     *)
(* implements: every answer to a call of api() is a step that TokenLineage *)
(* allows to its requests, and a pair is used again only once it has ended *)
(* and no request claims it.                                               *)
THEOREM BrowserUsesLineage == Spec => UsesLineage
  <1>1. Init => LInit BY DEF Init
  <1>2. IInv /\ UseInv /\ [Next]_vars => [LNext \/ \E p \in Pairs : Forget(p)]_lvars
    BY NextUses
  <1> QED BY <1>1, <1>2, SessionInvariant, UseInvariant, PTL DEF Spec, UsesLineage

-----------------------------------------------------------------------------
(* Who owns a created link *)

Created(c) == call[c].kind = "create" /\ pc[c] = "answered" /\ call[c].status = 200

(* A link belongs to the account of the token its caller sent, or, if that *)
(* token is not there or has expired, to nobody.                           *)
CallerOrNobody ==
    \A c \in Calls : Created(c) =>
        \/ call[c].creator = Nil /\ call[c].header \notin fresh
        \/ call[c].header \in Pairs /\ call[c].creator = owner[call[c].header]

(* A token that a call carries stays its owner's, and is never renewed.    *)
LEMMA HeadersKeepOwner ==
    ASSUME IInv, UseInv, [Next]_vars, NEW c \in Calls, NEW q \in Pairs,
           q = call[c].header
    PROVE  owner'[q] = owner[q] /\ (q \in fresh' => q \in fresh)
  <1>1. TypeOK /\ phase[q] # "unborn" /\ q \in Referred
    <2>1. q \in Known BY DEF UseInv, RefersKnown, Refs
    <2> QED BY <2>1, BrowserNilAssumption DEF IInv, SessionInv, Known, Referred
  <1>2. CASE UNCHANGED <<owner, fresh>> BY <1>2
  <1>3. ASSUME NEW p \in Unborn, NEW u,
               owner' = [owner EXCEPT ![p] = u], fresh' = fresh \cup {p}
        PROVE  owner'[q] = owner[q] /\ (q \in fresh' => q \in fresh)
    BY <1>1, <1>3 DEF Unborn, TypeOK
  <1>4. ASSUME NEW d \in Calls, CallStep(d) \/ ServerFails(d) \/ Lose(d)
        PROVE  owner'[q] = owner[q] /\ (q \in fresh' => q \in fresh)
    <2>1. CASE ServeLogin(d)
      <3>1. \/ UNCHANGED server
            \/ \E p \in Unborn : /\ owner' = [owner EXCEPT ![p] = call[d].user]
                                 /\ fresh' = fresh \cup {p}
        BY Zenon, <2>1 DEF ServeLogin
      <3>2. UNCHANGED server => UNCHANGED <<owner, fresh>>
        BY DEF server
      <3> QED BY <1>2, <1>3, <3>1, <3>2
    <2>2. CASE RotatePair(d)
      <3>1. PICK p \in Unborn : /\ owner' = [owner EXCEPT ![p] = owner[call[d].sent]]
                                /\ fresh' = fresh \cup {p}
        BY Zenon, <2>2 DEF RotatePair
      <3> QED BY <1>3, <3>1
    <2>3. CASE ServeLoad(d) \/ ServeCreate(d) \/ EndLogout(d)
      <3>1. ServeLoad(d) => UNCHANGED server
        BY Zenon DEF ServeLoad
      <3>2. ServeCreate(d) => UNCHANGED server
        BY Zenon DEF ServeCreate
      <3>3. EndLogout(d) => UNCHANGED <<owner, fresh>>
        BY Zenon DEF EndLogout
      <3>4. UNCHANGED server => UNCHANGED <<owner, fresh>>
        BY DEF server
      <3> QED BY <1>2, <2>3, <3>1, <3>2, <3>3, <3>4
    <2>4. CASE CheckLogout(d) \/ CheckRefresh(d)
      BY <1>2, <2>4 DEF CheckLogout, CheckRefresh, server
    <2>5. CASE StartRefresh(d) \/ Finish(d) \/ Retry(d) \/ GiveUp(d)
      BY <1>2, <2>5 DEF StartRefresh, Finish, Retry, GiveUp, server
    <2>6. CASE ServerFails(d) \/ Lose(d) BY <1>2, <2>6 DEF ServerFails, Lose
    <2> QED BY <1>4, <2>1, <2>2, <2>3, <2>4, <2>5, <2>6 DEF CallStep
  <1>5. ASSUME NEW t \in Tabs, TabStep(t) PROVE UNCHANGED <<owner, fresh>>
    BY <1>5 DEF TabStep, SubmitLogin, CallApi, Logout, LogoutLocally, Render, Send, server
  <1>6. ASSUME NEW p \in Pairs, AccessExpires(p) \/ RefreshExpires(p) \/ Recycle(p)
        PROVE  owner'[q] = owner[q] /\ (q \in fresh' => q \in fresh)
    BY <1>1, <1>6 DEF AccessExpires, RefreshExpires, Recycle, TypeOK
  <1>7. CASE UNCHANGED vars BY <1>2, <1>7 DEF vars, server
  <1> QED BY <1>2, <1>4, <1>5, <1>6, <1>7 DEF Next

(* Only ServeCreate answers a creation with success. *)
LEMMA CreatedByServer ==
    ASSUME IInv, NEW c \in Calls, CallStep(c) \/ ServerFails(c) \/ Lose(c), Created(c)'
    PROVE  ServeCreate(c)
  <1>1. TypeOK BY DEF IInv, SessionInv
  <1>2. /\ call'[c].kind = "create" /\ pc'[c] = "answered" /\ call'[c].status = 200
        /\ call'[c] # NoCall
    BY NoCallHoldsNil DEF Created
  <1>3. call[c].kind = "create" \/ call[c] = NoCall
    BY <1>2, CallFollows DEF Follows
  <1>4. call[c].kind \in {"create", "load"} BY <1>3, NoCallHoldsNil
  <1>5. ASSUME ServeLoad(c) PROVE FALSE
    <2>1. PICK s : call'[c] = WithStatus(c, s)
      BY <1>1, <1>5 DEF ServeLoad, Answer, TypeOK
    <2>2. WithStatus(c, s).kind = call[c].kind
      BY <1>1, StatusFollows DEF WithStatus, TypeOK
    <2> QED BY <1>2, <1>5, <2>1, <2>2 DEF ServeLoad
  <1>6. ~ServeLogin(c) /\ ~CheckLogout(c) /\ ~EndLogout(c)
    BY <1>4 DEF ServeLogin, CheckLogout, EndLogout
  <1>7. ~CheckRefresh(c) /\ ~RotatePair(c) /\ ~StartRefresh(c) /\ ~Retry(c)
    BY <1>1, <1>2 DEF CheckRefresh, RotatePair, StartRefresh, Retry, TypeOK
  <1>8. ~Finish(c) /\ ~GiveUp(c) /\ ~Lose(c)
    BY <1>1, <1>2 DEF Finish, GiveUp, Lose, Return, TypeOK
  <1>9. ASSUME ServerFails(c) PROVE FALSE
    <2>1. call'[c] = WithStatus(c, 500)
      BY <1>1, <1>9 DEF ServerFails, WithStatus, TypeOK
    <2>2. call[c] \in Call /\ 500 \in {0, 200, 401, 500} BY <1>1 DEF TypeOK
    <2>3. call'[c].status = 500 BY <1>1, <2>1, <2>2, StatusFields
    <2> QED BY <1>2, <2>3
  <1> QED BY <1>5, <1>6, <1>7, <1>8, <1>9 DEF CallStep

(* What it stores as the creator. *)
LEMMA CreatorServed ==
    ASSUME TypeOK, NEW c \in Calls, ServeCreate(c)
    PROVE  /\ call'[c].creator = Creator(call[c].header)
           /\ call'[c].header = call[c].header
  <1>1. PICK x : x = WithStatus(c, 200) OBVIOUS
  <1>2. x \in Call /\ x.header = call[c].header
    <2>1. \A y \in Call : LET z == [y EXCEPT !.status = 200] IN
             z \in Call /\ z.header = y.header
      BY DEF Call
    <2> QED BY <1>1, <2>1 DEF WithStatus, TypeOK
  <1>3. PICK y : y = [x EXCEPT !.creator = Creator(call[c].header)] OBVIOUS
  <1>4. y.creator = Creator(call[c].header) /\ y.header = x.header
    BY <1>2, <1>3 DEF Call
  <1>5. call' = [call EXCEPT ![c] = y] BY <1>1, <1>3 DEF ServeCreate, Answer
  <1>6. call'[c] = y BY <1>5 DEF TypeOK
  <1> QED BY <1>2, <1>4, <1>6

LEMMA CallerOrNobodyNext == IInv /\ UseInv /\ CallerOrNobody /\ [Next]_vars => CallerOrNobody'
  <1> SUFFICES ASSUME IInv, UseInv, CallerOrNobody, [Next]_vars, NEW c \in Calls, Created(c)'
               PROVE  \/ call'[c].creator = Nil /\ call'[c].header \notin fresh'
                      \/ /\ call'[c].header \in Pairs
                         /\ call'[c].creator = owner'[call'[c].header]
    BY DEF CallerOrNobody
  <1>1. TypeOK /\ call[c] \in Call BY DEF IInv, SessionInv, TypeOK
  <1>2. call[c].header \in Pairs \cup {Nil} BY <1>1 DEF Call
  <1>3. call[c].header \in Pairs =>
           /\ owner'[call[c].header] = owner[call[c].header]
           /\ call[c].header \in fresh' => call[c].header \in fresh
    BY HeadersKeepOwner
  <1>4. Nil \notin fresh /\ Nil \notin fresh'
    <2>1. TypeOK' BY NextKeeps DEF IInv, SessionInv
    <2> QED BY <1>1, <2>1, BrowserNilAssumption DEF TypeOK
  <1>5. CASE call'[c] = call[c] /\ pc'[c] = pc[c]
    <2>1. Created(c) BY <1>5 DEF Created
    <2> QED BY <1>2, <1>3, <1>4, <1>5, <2>1 DEF CallerOrNobody
  <1>6. CASE ServeCreate(c)
    <2>1. UNCHANGED <<owner, fresh>> BY <1>6 DEF ServeCreate, server
    <2>2. /\ call'[c].creator = Creator(call[c].header)
          /\ call'[c].header = call[c].header
      BY <1>1, <1>6, CreatorServed
    <2> QED BY <1>1, <2>1, <2>2 DEF Creator, TypeOK
  <1>7. ASSUME NEW d \in Calls, CallStep(d) \/ ServerFails(d) \/ Lose(d)
        PROVE  ServeCreate(c) \/ (call'[c] = call[c] /\ pc'[c] = pc[c])
    <2>1. CASE d = c BY <1>7, <2>1, CreatedByServer
    <2>2. CASE d # c BY <1>7, <2>2, CallFollows
    <2> QED BY <2>1, <2>2
  <1>8. ASSUME NEW t \in Tabs, TabStep(t)
        PROVE  call'[c] = call[c] /\ pc'[c] = pc[c]
    <2>1. ASSUME NEW d \in Calls, NEW kind, NEW arguments, Send(d, kind, t, arguments)
          PROVE  call'[c] = call[c] /\ pc'[c] = pc[c]
      <3>1. d # c BY <1>1, <2>1 DEF Send, Created, TypeOK
      <3> QED BY <1>1, <2>1, <3>1 DEF Send, TypeOK
    <2>2. CASE LogoutLocally(t) \/ Render(t) BY <2>2 DEF LogoutLocally, Render
    <2> QED BY <1>8, <2>1, <2>2 DEF TabStep, SubmitLogin, CallApi, Logout
  <1>9. ASSUME NEW p \in Pairs, AccessExpires(p) \/ RefreshExpires(p) \/ Recycle(p)
        PROVE  call'[c] = call[c] /\ pc'[c] = pc[c]
    BY <1>9 DEF AccessExpires, RefreshExpires, Recycle, browser
  <1>10. CASE UNCHANGED vars BY <1>5, <1>10 DEF vars, browser
  <1> QED BY <1>5, <1>6, <1>7, <1>8, <1>9, <1>10 DEF Next

(* A link is never stored for another account than that of the token that  *)
(* came with it, whatever expires, fails, overlaps or is repeated; it is   *)
(* stored for nobody only if that token is missing or has expired.         *)
THEOREM LinksGoToCallerOrNobody == Spec => []CallerOrNobody
  <1>1. Init => CallerOrNobody BY DEF Init, CallerOrNobody, Created, Idle
  <1> QED BY <1>1, CallerOrNobodyNext, SessionInvariant, UseInvariant, PTL DEF Spec

(* While no access token expires, every issued one is good. *)
IssuedFresh == \A p \in Pairs : phase[p] # "unborn" => p \in fresh

LEMMA IssuedFreshNext ==
    ASSUME IInv, UseInv, IssuedFresh, [Next]_vars, \A p \in Pairs : ~AccessExpires(p)
    PROVE  IssuedFresh'
  <1>1. TypeOK BY DEF IInv, SessionInv
  <1>2. CASE UNCHANGED vars BY <1>2 DEF vars, server, IssuedFresh
  <1>3. ASSUME NEW t \in Tabs, TabStep(t) PROVE UNCHANGED <<phase, fresh>>
    BY <1>3 DEF TabStep, SubmitLogin, CallApi, Logout, LogoutLocally, Render, Send, server
  <1>4. ASSUME NEW p \in Pairs, RefreshExpires(p) \/ Recycle(p) PROVE IssuedFresh'
    BY <1>1, <1>4 DEF RefreshExpires, Recycle, IssuedFresh, TypeOK
  <1>5. ASSUME NEW d \in Calls, CallStep(d) \/ ServerFails(d) \/ Lose(d)
        PROVE  IssuedFresh'
    <2>1. CASE UNCHANGED <<phase, fresh>> BY <2>1 DEF IssuedFresh
    <2>2. CASE ServeLogin(d)
      BY <1>1, <2>1, <2>2 DEF ServeLogin, server, Issue, Unborn, IssuedFresh, TypeOK
    <2>3. CASE RotatePair(d)
      <3>1. PICK p \in Unborn : Rotate(call[d].sent, d, p) /\ fresh' = fresh \cup {p}
        BY <2>3 DEF RotatePair
      <3>2. call[d].sent \in Pairs /\ phase[call[d].sent] # "unborn"
        <4>1. call[d].sent \in Pairs
          BY <2>3 DEF RotatePair, IInv, SessionInv, RefreshesPresent, RefreshPCs
        <4>2. call[d].sent \in Known BY DEF UseInv, RefersKnown, Refs
        <4> QED BY <4>1, <4>2, BrowserNilAssumption DEF Known
      <3>3. \A q \in Pairs \ {p} : phase'[q] # "unborn" => phase[q] # "unborn"
        BY <1>1, <3>1, <3>2 DEF Rotate, TypeOK
      <3> QED BY <3>1, <3>3 DEF IssuedFresh
    <2>4. CASE EndLogout(d)
      <3>1. call[d].body \in Known BY DEF UseInv, RefersKnown, Refs
      <3>2. call[d].body \in Pairs => phase[call[d].body] # "unborn"
        BY <3>1, BrowserNilAssumption DEF Known
      <3>3. /\ phase' = [phase EXCEPT ![call[d].body] = "ended"]
            /\ fresh' = fresh
        BY <2>4 DEF EndLogout
      <3> QED BY <1>1, <3>2, <3>3 DEF IssuedFresh, TypeOK
    <2>5. CASE ServeLoad(d) \/ ServeCreate(d)
      BY <2>1, <2>5 DEF ServeLoad, ServeCreate, server
    <2>6. CASE CheckLogout(d) \/ CheckRefresh(d)
      BY <2>1, <2>6 DEF CheckLogout, CheckRefresh, server, Claim
    <2>7. CASE StartRefresh(d) \/ Finish(d) \/ Retry(d) \/ GiveUp(d)
      BY <2>1, <2>7 DEF StartRefresh, Finish, Retry, GiveUp, server
    <2>8. CASE ServerFails(d) \/ Lose(d) BY <2>1, <2>8 DEF ServerFails, Lose
    <2> QED BY <1>5, <2>2, <2>3, <2>4, <2>5, <2>6, <2>7, <2>8 DEF CallStep
  <1>6. CASE UNCHANGED <<phase, fresh>> BY <1>6 DEF IssuedFresh
  <1> QED BY <1>2, <1>3, <1>4, <1>5, <1>6 DEF Next

(* create-link.bru, "authenticated users own the link", is true as long as *)
(* no access token expires, through lost calls, errors and any overlap:    *)
(* expiry, which the optional authentication of POST /links lets pass, is  *)
(* the only cause of anonymous links of signed-in users.                   *)
THEOREM CreatorsOwnUntilExpiry ==
    Spec /\ [][\A p \in Pairs : ~AccessExpires(p)]_vars => []CreatorsOwn
  <1>1. Init => IssuedFresh BY DEF Init, LInit, IssuedFresh, Pairs
  <1>2. /\ IInv /\ UseInv /\ IssuedFresh /\ [Next]_vars
        /\ [\A p \in Pairs : ~AccessExpires(p)]_vars
        => IssuedFresh'
    <2> SUFFICES ASSUME IInv, UseInv, IssuedFresh, [Next]_vars,
                        [\A p \in Pairs : ~AccessExpires(p)]_vars
                 PROVE  IssuedFresh'
      OBVIOUS
    <2>1. CASE UNCHANGED vars BY <2>1 DEF vars, server, IssuedFresh
    <2> QED BY <2>1, IssuedFreshNext
  <1>3. UseInv /\ IssuedFresh /\ CallerOrNobody => CreatorsOwn
    <2> SUFFICES ASSUME UseInv, IssuedFresh, CallerOrNobody, NEW c \in Calls,
                        Created(c), call[c].header # Nil
                 PROVE  call[c].creator = owner[call[c].header]
      BY DEF CreatorsOwn, Created
    <2>1. call[c].header \in Known BY DEF UseInv, RefersKnown, Refs
    <2>2. call[c].header \in fresh BY <2>1 DEF Known, IssuedFresh
    <2> QED BY <2>2 DEF CallerOrNobody
  <1> QED
    BY <1>1, <1>2, <1>3, SessionInvariant, UseInvariant, LinksGoToCallerOrNobody, PTL
    DEF Spec
===========================================================================
