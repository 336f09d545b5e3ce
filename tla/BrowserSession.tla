-------------------------- MODULE BrowserSession --------------------------
(* The session that the tabs of a browser share through localStorage:      *)
(* frontend/src/lib/api.ts (every call, with its refresh on 401),          *)
(* lib/auth.ts (the stored pair), and the sign-in and sign-out of          *)
(* App.tsx and LoginScreen.tsx.  The code between two awaits runs at once. *)
(* The server is TokenLineage, which AuthService implements: its Tokens    *)
(* are token pairs, its Requests the calls of the browser.                 *)
EXTENDS TokenLineage, FiniteSets

CONSTANTS
    Tabs,
    Users,
    Nil         \* null in localStorage, an absent header

Calls == Requests
Pairs == Tokens

ASSUME BrowserNilAssumption == Nil \notin Tabs \cup Users \cup Calls \cup Pairs

VARIABLES
    owner,      \* owner[p]: the account the pair was issued to
    fresh,      \* pairs whose access token has not expired
    store,      \* localStorage
    view,       \* view[t]: the screen the tab rendered last
    pc,         \* pc[c]: where call c of api() is
    call        \* call[c]: its arguments and local variables

(* History, read by no guard. *)
VARIABLES
    calm,       \* calls never overlapped, none was lost or answered with 500
    stragglers  \* calls that were in flight when the store was last cleared

server  == <<phase, claims, owner, fresh>>
browser == <<store, view, pc, call>>
history == <<calm, stragglers>>
vars    == <<server, browser, history>>

Empty == [access |-> Nil, refresh |-> Nil, username |-> Nil]
Store == [access : Pairs \cup {Nil}, refresh : Pairs \cup {Nil},
          username : Users \cup {Nil}]

(* load: an endpoint behind RequireAuth; create: POST /links, where a      *)
(* session is optional.                                                    *)
Kinds == {"login", "load", "create", "logout"}
Views == {"login", "shell"}

(* header: the pair of the Authorization header; body: the refresh token   *)
(* in a logout's body; sent: the one presented to /auth/refresh; status,   *)
(* pair, creator: the answer; refreshed: the _refreshed option.            *)
NoCall == [kind |-> "load", tab |-> Nil, user |-> Nil, header |-> Nil,
           body |-> Nil, sent |-> Nil, status |-> 0, pair |-> Nil,
           creator |-> Nil, refreshed |-> FALSE]
Call == [kind : Kinds, tab : Tabs \cup {Nil}, user : Users \cup {Nil},
         header : Pairs \cup {Nil}, body : Pairs \cup {Nil},
         sent : Pairs \cup {Nil}, status : {0, 200, 401, 500},
         pair : Pairs \cup {Nil}, creator : Users \cup {Nil},
         refreshed : BOOLEAN]

Idle == "idle"
PCs == {Idle, "sent", "checked", "answered",
        "refreshSent", "refreshChecked", "refreshAnswered"}

TypeOK ==
    /\ phase \in [Pairs -> Phases]
    /\ claims \in [Pairs -> SUBSET Calls]
    /\ owner \in [Pairs -> Users \cup {Nil}]
    /\ fresh \subseteq Pairs
    /\ store \in Store
    /\ view \in [Tabs -> Views]
    /\ pc \in [Calls -> PCs]
    /\ call \in [Calls -> Call]
    /\ calm \in BOOLEAN
    /\ stragglers \subseteq Calls

Init ==
    /\ LInit
    /\ owner = [p \in Pairs |-> Nil]
    /\ fresh = {}
    /\ store = Empty
    /\ view = [t \in Tabs |-> "login"]
    /\ pc = [c \in Calls |-> Idle]
    /\ call = [c \in Calls |-> NoCall]
    /\ calm = TRUE
    /\ stragglers = {}

InFlight == {c \in Calls : pc[c] # Idle}

(* Bound: a call may use up one pair, which must be there when it begins. *)
Unborn == {p \in Pairs : phase[p] = "unborn"}
Wanting == {c \in InFlight : ~call[c].refreshed /\ call[c].pair = Nil}
PairsLeft == Cardinality(Unborn) > Cardinality(Wanting)

-----------------------------------------------------------------------------
(* localStorage *)

(* Faulty variant: the refresh token of the new pair is not stored. *)
SetAccessOnly(pair) == [store EXCEPT !.access = pair]

Set(pair) == [store EXCEPT !.access = pair, !.refresh = pair]

(* Faulty variant: the refresh token is left behind. *)
ClearedAccessOnly == [store EXCEPT !.access = Nil, !.username = Nil]

Cleared == Empty

Clear(c) ==
    /\ store' = Cleared
    /\ stragglers' = InFlight \ {c}

-----------------------------------------------------------------------------
(* A call begins *)

Send(c, kind, t, arguments) ==
    /\ pc[c] = Idle
    /\ PairsLeft
    /\ pc' = [pc EXCEPT ![c] = "sent"]
    /\ call' = [call EXCEPT ![c] =
                   [arguments EXCEPT !.kind = kind, !.tab = t,
                                     !.header = store.access]]
    /\ calm' = /\ calm
               /\ InFlight = {}
               /\ kind = "login" => store = Empty
    /\ UNCHANGED <<server, store, view, stragglers>>

(* The form is disabled while its call is in flight. *)
SubmitLogin(c, t, user) ==
    /\ view[t] = "login"
    /\ \A d \in InFlight : call[d].tab = t => call[d].kind # "login"
    /\ Send(c, "login", t, [NoCall EXCEPT !.user = user])

CallApi(c, t, kind) ==
    /\ view[t] = "shell"
    /\ kind \in {"load", "create"}
    /\ Send(c, kind, t, NoCall)

Logout(c, t) ==
    /\ view[t] = "shell"
    /\ store.refresh # Nil
    /\ Send(c, "logout", t, [NoCall EXCEPT !.body = store.refresh])

(* Without a refresh token there is nothing to tell the server. *)
LogoutLocally(t) ==
    /\ view[t] = "shell"
    /\ store.refresh = Nil
    /\ store' = Cleared
    /\ stragglers' = InFlight
    /\ view' = [view EXCEPT ![t] = "login"]
    /\ UNCHANGED <<server, pc, call, calm>>

-----------------------------------------------------------------------------
(* The server answers *)

Answer(c, answer) ==
    /\ pc' = [pc EXCEPT ![c] = "answered"]
    /\ call' = [call EXCEPT ![c] = answer]
    /\ calm' = (calm /\ answer.status # 500)
    /\ UNCHANGED <<store, view, stragglers>>

WithStatus(c, status) == [call[c] EXCEPT !.status = status]
Drop(c) == claims' = [p \in Pairs |-> claims[p] \ {c}]

(* RequireAuth. *)
ServeLoad(c) ==
    /\ pc[c] = "sent" /\ call[c].kind = "load"
    /\ Answer(c, WithStatus(c, IF call[c].header \in fresh THEN 200 ELSE 401))
    /\ UNCHANGED server

(* Faulty variant: the token is stored for the account it names. *)
CreatorUnverified(header) == header

(* AuthMiddleware lets a bad token pass as no token. *)
Creator(header) == IF header \in fresh THEN owner[header] ELSE Nil

ServeCreate(c) ==
    /\ pc[c] = "sent" /\ call[c].kind = "create"
    /\ Answer(c, [WithStatus(c, 200) EXCEPT !.creator = Creator(call[c].header)])
    /\ UNCHANGED server

(* A password that was wrong is wrong again. *)
ServeLogin(c) ==
    /\ pc[c] = "sent" /\ call[c].kind = "login"
    /\ \/ Answer(c, WithStatus(c, 401)) /\ UNCHANGED server
       \/ /\ ~call[c].refreshed
          /\ \E p \in Unborn :
                /\ Issue(p)
                /\ owner' = [owner EXCEPT ![p] = call[c].user]
                /\ fresh' = fresh \cup {p}
                /\ \/ Answer(c, [WithStatus(c, 200) EXCEPT !.pair = p])
                   \/ Answer(c, WithStatus(c, 500))

CheckLogout(c) ==
    /\ pc[c] = "sent" /\ call[c].kind = "logout"
    /\ \/ /\ Claim(call[c].body, c)
          /\ pc' = [pc EXCEPT ![c] = "checked"]
          /\ UNCHANGED <<owner, fresh, store, view, call, history>>
       \/ /\ phase[call[c].body] # "good"
          /\ Answer(c, WithStatus(c, 401))
          /\ UNCHANGED server

EndLogout(c) ==
    /\ pc[c] = "checked" /\ call[c].kind = "logout"
    /\ phase' = [phase EXCEPT ![call[c].body] = "ended"]
    /\ Drop(c)
    /\ \E status \in {200, 500} : Answer(c, WithStatus(c, status))
    /\ UNCHANGED <<owner, fresh>>

CheckRefresh(c) ==
    /\ pc[c] = "refreshSent"
    /\ \/ /\ Claim(call[c].sent, c)
          /\ pc' = [pc EXCEPT ![c] = "refreshChecked"]
          /\ UNCHANGED call
       \/ /\ phase[call[c].sent] # "good"
          /\ pc' = [pc EXCEPT ![c] = "refreshAnswered"]
          /\ call' = [call EXCEPT ![c].status = 401]
          /\ UNCHANGED <<phase, claims>>
    /\ UNCHANGED <<owner, fresh, store, view, history>>

(* The rotation commits; an error may still be the answer. *)
RotatePair(c) ==
    /\ pc[c] = "refreshChecked"
    /\ \E p \in Unborn :
          /\ Rotate(call[c].sent, c, p)
          /\ owner' = [owner EXCEPT ![p] = owner[call[c].sent]]
          /\ fresh' = fresh \cup {p}
          /\ \/ /\ call' = [call EXCEPT ![c].status = 200, ![c].pair = p]
                /\ UNCHANGED calm
             \/ /\ call' = [call EXCEPT ![c].status = 500]
                /\ calm' = FALSE
    /\ pc' = [pc EXCEPT ![c] = "refreshAnswered"]
    /\ UNCHANGED <<store, view, stragglers>>

(* A 500 without effect. *)
ServerFails(c) ==
    /\ pc[c] \in {"sent", "checked", "refreshSent", "refreshChecked"}
    /\ pc' = [pc EXCEPT ![c] = IF @ \in {"sent", "checked"}
                              THEN "answered" ELSE "refreshAnswered"]
    /\ call' = [call EXCEPT ![c].status = 500]
    /\ calm' = FALSE
    /\ Drop(c)
    /\ UNCHANGED <<phase, owner, fresh, store, view, stragglers>>

-----------------------------------------------------------------------------
(* The answer arrives *)

Return(c) ==
    /\ pc' = [pc EXCEPT ![c] = Idle]
    /\ call' = [call EXCEPT ![c] = NoCall]

(* Faulty variant: the retry is not told that it is one. *)
MustRefreshAlways(c) == call[c].status = 401 /\ store.refresh # Nil

MustRefresh(c) ==
    /\ call[c].status = 401
    /\ store.refresh # Nil
    /\ ~call[c].refreshed

StartRefresh(c) ==
    /\ pc[c] = "answered"
    /\ MustRefresh(c)
    /\ pc' = [pc EXCEPT ![c] = "refreshSent"]
    /\ call' = [call EXCEPT ![c].sent = store.refresh]
    /\ UNCHANGED <<server, store, view, history>>

SignIn(c) ==
    /\ store' = [Set(call[c].pair) EXCEPT !.username = call[c].user]
    /\ view' = [view EXCEPT ![call[c].tab] = "shell"]
    /\ stragglers' = stragglers \ {c}

SignOut(c) ==
    /\ Clear(c)
    /\ view' = [view EXCEPT ![call[c].tab] = "login"]

(* Faulty variant: any 401 ends the session. *)
FinishClearsOn401(c) ==
    LET kind == call[c].kind
        signsIn == kind = "login" /\ call[c].status = 200
        signsOut == kind # "login" /\ call[c].status = 401 IN
    /\ pc[c] = "answered"
    /\ ~MustRefresh(c)
    /\ \/ signsIn /\ SignIn(c)
       \/ (kind = "logout" \/ signsOut) /\ SignOut(c)
       \/ /\ ~signsIn /\ ~signsOut /\ kind # "logout"
          /\ stragglers' = stragglers \ {c}
          /\ UNCHANGED <<store, view>>
    /\ Return(c)
    /\ UNCHANGED <<server, calm>>

(* What the caller of api() does with its result. *)
Finish(c) ==
    LET kind == call[c].kind
        signsIn == kind = "login" /\ call[c].status = 200 IN
    /\ pc[c] = "answered"
    /\ ~MustRefresh(c)
    /\ \/ signsIn /\ SignIn(c)
       \/ kind = "logout" /\ SignOut(c)
       \/ /\ ~signsIn /\ kind # "logout"
          /\ stragglers' = stragglers \ {c}
          /\ UNCHANGED <<store, view>>
    /\ Return(c)
    /\ UNCHANGED <<server, calm>>

(* The new pair is stored and the call repeated with it. *)
Retry(c) ==
    /\ pc[c] = "refreshAnswered" /\ call[c].status = 200
    /\ store' = Set(call[c].pair)
    /\ pc' = [pc EXCEPT ![c] = "sent"]
    /\ call' = [call EXCEPT ![c] =
                   [@ EXCEPT !.header = call[c].pair, !.refreshed = TRUE,
                             !.status = 0, !.sent = Nil, !.pair = Nil]]
    /\ UNCHANGED <<server, view, history>>

(* Any refusal ends the session; the caller gets its 401. *)
GiveUp(c) ==
    /\ pc[c] = "refreshAnswered" /\ call[c].status # 200
    /\ \/ call[c].kind = "logout" /\ SignOut(c)
       \/ call[c].kind # "logout" /\ Clear(c) /\ UNCHANGED view
    /\ Return(c)
    /\ UNCHANGED <<server, calm>>

-----------------------------------------------------------------------------
(* The environment *)

(* fetch rejects, or the tab is closed or reloaded: nothing is done with   *)
(* the answer; a logout does not even clear the store.                     *)
Lose(c) ==
    /\ pc[c] # Idle
    /\ Return(c)
    /\ Drop(c)
    /\ calm' = FALSE
    /\ stragglers' = stragglers \ {c}
    /\ UNCHANGED <<phase, owner, fresh, store, view>>

(* A tab renders again, by navigation. *)
Render(t) ==
    /\ view' = [view EXCEPT ![t] = IF store.access # Nil THEN "shell" ELSE "login"]
    /\ UNCHANGED <<server, store, pc, call, history>>

AccessExpires(p) ==
    /\ p \in fresh
    /\ fresh' = fresh \ {p}
    /\ UNCHANGED <<phase, claims, owner, browser, history>>

RefreshExpires(p) ==
    /\ phase[p] = "good"
    /\ phase' = [phase EXCEPT ![p] = "ended"]
    /\ UNCHANGED <<claims, owner, fresh, browser, history>>

(* A pair that nothing refers to any more stands for one not yet issued. *)
Referred ==
    {store.access, store.refresh} \cup
    UNION {{call[c].header, call[c].body, call[c].sent, call[c].pair} : c \in Calls}

Recycle(p) ==
    /\ phase[p] = "ended"
    /\ p \notin fresh \cup Referred
    /\ phase' = [phase EXCEPT ![p] = "unborn"]
    /\ owner' = [owner EXCEPT ![p] = Nil]
    /\ UNCHANGED <<claims, fresh, browser, history>>

-----------------------------------------------------------------------------
(* Specification *)

CallStep(c) ==
    \/ ServeLoad(c) \/ ServeCreate(c) \/ ServeLogin(c)
    \/ CheckLogout(c) \/ EndLogout(c)
    \/ CheckRefresh(c) \/ RotatePair(c)
    \/ StartRefresh(c) \/ Finish(c) \/ Retry(c) \/ GiveUp(c)

TabStep(t) ==
    \/ \E c \in Calls, user \in Users : SubmitLogin(c, t, user)
    \/ \E c \in Calls, kind \in {"load", "create"} : CallApi(c, t, kind)
    \/ \E c \in Calls : Logout(c, t)
    \/ LogoutLocally(t)
    \/ Render(t)

Next ==
    \/ \E c \in Calls : CallStep(c) \/ ServerFails(c) \/ Lose(c)
    \/ \E t \in Tabs : TabStep(t)
    \/ \E p \in Pairs : AccessExpires(p) \/ RefreshExpires(p) \/ Recycle(p)

Spec == Init /\ [][Next]_vars

-----------------------------------------------------------------------------
(* Properties *)

(* Once signed out, the browser is signed in again by a sign-in only, or   *)
(* by a refresh that was in flight when the store was cleared: no call     *)
(* that begins later revives the session.                                  *)
SignedOutStaysOut ==
    [][(store.access = Nil /\ store'.access # Nil) =>
          \E c \in Calls :
             \/ pc[c] = "answered" /\ call[c].kind = "login"
             \/ pc[c] = "refreshAnswered" /\ c \in stragglers]_vars

(* Calls made one at a time leave no good token behind: the server's only  *)
(* good token is the stored one, or in an answer on its way, and the name  *)
(* shown is that of its account.                                           *)
NoOrphans ==
    calm =>
        /\ \A p \in Pairs : phase[p] = "good" =>
              p = store.refresh \/ \E c \in InFlight : call[c].pair = p
        /\ store.refresh # Nil => store.username = owner[store.refresh]

(* Calls made one at a time never lose a good session by their automatic   *)
(* refresh.                                                                *)
RefreshKeepsSession ==
    [][(calm' /\ store.refresh # Nil /\ store'.refresh = Nil) =>
          \/ phase[store.refresh] # "good"
          \/ \E c \in Calls : call[c].kind = "logout" /\ pc[c] = "answered"]_vars

(* api() refreshes once per call and gives up: every step of a call is one *)
(* of the finitely many left to it, however often tokens expire and other  *)
(* tabs replace them, so that no call goes round for ever.                 *)
StepsLeft(c) ==
    CASE pc[c] = Idle              -> 0
      [] pc[c] = "answered"        -> IF call[c].refreshed THEN 1 ELSE 7
      [] pc[c] = "checked"         -> IF call[c].refreshed THEN 2 ELSE 8
      [] pc[c] = "sent"            -> IF call[c].refreshed THEN 3 ELSE 9
      [] pc[c] = "refreshAnswered" -> 4
      [] pc[c] = "refreshChecked"  -> 5
      [] pc[c] = "refreshSent"     -> 6

CallsEnd ==
    [][\A c \in Calls : (pc[c] # Idle /\ pc'[c] # pc[c]) =>
                            StepsLeft(c)' < StepsLeft(c)]_vars

(* create-link.bru: "authenticated users own the link".  A link created    *)
(* with the stored access token belongs to its account.                    *)
CreatorsOwn ==
    \A c \in Calls :
        (call[c].kind = "create" /\ pc[c] = "answered"
            /\ call[c].status = 200 /\ call[c].header # Nil)
        => call[c].creator = owner[call[c].header]
===========================================================================
