--------------------------- MODULE LinkService ---------------------------
(* internal/core/link_service.go under concurrent requests.  Each request  *)
(* runs in a handler; a handler's step is one call of the repository or    *)
(* one reading of the clock, so that requests, the janitor of              *)
(* cmd/api/main.go and the access-log goroutines interleave between any    *)
(* two of them.  The process may crash and be restarted; the tables stay.  *)
EXTENDS LinkRepository, FiniteSets

CONSTANTS
    Handlers,   \* request goroutines the server runs at a time
    ExpiresIn,  \* requested lifetimes: clock ticks (any sign), or Nil
    MaxNow,     \* bound on the clock
    Failures    \* TRUE: database calls may fail and the process may crash

ASSUME HandlersAssumption == Nil \notin Handlers
ASSUME ExpiresInAssumption == ExpiresIn \subseteq Int \cup {Nil}
ASSUME MaxNowAssumption == MaxNow \in Nat
ASSUME FailuresAssumption == Failures \in BOOLEAN

VARIABLES
    now,        \* time.Now(), and the database's NOW()
    pc,         \* pc[h] is the call handler h is about to make
    req,        \* req[h] is the handler's request and its local variables
    issued,     \* ids generated so far
    loggers     \* access-log goroutines <<h, id>> still running

(* History, read by no guard. *)
VARIABLES
    published,  \* links whose row was ever inserted
    delivered,  \* delivered[id]: responses that carried the link's secret
    deleted,    \* links whose deletion was acknowledged
    lost        \* links whose access-log goroutine failed or died

tables  == <<links, logs>>
locals  == <<now, pc, req, issued, loggers>>
history == <<published, delivered, deleted, lost>>
vars    == <<tables, locals, history>>

(* slug and key of the request, user: its bearer (Nil: anonymous), link:   *)
(* the handler's copy of the row, text: what Open returned, late: the link *)
(* was already spent when the request arrived (history).                   *)
NoRequest == [slug |-> Nil, key |-> Nil, user |-> Nil, link |-> Nil,
              text |-> Erased, late |-> FALSE]

Request == [slug : Links \cup {Nil}, key : Keys \cup {Nil},
            user : Users \cup {Nil}, link : Link \cup {Nil},
            text : {Secret, Erased}, late : BOOLEAN]

Idle == "idle"
AccessPCs == {"GetBySlug", "CanAccess", "Open", "UpdateOpened", "Respond",
              "UpdateExpired"}
CreatePCs == {"Create"}
DeletePCs == {"GetForDelete", "CheckOwner", "Delete"}
PCs == {Idle} \cup AccessPCs \cup CreatePCs \cup DeletePCs

TypeOK ==
    /\ links \in LinkRows
    /\ logs \subseteq Links
    /\ now \in 0..MaxNow
    /\ pc \in [Handlers -> PCs]
    /\ req \in [Handlers -> Request]
    /\ issued \subseteq Links
    /\ loggers \subseteq Handlers \X Links
    /\ published \subseteq Links
    /\ delivered \in [Links -> Nat]
    /\ deleted \subseteq Links
    /\ lost \subseteq Links

Init ==
    /\ RepositoryInit
    /\ now = 0
    /\ pc = [h \in Handlers |-> Idle]
    /\ req = [h \in Handlers |-> NoRequest]
    /\ issued = {}
    /\ loggers = {}
    /\ published = {}
    /\ delivered = [id \in Links |-> 0]
    /\ deleted = {}
    /\ lost = {}

(* A secret is spent once it was delivered, deleted, or left to expire. *)
Spent(id) ==
    \/ delivered[id] > 0
    \/ id \in deleted
    \/ Exists(id) /\ IsExpired(links[id], now)

-----------------------------------------------------------------------------
(* Moves of a handler *)

Arrive(h, call, request) ==
    /\ pc[h] = Idle
    /\ pc' = [pc EXCEPT ![h] = call]
    /\ req' = [req EXCEPT ![h] = request]

Goto(h, call) ==
    /\ pc' = [pc EXCEPT ![h] = call]
    /\ UNCHANGED req

Keep(h, call, link) ==
    /\ pc' = [pc EXCEPT ![h] = call]
    /\ req' = [req EXCEPT ![h].link = link]

Return(h) ==
    /\ pc' = [pc EXCEPT ![h] = Idle]
    /\ req' = [req EXCEPT ![h] = NoRequest]

(* A failed write returns an error to the handler, whether or not the      *)
(* statement took effect: the connection or the request's context died.    *)
WriteFails(h, write) ==
    /\ Failures
    /\ write \/ UNCHANGED tables
    /\ Return(h)

-----------------------------------------------------------------------------
(* AccessLink *)

BeginAccess(h, id, key) ==
    /\ Arrive(h, "GetBySlug",
              [NoRequest EXCEPT !.slug = id, !.key = key, !.late = Spent(id)])
    /\ UNCHANGED <<tables, now, issued, loggers, history>>

GetBySlug(h) ==
    /\ pc[h] = "GetBySlug"
    /\ \/ Keep(h, "CanAccess", links[req[h].slug])
       \/ Failures /\ Return(h)
    /\ UNCHANGED <<tables, now, issued, loggers, history>>

(* Faulty variant: the key's hash is not compared. *)
GrantedAnyKey(link, key) == link # Nil /\ CanAccess(link, now)

Granted(link, key) ==
    link # Nil /\ CanAccess(link, now) /\ link.hashed_key = key

ExpiresLazily(link) ==
    link # Nil /\ IsExpired(link, now) /\ InvalidateSucceeds(link)

(* Go on to Open, write the lazy expiry, or refuse. *)
CheckAccess(h) ==
    LET link == req[h].link IN
    /\ pc[h] = "CanAccess"
    /\ \/ Granted(link, req[h].key) /\ Goto(h, "Open")
       \/ ExpiresLazily(link) /\ Keep(h, "UpdateExpired", Invalidated(link))
       \/ ~Granted(link, req[h].key) /\ ~ExpiresLazily(link) /\ Return(h)
    /\ UNCHANGED <<tables, now, issued, loggers, history>>

(* The lazy expiry's error is discarded: the answer is 404 either way. *)
UpdateExpired(h) ==
    /\ pc[h] = "UpdateExpired"
    /\ \/ Update(req[h].slug, req[h].link)
       \/ Failures /\ UNCHANGED tables
    /\ Return(h)
    /\ UNCHANGED <<now, issued, loggers, history>>

(* Faulty variant: the response leaves before the update. *)
OpenLinkRespondsFirst(h) ==
    LET link == req[h].link IN
    /\ pc[h] = "Open"
    /\ \/ /\ OpenSucceeds(link, now)
          /\ pc' = [pc EXCEPT ![h] = "Respond"]
          /\ req' = [req EXCEPT ![h].link = Opened(link),
                                ![h].text = link.ciphered_text]
       \/ ~OpenSucceeds(link, now) /\ Return(h)
    /\ UNCHANGED <<tables, now, issued, loggers, history>>

OpenLink(h) ==
    LET link == req[h].link IN
    /\ pc[h] = "Open"
    /\ \/ /\ OpenSucceeds(link, now)
          /\ pc' = [pc EXCEPT ![h] = "UpdateOpened"]
          /\ req' = [req EXCEPT ![h].link = Opened(link),
                                ![h].text = link.ciphered_text]
       \/ ~OpenSucceeds(link, now) /\ Return(h)
    /\ UNCHANGED <<tables, now, issued, loggers, history>>

(* Faulty variants: the write's error ignored as in the lazy expiry, or    *)
(* the goroutine never started.                                            *)
UpdateOpenedIgnoresError(h) ==
    /\ pc[h] = "UpdateOpened"
    /\ \/ Update(req[h].slug, req[h].link)
       \/ Failures /\ UNCHANGED tables
    /\ Goto(h, "Respond")
    /\ loggers' = loggers \cup {<<h, req[h].slug>>}
    /\ UNCHANGED <<now, issued, history>>

UpdateOpenedForgetsLog(h) ==
    /\ pc[h] = "UpdateOpened"
    /\ Update(req[h].slug, req[h].link)
    /\ Goto(h, "Respond")
    /\ UNCHANGED <<now, issued, loggers, history>>

UpdateOpened(h) ==
    LET write == Update(req[h].slug, req[h].link) IN
    /\ pc[h] = "UpdateOpened"
    /\ \/ /\ write
          /\ Goto(h, "Respond")
          /\ loggers' = loggers \cup {<<h, req[h].slug>>}
       \/ WriteFails(h, write) /\ UNCHANGED loggers
    /\ UNCHANGED <<now, issued, history>>

(* The client may be gone before the response is written. *)
Respond(h) ==
    /\ pc[h] = "Respond"
    /\ \/ delivered' = [delivered EXCEPT ![req[h].slug] = @ + 1]
       \/ Failures /\ UNCHANGED delivered
    /\ Return(h)
    /\ UNCHANGED <<tables, now, issued, loggers, published, deleted, lost>>

(* The goroutine AccessLink leaves behind: a constraint or a failure stops *)
(* it, which it only reports to the server's own output.                   *)
WriteAccessLog(g) ==
    /\ g \in loggers
    /\ \/ LogAccepted(g[2]) /\ CreateAccessLog(g[2]) /\ UNCHANGED lost
       \/ ~LogAccepted(g[2]) /\ UNCHANGED <<tables, lost>>
       \/ Failures /\ lost' = lost \cup {g[2]} /\ UNCHANGED tables
    /\ loggers' = loggers \ {g}
    /\ UNCHANGED <<now, pc, req, issued, published, delivered, deleted>>

-----------------------------------------------------------------------------
(* CreateLink *)

NewLink(key, expiresIn, user) ==
    [hashed_key    |-> key,
     ciphered_text |-> Secret,
     expires_at    |-> IF expiresIn = Nil THEN Nil ELSE now + expiresIn,
     status        |-> StatusWaiting,
     created_by    |-> user]

(* The generated id is fresh; an anonymous creator leaves no created_by. *)
BeginCreate(h, id, key, expiresIn, user) ==
    /\ id \notin issued
    /\ issued' = issued \cup {id}
    /\ Arrive(h, "Create",
              [NoRequest EXCEPT !.slug = id, !.key = key, !.user = user,
                                !.link = NewLink(key, expiresIn, user)])
    /\ UNCHANGED <<tables, now, loggers, history>>

InsertLink(h) ==
    LET id == req[h].slug IN
    /\ pc[h] = "Create"
    /\ \/ /\ ~CreateConflicts(id, req[h].link)
          /\ Create(id, req[h].link)
          /\ published' = published \cup {id}
       \/ /\ Failures \/ CreateConflicts(id, req[h].link)
          /\ UNCHANGED <<tables, published>>
    /\ Return(h)
    /\ UNCHANGED <<now, issued, loggers, delivered, deleted, lost>>

-----------------------------------------------------------------------------
(* DeleteLink: an authenticated request; the status is not looked at *)

BeginDelete(h, id, user) ==
    /\ Arrive(h, "GetForDelete", [NoRequest EXCEPT !.slug = id, !.user = user])
    /\ UNCHANGED <<tables, now, issued, loggers, history>>

GetForDelete(h) ==
    /\ pc[h] = "GetForDelete"
    /\ \/ Keep(h, "CheckOwner", links[req[h].slug])
       \/ Failures /\ Return(h)
    /\ UNCHANGED <<tables, now, issued, loggers, history>>

(* Faulty variant: any authenticated user may delete. *)
MayDeleteAny(user, link) == link # Nil

MayDelete(user, link) ==
    link # Nil /\ (link.created_by = Nil \/ link.created_by = user)

CheckOwner(h) ==
    /\ pc[h] = "CheckOwner"
    /\ \/ MayDelete(req[h].user, req[h].link) /\ Goto(h, "Delete")
       \/ ~MayDelete(req[h].user, req[h].link) /\ Return(h)
    /\ UNCHANGED <<tables, now, issued, loggers, history>>

DeleteLink(h) ==
    LET id == req[h].slug IN
    /\ pc[h] = "Delete"
    /\ \/ /\ Delete(id)
          /\ deleted' = deleted \cup {id}
          /\ Return(h)
       \/ WriteFails(h, Delete(id)) /\ UNCHANGED deleted
    /\ UNCHANGED <<now, issued, loggers, published, delivered, lost>>

-----------------------------------------------------------------------------
(* The environment *)

(* The five-minute ticker of cmd/api/main.go; a tick that finds nothing to *)
(* expire, or whose statement fails, changes nothing.                      *)
Janitor ==
    /\ \E id \in Links : Overdue(id, now)
    /\ InvalidateExpiredLinks(now)
    /\ UNCHANGED <<locals, history>>

Tick ==
    /\ now < MaxNow
    /\ now' = now + 1
    /\ UNCHANGED <<tables, pc, req, issued, loggers, history>>

(* The process dies with its goroutines and is started again. *)
Crash ==
    /\ Failures
    /\ pc' = [h \in Handlers |-> Idle]
    /\ req' = [h \in Handlers |-> NoRequest]
    /\ loggers' = {}
    /\ lost' = lost \cup {g[2] : g \in loggers}
    /\ UNCHANGED <<tables, now, issued, published, delivered, deleted>>

-----------------------------------------------------------------------------
(* Specification *)

HandlerStep(h) ==
    \/ GetBySlug(h) \/ CheckAccess(h) \/ UpdateExpired(h)
    \/ OpenLink(h) \/ UpdateOpened(h) \/ Respond(h)
    \/ InsertLink(h)
    \/ GetForDelete(h) \/ CheckOwner(h) \/ DeleteLink(h)

Arrival(h) ==
    \/ \E id \in Links, key \in Keys : BeginAccess(h, id, key)
    \/ \E id \in Links, key \in Keys, expiresIn \in ExpiresIn,
          user \in Users \cup {Nil} : BeginCreate(h, id, key, expiresIn, user)
    \/ \E id \in Links, user \in Users : BeginDelete(h, id, user)

Next ==
    \/ \E h \in Handlers : Arrival(h) \/ HandlerStep(h)
    \/ \E g \in Handlers \X Links : WriteAccessLog(g)
    \/ Janitor
    \/ Tick
    \/ Crash

Spec == Init /\ [][Next]_vars

(* Time passes, and the ticker keeps firing.  Nothing forces a request to  *)
(* arrive, or a call on the database that a handler waits for to return.   *)
Fairness == WF_vars(Janitor) /\ WF_vars(Tick)

FairSpec == Spec /\ Fairness
-----------------------------------------------------------------------------
(* Safety *)

(* A request that arrives when its link was already delivered, deleted or  *)
(* past its expiry never gets the secret, however the steps of AccessLink, *)
(* DeleteLink, the janitor and stale writes of older requests interleave.  *)
NoLateDelivery ==
    \A h \in Handlers :
        pc[h] \in {"UpdateOpened", "Respond"} => ~req[h].late

(* An acknowledged deletion is final: neither a handler that still holds a *)
(* copy of the row and writes it back with Update, nor a late insert,      *)
(* brings the link back.                                                   *)
DeletedStaysDeleted == \A id \in deleted : ~Exists(id)

(* Update writes back whole copies, old ones too.  The text still agrees   *)
(* with the status: a link that waits has its text, an opened one has not. *)
TextMatchesStatus ==
    \A id \in Links : Exists(id) =>
        /\ links[id].status = StatusWaiting => links[id].ciphered_text = Secret
        /\ links[id].status = StatusOpened  => links[id].ciphered_text = Erased

(* No response of AccessLink carries the erased text of a link that        *)
(* another request opened first.                                           *)
NeverServesErased ==
    \A h \in Handlers : pc[h] = "Respond" => req[h].text = Secret

(* The audit trail holds no invention: a link with an access log is no     *)
(* longer waiting, although the log is written by a goroutine of its own.  *)
AuditSound ==
    \A id \in logs : Exists(id) /\ links[id].status # StatusWaiting

(* README.md:3 and :19, a full audit trail.  A delivered link has its      *)
(* access log, unless it was deleted, the goroutine is still running, or   *)
(* it failed or died: no other order of writes, deletions and insertions   *)
(* loses it, nor the UNIQUE link_id that two deliveries compete for.       *)
Accounted(id) ==
    \/ id \in logs \cup lost
    \/ ~Exists(id)
    \/ \E g \in loggers : g[2] = id

AuditComplete == \A id \in Links : delivered[id] > 0 => Accounted(id)

(* The handlers that can still deliver id: they read it while it waited. *)
Holds(h, id) ==
    /\ req[h].slug = id
    /\ \/ pc[h] \in {"CanAccess", "Open"} /\ req[h].link # Nil
                /\ req[h].link.status = StatusWaiting
       \/ pc[h] \in {"UpdateOpened", "Respond"}

Holders(id) == {h \in Handlers : Holds(h, id)}

(* Deliveries of one secret never outnumber the requests that overlapped   *)
(* its first opening: after that one, no handler can join them.            *)
DeliveriesOverlap ==
    \A id \in Links : delivered[id] + Cardinality(Holders(id))
                          <= Cardinality(Handlers)

Accessible(id) == Exists(id) /\ CanAccess(links[id], now)

Opens(h, id) ==
    /\ pc[h] = "UpdateOpened"
    /\ req[h].slug = id
    /\ req[h].key = links[id].hashed_key

Deletes(h, id) ==
    /\ pc[h] = "Delete"
    /\ req[h].slug = id
    /\ links[id].created_by \in {Nil, req[h].user}

(* A row is only removed by a delete request, of its creator if it has one,*)
(* and a link that can be accessed only stops being so by such a request,  *)
(* by one that brought its key, or because its time is over: the owner,    *)
(* the key and the expiry are checked on copies, copies are written back,  *)
(* and the janitor's statement looks at another clock than the requests.   *)
EndsForCause ==
    [][\A id \in Links :
          /\ Exists(id) /\ ~Exists(id)' => \E h \in Handlers : Deletes(h, id)
          /\ Accessible(id) /\ ~Accessible(id)' =>
                \/ IsExpired(links[id], now')
                \/ \E h \in Handlers : Opens(h, id) \/ Deletes(h, id)]_vars

-----------------------------------------------------------------------------
(* The inductive invariant behind the safety properties *)

(* A handler past its arrival has a slug, one that acts on a row has one. *)
LocalsOK ==
    \A h \in Handlers :
        /\ pc[h] # Idle => req[h].slug \in Links
        /\ pc[h] \in {"Open", "UpdateOpened", "UpdateExpired", "Create", "Delete"}
              => req[h].link # Nil

(* No request can open the link any more. *)
Closed(id) ==
    id \in published /\ (Exists(id) => links[id].status # StatusWaiting)
Dead(id) ==
    id \in published /\ (Exists(id) => ~CanAccess(links[id], now))

(* A row is inserted once, by the handler that generated its id. *)
BornOnce ==
    /\ published \subseteq issued
    /\ \A id \in Links : Exists(id) => id \in published
    /\ deleted \subseteq published
    /\ \A h \in Handlers : pc[h] = "Create" =>
          /\ req[h].slug \in issued \ published
          /\ req[h].link.status = StatusWaiting
          /\ req[h].link.ciphered_text = Secret
          /\ \A other \in Handlers \ {h} :
                pc[other] = "Create" => req[other].slug # req[h].slug

(* A copy agrees with the row, while that lasts, on what never changes. *)
CopyCurrent(h) ==
    (pc[h] \in AccessPCs \cup DeletePCs /\ req[h].link # Nil) =>
        /\ req[h].slug \in published
        /\ Exists(req[h].slug) =>
              /\ links[req[h].slug].expires_at = req[h].link.expires_at
              /\ links[req[h].slug].created_by = req[h].link.created_by
              /\ links[req[h].slug].hashed_key = req[h].link.hashed_key

(* What the handler's copy holds at each call of AccessLink. *)
CopyFits(h) ==
    /\ (pc[h] \in {"CanAccess", "Open"} /\ req[h].link # Nil
           /\ req[h].link.status = StatusWaiting) =>
              req[h].link.ciphered_text = Secret
    /\ pc[h] = "Open" => req[h].link.status = StatusWaiting
    /\ pc[h] = "UpdateOpened" =>
          /\ req[h].link.status = StatusOpened
          /\ req[h].link.ciphered_text = Erased
          /\ req[h].text = Secret
    /\ pc[h] \in {"Open", "UpdateOpened"} => req[h].link.hashed_key = req[h].key
    /\ pc[h] = "UpdateExpired" =>
          req[h].link.status = StatusExpired /\ IsExpired(req[h].link, now)
    /\ pc[h] = "Respond" => req[h].text = Secret /\ Closed(req[h].slug)

(* A late request meets a dead row, or a dead copy of it. *)
LateRefused(h) ==
    (pc[h] # Idle /\ req[h].late) =>
        /\ pc[h] \in {"GetBySlug", "CanAccess", "UpdateExpired"}
        /\ pc[h] = "GetBySlug" => Dead(req[h].slug)
        /\ pc[h] = "CanAccess" =>
              req[h].link = Nil \/ ~CanAccess(req[h].link, now)

SpentForGood ==
    /\ \A id \in Links : delivered[id] > 0 => Closed(id)
    /\ \A g \in loggers : Closed(g[2])

IInv ==
    /\ TypeOK /\ LocalsOK
    /\ BornOnce /\ SpentForGood
    /\ \A h \in Handlers : CopyCurrent(h) /\ CopyFits(h) /\ LateRefused(h)
    /\ TextMatchesStatus /\ DeletedStaysDeleted /\ AuditSound

(* AuditComplete is not inductive either: a response is accounted for      *)
(* before it leaves.                                                       *)
AuditInv ==
    /\ IInv
    /\ AuditComplete
    /\ \A h \in Handlers : pc[h] = "Respond" => Accounted(req[h].slug)

-----------------------------------------------------------------------------
(* Refinement: the service implements OneTimeSecret *)

SecretPhase ==
    [id \in Links |-> IF id \notin published THEN "unborn"
                      ELSE IF Exists(id) /\ links[id].status = StatusWaiting
                      THEN "open" ELSE "closed"]
SecretReaders == [id \in Links |-> Holders(id)]

Secrets == INSTANCE OneTimeSecret WITH
    phase <- SecretPhase, readers <- SecretReaders

(* Every behaviour of AccessLink, CreateLink, DeleteLink and the janitor   *)
(* maps to publishing, taking, closing and delivering secrets.             *)
ImplementsOneTimeSecret == Secrets!ASpec

-----------------------------------------------------------------------------
(* Liveness *)

(* The janitor or a request marks a link whose time runs out, whatever     *)
(* stale copies are written back meanwhile.                                *)
ExpiryEnforced ==
    \A id \in Links :
        (Exists(id) /\ links[id].expires_at # Nil /\ links[id].expires_at < MaxNow)
            ~> (Exists(id) => links[id].status # StatusWaiting)

-----------------------------------------------------------------------------
(* What the documentation says of the links *)

(* README.md:37: "Links are single-use and immediately invalidated." *)
SingleUse == \A id \in Links : delivered[id] <= 1

(* ViewSecretScreen.tsx:114-115: once viewed, the content is destroyed     *)
(* for good.                                                               *)
ErasedOnceServed ==
    \A id \in Links : delivered[id] > 0 /\ Exists(id) =>
        links[id].ciphered_text = Erased
===========================================================================
