------------------------ MODULE LinkServiceProofs ------------------------
(* Proofs of the safety of LinkService, for any links, keys, users and     *)
(* handlers, with failures and crashes or without.                         *)
EXTENDS LinkService, TLAPS

USE DEF Idle, AccessPCs, CreatePCs, DeletePCs

-----------------------------------------------------------------------------
(* Types *)

TypeInv == TypeOK /\ LocalsOK

(* The empty request is a request. *)
LEMMA NoRequestType == NoRequest \in Request
  BY DEF NoRequest, Request

(* What Open and Invalidate make of a link is a link. *)
LEMMA LinkTypes ==
  ASSUME NEW link \in Link
  PROVE  /\ Opened(link) \in Link
         /\ Invalidated(link) \in Link
         /\ link # Nil
  BY NilAssumption DEF Opened, Invalidated, Link, LinkStatus,
     StatusOpened, StatusExpired, Erased

(* Update keeps the table of rows well typed. *)
LEMMA UpdateType ==
  ASSUME links \in LinkRows, NEW id \in Links, NEW link \in Link,
         Update(id, link)
  PROVE  links' \in LinkRows /\ logs' = logs
<1>1. [link EXCEPT !.created_by = links[id].created_by] \in Link
      \/ links[id] = Nil
  BY DEF LinkRows, Link
<1>2. QED
  BY <1>1 DEF Update, LinkRows

(* A row that exists is a link. *)
LEMMA RowType ==
  ASSUME TypeOK, NEW id \in Links, links[id] # Nil
  PROVE  links[id] \in Link
  BY DEF TypeOK, LinkRows

(* The fields of a handler's locals have their types. *)
LEMMA RequestTypes ==
  ASSUME TypeOK, NEW h \in Handlers
  PROVE  /\ req[h] \in Request
         /\ req[h].slug \in Links \cup {Nil}
         /\ req[h].link # Nil => req[h].link \in Link
  BY DEF TypeOK, Request

(* The moves of a handler keep the types of its locals. *)
LEMMA KeepType ==
  ASSUME TypeOK, NEW h \in Handlers, NEW call \in PCs,
         NEW link \in Link \cup {Nil}, Keep(h, call, link)
  PROVE  /\ pc' \in [Handlers -> PCs]
         /\ req' \in [Handlers -> Request]
         /\ pc'[h] = call /\ req'[h].slug = req[h].slug /\ req'[h].link = link
         /\ \A other \in Handlers \ {h} :
               pc'[other] = pc[other] /\ req'[other] = req[other]
<1>1. [req[h] EXCEPT !.link = link] \in Request
  BY RequestTypes DEF Request
<1>2. req' = [req EXCEPT ![h] = [req[h] EXCEPT !.link = link]]
  BY DEF Keep, TypeOK
<1>3. QED
  BY <1>1, <1>2 DEF Keep, TypeOK, Request

(* Goto keeps the types and moves one handler. *)
LEMMA GotoType ==
  ASSUME TypeOK, NEW h \in Handlers, NEW call \in PCs, Goto(h, call)
  PROVE  /\ pc' \in [Handlers -> PCs] /\ req' = req
         /\ pc'[h] = call
         /\ \A other \in Handlers \ {h} : pc'[other] = pc[other]
  BY DEF Goto, TypeOK

(* Return keeps the types and empties the locals of one handler. *)
LEMMA ReturnType ==
  ASSUME TypeOK, NEW h \in Handlers, Return(h)
  PROVE  /\ pc' \in [Handlers -> PCs]
         /\ req' \in [Handlers -> Request]
         /\ pc'[h] = Idle
         /\ \A other \in Handlers \ {h} :
               pc'[other] = pc[other] /\ req'[other] = req[other]
  BY NoRequestType DEF Return, TypeOK, PCs

(* Arrive keeps the types and fills the locals of one handler. *)
LEMMA ArriveType ==
  ASSUME TypeOK, NEW h \in Handlers, NEW call \in PCs, NEW r \in Request,
         Arrive(h, call, r)
  PROVE  /\ pc' \in [Handlers -> PCs]
         /\ req' \in [Handlers -> Request]
         /\ pc'[h] = call /\ req'[h] = r
         /\ \A other \in Handlers \ {h} :
               pc'[other] = pc[other] /\ req'[other] = req[other]
  BY DEF Arrive, TypeOK

(* The initial state is well typed. *)
LEMMA TypeInit == Init => TypeInv
  BY MaxNowAssumption, NoRequestType
     DEF Init, TypeInv, TypeOK, LocalsOK, RepositoryInit, LinkRows, PCs

(* Every step of LinkService keeps the types. *)
LEMMA TypeNext == TypeInv /\ [Next]_vars => TypeInv'
<1> SUFFICES ASSUME TypeInv, [Next]_vars PROVE TypeInv'
  OBVIOUS
<1> USE DEF TypeInv
<1>1. ASSUME NEW h \in Handlers, NEW id \in Links, NEW key \in Keys,
             BeginAccess(h, id, key)
      PROVE  TypeInv'
  <2> DEFINE r == [NoRequest EXCEPT !.slug = id, !.key = key, !.late = Spent(id)]
  <2>1. Spent(id) \in BOOLEAN
    BY DEF Spent
  <2>2. r \in Request /\ r.slug = id
    BY <2>1 DEF Request, NoRequest
  <2>3. Arrive(h, "GetBySlug", r)
    BY <1>1 DEF BeginAccess
  <2> HIDE DEF r
  <2>4. QED
    BY <1>1, <2>2, <2>3, ArriveType
       DEF BeginAccess, TypeOK, LocalsOK, PCs, tables, history
<1>2. ASSUME NEW h \in Handlers, GetBySlug(h)
      PROVE  TypeInv'
  <2>1. req[h].slug \in Links /\ links[req[h].slug] \in Link \cup {Nil}
    BY <1>2 DEF GetBySlug, LocalsOK, TypeOK, LinkRows
  <2>2. CASE Keep(h, "CanAccess", links[req[h].slug])
    BY <1>2, <2>1, <2>2, KeepType
       DEF GetBySlug, TypeOK, LocalsOK, PCs, tables, history
  <2>3. CASE Return(h)
    BY <1>2, <2>3, ReturnType
       DEF GetBySlug, TypeOK, LocalsOK, PCs, tables, history
  <2>4. QED
    BY <1>2, <2>2, <2>3 DEF GetBySlug
<1>3. ASSUME NEW h \in Handlers, CheckAccess(h)
      PROVE  TypeInv'
  <2> DEFINE link == req[h].link
  <2>1. CASE Granted(link, req[h].key) /\ Goto(h, "Open")
    BY <1>3, <2>1, GotoType
       DEF CheckAccess, Granted, TypeOK, LocalsOK, PCs, tables, history
  <2>2. CASE ExpiresLazily(link) /\ Keep(h, "UpdateExpired", Invalidated(link))
    <3> DEFINE expired == Invalidated(link)
    <3>1. expired \in Link /\ expired # Nil
      BY <2>2, RequestTypes, LinkTypes DEF ExpiresLazily
    <3>2. Keep(h, "UpdateExpired", expired)
      BY <2>2
    <3> HIDE DEF expired
    <3>3. /\ pc' \in [Handlers -> PCs] /\ req' \in [Handlers -> Request]
          /\ pc'[h] = "UpdateExpired" /\ req'[h].slug = req[h].slug
          /\ req'[h].link = expired
          /\ \A other \in Handlers \ {h} :
                pc'[other] = pc[other] /\ req'[other] = req[other]
      BY <3>1, <3>2, KeepType DEF PCs
    <3>4. QED
      BY <1>3, <3>1, <3>3 DEF CheckAccess, TypeOK, LocalsOK, tables, history
  <2>3. CASE Return(h)
    BY <1>3, <2>3, ReturnType
       DEF CheckAccess, TypeOK, LocalsOK, PCs, tables, history
  <2>4. QED
    BY <1>3, <2>1, <2>2, <2>3 DEF CheckAccess
<1>4. ASSUME NEW h \in Handlers, UpdateExpired(h)
      PROVE  TypeInv'
  <2>1. links' \in LinkRows /\ logs' = logs
    BY <1>4, RequestTypes, UpdateType
       DEF UpdateExpired, LocalsOK, TypeOK, tables
  <2>2. QED
    BY <1>4, <2>1, ReturnType
       DEF UpdateExpired, TypeOK, LocalsOK, PCs, history
<1>5. ASSUME NEW h \in Handlers, OpenLink(h)
      PROVE  TypeInv'
  <2> DEFINE link == req[h].link
             r == [req[h] EXCEPT !.link = Opened(link), !.text = link.ciphered_text]
  <2>1. CASE /\ pc' = [pc EXCEPT ![h] = "UpdateOpened"]
             /\ req' = [req EXCEPT ![h].link = Opened(link),
                                   ![h].text = link.ciphered_text]
    <3>1. link \in Link
      BY <1>5, RequestTypes DEF OpenLink, LocalsOK
    <3>2. Opened(link) \in Link /\ link.ciphered_text \in {Secret, Erased}
      BY <3>1, LinkTypes DEF Link
    <3>3. r \in Request /\ r.slug = req[h].slug /\ r.link = Opened(link)
      BY <3>2 DEF Request, TypeOK
    <3>4. req' = [req EXCEPT ![h] = r]
      BY <2>1 DEF TypeOK
    <3>5. Opened(link) # Nil
      BY <3>2, LinkTypes
    <3> HIDE DEF r
    <3>6. QED
      BY <1>5, <2>1, <3>3, <3>4, <3>5
         DEF OpenLink, TypeOK, LocalsOK, PCs, tables, history
  <2>2. CASE Return(h)
    BY <1>5, <2>2, ReturnType
       DEF OpenLink, TypeOK, LocalsOK, PCs, tables, history
  <2>3. QED
    BY <1>5, <2>1, <2>2 DEF OpenLink
<1>6. ASSUME NEW h \in Handlers, UpdateOpened(h)
      PROVE  TypeInv'
  <2>1. req[h].slug \in Links /\ links' \in LinkRows /\ logs' = logs
    BY <1>6, RequestTypes, UpdateType
       DEF UpdateOpened, WriteFails, LocalsOK, TypeOK, tables
  <2>2. CASE Goto(h, "Respond") /\ loggers' = loggers \cup {<<h, req[h].slug>>}
    BY <1>6, <2>1, <2>2, GotoType
       DEF UpdateOpened, TypeOK, LocalsOK, PCs, history
  <2>3. CASE Return(h) /\ UNCHANGED loggers
    BY <1>6, <2>1, <2>3, ReturnType
       DEF UpdateOpened, TypeOK, LocalsOK, PCs, history
  <2>4. QED
    BY <1>6, <2>2, <2>3 DEF UpdateOpened, WriteFails
<1>7. ASSUME NEW h \in Handlers, Respond(h)
      PROVE  TypeInv'
  <2>1. delivered' \in [Links -> Nat]
    BY <1>7 DEF Respond, TypeOK
  <2>2. QED
    BY <1>7, <2>1, ReturnType DEF Respond, TypeOK, LocalsOK, PCs, tables
<1>8. ASSUME NEW g \in Handlers \X Links, WriteAccessLog(g)
      PROVE  TypeInv'
  <2>1. g[2] \in Links
    OBVIOUS
  <2>2. links' = links /\ logs' \subseteq Links
    BY <1>8, <2>1 DEF WriteAccessLog, CreateAccessLog, TypeOK, tables
  <2>3. QED
    BY <1>8, <2>2 DEF WriteAccessLog, TypeOK, LocalsOK, PCs, history
<1>9. ASSUME NEW h \in Handlers, NEW id \in Links, NEW key \in Keys,
             NEW expiresIn \in ExpiresIn, NEW user \in Users \cup {Nil},
             BeginCreate(h, id, key, expiresIn, user)
      PROVE  TypeInv'
  <2> DEFINE link == NewLink(key, expiresIn, user)
             r == [NoRequest EXCEPT !.slug = id, !.key = key, !.user = user,
                                    !.link = link]
  <2>1. link \in Link
    BY ExpiresInAssumption DEF NewLink, Link, LinkStatus, StatusWaiting, TypeOK
  <2>2. link # Nil
    BY <2>1, LinkTypes
  <2>3. r \in Request /\ r.slug = id /\ r.link = link
    BY <2>1 DEF Request, NoRequest
  <2>4. Arrive(h, "Create", r)
    BY <1>9 DEF BeginCreate
  <2> HIDE DEF r, link
  <2>5. QED
    BY <1>9, <2>2, <2>3, <2>4, ArriveType
       DEF BeginCreate, TypeOK, LocalsOK, PCs, tables, history
<1>10. ASSUME NEW h \in Handlers, InsertLink(h)
       PROVE  TypeInv'
  <2>1. req[h].slug \in Links /\ req[h].link \in Link
    BY <1>10, RequestTypes DEF InsertLink, LocalsOK
  <2>2. links' \in LinkRows /\ logs' = logs /\ published' \subseteq Links
    BY <1>10, <2>1 DEF InsertLink, Create, TypeOK, LinkRows, tables
  <2>3. QED
    BY <1>10, <2>2, ReturnType DEF InsertLink, TypeOK, LocalsOK, PCs
<1>11. ASSUME NEW h \in Handlers, NEW id \in Links, NEW user \in Users,
              BeginDelete(h, id, user)
       PROVE  TypeInv'
  <2> DEFINE r == [NoRequest EXCEPT !.slug = id, !.user = user]
  <2>1. r \in Request /\ r.slug = id
    BY DEF Request, NoRequest
  <2>2. Arrive(h, "GetForDelete", r)
    BY <1>11 DEF BeginDelete
  <2> HIDE DEF r
  <2>3. QED
    BY <1>11, <2>1, <2>2, ArriveType
       DEF BeginDelete, TypeOK, LocalsOK, PCs, tables, history
<1>12. ASSUME NEW h \in Handlers, GetForDelete(h)
       PROVE  TypeInv'
  <2>1. req[h].slug \in Links /\ links[req[h].slug] \in Link \cup {Nil}
    BY <1>12 DEF GetForDelete, LocalsOK, TypeOK, LinkRows
  <2>2. CASE Keep(h, "CheckOwner", links[req[h].slug])
    BY <1>12, <2>1, <2>2, KeepType
       DEF GetForDelete, TypeOK, LocalsOK, PCs, tables, history
  <2>3. CASE Return(h)
    BY <1>12, <2>3, ReturnType
       DEF GetForDelete, TypeOK, LocalsOK, PCs, tables, history
  <2>4. QED
    BY <1>12, <2>2, <2>3 DEF GetForDelete
<1>13. ASSUME NEW h \in Handlers, CheckOwner(h)
       PROVE  TypeInv'
  <2>1. CASE MayDelete(req[h].user, req[h].link) /\ Goto(h, "Delete")
    BY <1>13, <2>1, GotoType
       DEF CheckOwner, MayDelete, TypeOK, LocalsOK, PCs, tables, history
  <2>2. CASE Return(h)
    BY <1>13, <2>2, ReturnType
       DEF CheckOwner, TypeOK, LocalsOK, PCs, tables, history
  <2>3. QED
    BY <1>13, <2>1, <2>2 DEF CheckOwner
<1>14. ASSUME NEW h \in Handlers, DeleteLink(h)
       PROVE  TypeInv'
  <2>1. req[h].slug \in Links
    BY <1>14 DEF DeleteLink, LocalsOK
  <2>2. Return(h) /\ deleted' \subseteq Links
    BY <1>14, <2>1 DEF DeleteLink, WriteFails, TypeOK
  <2>3. links' \in LinkRows /\ logs' \subseteq Links
    BY <1>14, <2>1 DEF DeleteLink, WriteFails, Delete, TypeOK, LinkRows, tables
  <2>4. QED
    BY <1>14, <2>2, <2>3, ReturnType DEF DeleteLink, TypeOK, LocalsOK, PCs
<1>15. CASE Janitor
  <2>1. links' \in LinkRows /\ logs' = logs
    BY <1>15, LinkTypes
       DEF Janitor, InvalidateExpiredLinks, Overdue, Exists, TypeOK, LinkRows
  <2>2. QED
    BY <1>15, <2>1 DEF Janitor, TypeOK, LocalsOK, PCs, locals, history
<1>16. CASE Tick
  <2>1. now' \in 0..MaxNow
    BY <1>16, MaxNowAssumption DEF Tick, TypeOK
  <2>2. QED
    BY <1>16, <2>1 DEF Tick, TypeOK, LocalsOK, PCs, tables, history
<1>17. CASE Crash
  BY <1>17, NoRequestType DEF Crash, TypeOK, LocalsOK, PCs, tables, history
<1>18. CASE UNCHANGED vars
  BY <1>18 DEF vars, tables, locals, history, TypeOK, LocalsOK
<1>19. QED
  BY <1>1, <1>2, <1>3, <1>4, <1>5, <1>6, <1>7, <1>8, <1>9, <1>10, <1>11,
     <1>12, <1>13, <1>14, <1>15, <1>16, <1>17, <1>18
     DEF Next, Arrival, HandlerStep

(* The tables, the requests and the history keep their types at every step *)
(* of every handler, goroutine, janitor and crash of LinkService.          *)
THEOREM TypeCorrect == Spec => []TypeOK
<1>1. Init => TypeInv
  BY TypeInit
<1>2. TypeInv /\ [Next]_vars => TypeInv'
  BY TypeNext
<1>3. TypeInv => TypeOK
  BY DEF TypeInv
<1>4. QED
  BY <1>1, <1>2, <1>3, PTL DEF Spec

-----------------------------------------------------------------------------
(* How a row may change in one step *)

(* A row that was once inserted is never inserted again, keeps the columns *)
(* no one may change, and never waits again once it stopped waiting.       *)
Evolves ==
    /\ published \subseteq published'
    /\ now' \in Int /\ now <= now'
    /\ \A id \in published : Exists(id)' =>
          /\ Exists(id)
          /\ links'[id].expires_at = links[id].expires_at
          /\ links'[id].created_by = links[id].created_by
          /\ links'[id].hashed_key = links[id].hashed_key
          /\ links[id].status # StatusWaiting =>
                links'[id].status # StatusWaiting

(* What Update leaves in the rows: only its own, and never its creator. *)
LEMMA UpdateEffect ==
  ASSUME TypeOK, NEW id \in Links, NEW link \in Link, Update(id, link)
  PROVE  /\ logs' = logs
         /\ \A other \in Links \ {id} : links'[other] = links[other]
         /\ ~Exists(id) => links'[id] = Nil
         /\ Exists(id) => /\ links'[id].status = link.status
                          /\ links'[id].ciphered_text = link.ciphered_text
                          /\ links'[id].expires_at = link.expires_at
                          /\ links'[id].hashed_key = link.hashed_key
                          /\ links'[id].created_by = links[id].created_by
  BY DEF Update, TypeOK, LinkRows, Link, Exists

(* What the janitor's statement leaves in the rows. *)
LEMMA JanitorEffect ==
  ASSUME TypeOK, InvalidateExpiredLinks(now)
  PROVE  /\ logs' = logs
         /\ \A id \in Links : ~Exists(id) => links'[id] = Nil
         /\ \A id \in Links : Exists(id) =>
              /\ links'[id].expires_at = links[id].expires_at
              /\ links'[id].created_by = links[id].created_by
              /\ links'[id].hashed_key = links[id].hashed_key
              /\ links'[id].ciphered_text = links[id].ciphered_text
              /\ links'[id].status = links[id].status
                   \/ links'[id].status = StatusExpired
<1>1. logs' = logs
  BY DEF InvalidateExpiredLinks
<1>2. ASSUME NEW id \in Links, ~Exists(id)
      PROVE  links'[id] = Nil
  BY <1>2 DEF InvalidateExpiredLinks, Overdue, Exists
<1>3. ASSUME NEW id \in Links, Exists(id)
      PROVE  /\ links'[id].expires_at = links[id].expires_at
             /\ links'[id].created_by = links[id].created_by
             /\ links'[id].hashed_key = links[id].hashed_key
             /\ links'[id].ciphered_text = links[id].ciphered_text
             /\ links'[id].status = links[id].status
                   \/ links'[id].status = StatusExpired
  <2>1. links[id] \in Link
    BY <1>3, RowType DEF Exists
  <2>2. links'[id] = links[id] \/ links'[id] = Invalidated(links[id])
    BY DEF InvalidateExpiredLinks
  <2>3. QED
    BY <2>1, <2>2 DEF Invalidated, Link
<1>4. QED
  BY <1>1, <1>2, <1>3

(* The write of AccessLink at either of its two updates. *)
LEMMA UpdateEvolves ==
  ASSUME IInv, NEW h \in Handlers, pc[h] \in {"UpdateOpened", "UpdateExpired"},
         Update(req[h].slug, req[h].link), published' = published, now' = now
  PROVE  Evolves
<1> DEFINE id == req[h].slug
           link == req[h].link
<1>1. id \in Links /\ link \in Link /\ TypeOK
  BY RequestTypes DEF IInv, LocalsOK
<1>2. link.status # StatusWaiting
  BY DEF IInv, CopyFits, StatusWaiting, StatusOpened, StatusExpired
<1>3. Exists(id) => /\ links[id].expires_at = link.expires_at
                    /\ links[id].hashed_key = link.hashed_key
  BY <1>1, NilAssumption DEF IInv, CopyCurrent
<1>4. now \in Int /\ published \subseteq Links
  BY <1>1 DEF TypeOK
<1> HIDE DEF id, link
<1>5. Update(id, link)
  BY DEF id, link
<1>6. QED
  BY <1>1, <1>2, <1>3, <1>4, <1>5, UpdateEffect DEF Evolves, Exists

(* Rows that do not change evolve lawfully. *)
LEMMA UnchangedEvolves ==
  ASSUME TypeOK, links' = links, published \subseteq published',
         now' \in Int, now <= now'
  PROVE  Evolves
  BY DEF Evolves, Exists

(* Every step of LinkService changes the rows only as Evolves says. *)
LEMMA EvolvesNext == IInv /\ [Next]_vars => Evolves
<1> SUFFICES ASSUME IInv, [Next]_vars PROVE Evolves
  OBVIOUS
<1>0. TypeOK /\ now \in Int /\ MaxNow \in Int
  BY MaxNowAssumption DEF IInv, TypeOK
<1>1. ASSUME NEW h \in Handlers, UpdateExpired(h)
      PROVE  Evolves
  <2>1. CASE Update(req[h].slug, req[h].link)
    BY <1>1, <2>1, UpdateEvolves DEF UpdateExpired, history
  <2>2. CASE UNCHANGED tables
    BY <1>0, <1>1, <2>2, UnchangedEvolves DEF UpdateExpired, history, tables
  <2>3. QED
    BY <1>1, <2>1, <2>2 DEF UpdateExpired
<1>2. ASSUME NEW h \in Handlers, UpdateOpened(h)
      PROVE  Evolves
  <2>1. CASE Update(req[h].slug, req[h].link)
    BY <1>2, <2>1, UpdateEvolves DEF UpdateOpened, history
  <2>2. CASE UNCHANGED tables
    BY <1>0, <1>2, <2>2, UnchangedEvolves DEF UpdateOpened, history, tables
  <2>3. QED
    BY <1>2, <2>1, <2>2 DEF UpdateOpened, WriteFails
<1>3. ASSUME NEW h \in Handlers, InsertLink(h)
      PROVE  Evolves
  <2>1. req[h].slug \notin published
    BY <1>3 DEF InsertLink, IInv, BornOnce
  <2>2. QED
    BY <1>0, <1>3, <2>1
       DEF InsertLink, Create, Evolves, Exists, TypeOK, LinkRows, tables
<1>4. ASSUME NEW h \in Handlers, DeleteLink(h)
      PROVE  Evolves
  BY <1>0, <1>4
     DEF DeleteLink, WriteFails, Delete, Evolves, Exists, TypeOK, LinkRows, tables
<1>5. CASE Janitor
  <2>1. published \subseteq Links
    BY <1>0 DEF TypeOK
  <2>2. QED
    BY <1>0, <1>5, <2>1, JanitorEffect
       DEF Janitor, Evolves, Exists, locals, history, StatusWaiting, StatusExpired
<1>6. CASE UNCHANGED <<links, published, now>>
  BY <1>0, <1>6, UnchangedEvolves
<1>7. CASE Tick
  BY <1>0, <1>7, UnchangedEvolves DEF Tick, tables, history
<1>8. QED
  BY <1>1, <1>2, <1>3, <1>4, <1>5, <1>6, <1>7
     DEF Next, Arrival, HandlerStep, BeginAccess, GetBySlug, CheckAccess,
         OpenLink, Respond, WriteAccessLog, CreateAccessLog, BeginCreate,
         BeginDelete, GetForDelete, CheckOwner, Crash, vars, tables, locals,
         history

(* A closed link stays closed. *)
LEMMA ClosedStable ==
  ASSUME Evolves, NEW id, Closed(id)
  PROVE  Closed(id)'
  BY DEF Evolves, Closed, Exists

(* A dead link stays dead: no stale write makes it accessible again. *)
LEMMA DeadStable ==
  ASSUME TypeOK, Evolves, NEW id \in Links, Dead(id)
  PROVE  Dead(id)'
<1>1. id \in published /\ id \in published'
  BY DEF Dead, Evolves
<1>2. ASSUME Exists(id)'
      PROVE  ~CanAccess(links[id], now)'
  <2>1. /\ Exists(id) /\ ~CanAccess(links[id], now)
        /\ links'[id].expires_at = links[id].expires_at
        /\ links[id].status # StatusWaiting => links'[id].status # StatusWaiting
    BY <1>1, <1>2 DEF Dead, Evolves
  <2>2. links[id].expires_at \in Int \cup {Nil}
    BY <2>1, RowType DEF Link, Exists
  <2>3. now \in Int /\ now' \in Int /\ now <= now'
    BY DEF Evolves, TypeOK
  <2>4. QED
    BY <2>1, <2>2, <2>3 DEF CanAccess, IsExpired
<1>3. QED
  BY <1>1, <1>2 DEF Dead

-----------------------------------------------------------------------------
(* The inductive step *)

LocalInv(h) == CopyCurrent(h) /\ CopyFits(h) /\ LateRefused(h)

(* A handler whose locals do not move keeps its part of the invariant,     *)
(* whatever the others, the janitor and the clock do to the row.           *)
LEMMA LocalInvStable ==
  ASSUME IInv, Evolves, NEW h \in Handlers,
         pc'[h] = pc[h], req'[h] = req[h]
  PROVE  LocalInv(h)'
<1>1. TypeOK /\ CopyCurrent(h) /\ CopyFits(h) /\ LateRefused(h)
  BY DEF IInv
<1>2. pc[h] # Idle => req[h].slug \in Links
  BY DEF IInv, LocalsOK
<1>3. CopyCurrent(h)'
  BY <1>1 DEF CopyCurrent, Evolves, Exists
<1>4. CopyFits(h)'
  <2>1. ASSUME pc[h] = "UpdateExpired"
        PROVE  IsExpired(req[h].link, now')
    <3>1. IsExpired(req[h].link, now) /\ req[h].link # Nil
      BY <1>1, <2>1 DEF CopyFits, IInv, LocalsOK
    <3>2. req[h].link.expires_at \in Int \cup {Nil}
      BY <1>1, <3>1, RequestTypes DEF Link
    <3>3. now \in Int /\ now' \in Int /\ now <= now'
      BY <1>1 DEF Evolves, TypeOK
    <3>4. QED
      BY <3>1, <3>2, <3>3 DEF IsExpired
  <2>2. QED
    BY <1>1, <2>1, ClosedStable DEF CopyFits
<1>5. LateRefused(h)'
  <2> SUFFICES ASSUME pc[h] # Idle, req[h].late PROVE LateRefused(h)'
    BY DEF LateRefused
  <2>1. pc[h] = "GetBySlug" => Dead(req[h].slug)'
    BY <1>1, <1>2, DeadStable DEF LateRefused
  <2>2. ASSUME pc[h] = "CanAccess", req[h].link # Nil
        PROVE  ~CanAccess(req[h].link, now')
    <3>1. ~CanAccess(req[h].link, now)
      BY <1>1, <2>2 DEF LateRefused
    <3>2. req[h].link.expires_at \in Int \cup {Nil}
      BY <1>1, <2>2, RequestTypes DEF Link
    <3>3. now \in Int /\ now' \in Int /\ now <= now'
      BY <1>1 DEF Evolves, TypeOK
    <3>4. QED
      BY <3>1, <3>2, <3>3 DEF CanAccess, IsExpired
  <2>3. QED
    BY <1>1, <2>1, <2>2 DEF LateRefused
<1>6. QED
  BY <1>3, <1>4, <1>5 DEF LocalInv

(* Nothing is required of an idle handler. *)
LEMMA IdleInv ==
  ASSUME NEW h \in Handlers, pc'[h] = Idle
  PROVE  LocalInv(h)'
  BY DEF LocalInv, CopyCurrent, CopyFits, LateRefused

(* The invariant of the tables and the history, when only handlers move. *)
LEMMA TablesInvStable ==
  ASSUME IInv, Evolves, UNCHANGED <<tables, delivered, deleted>>,
         loggers' \subseteq loggers
  PROVE  SpentForGood' /\ TextMatchesStatus' /\ DeletedStaysDeleted' /\ AuditSound'
<1>1. SpentForGood'
  BY ClosedStable DEF IInv, SpentForGood
<1>2. TextMatchesStatus' /\ DeletedStaysDeleted' /\ AuditSound'
  BY DEF IInv, TextMatchesStatus, DeletedStaysDeleted, AuditSound, Exists, tables
<1>3. QED
  BY <1>1, <1>2

(* No id is inserted, and no handler joins those that are about to insert. *)
LEMMA BornOnceStable ==
  ASSUME IInv, Evolves, published' = published, issued \subseteq issued',
         deleted' \subseteq published,
         \A id \in Links : Exists(id)' => Exists(id),
         \A h \in Handlers : pc'[h] = "Create" =>
             pc[h] = "Create" /\ req'[h] = req[h]
  PROVE  BornOnce'
  BY DEF IInv, BornOnce

(* Existence only depends on the rows. *)
LEMMA RowsUnchanged ==
  ASSUME links' = links
  PROVE  \A id \in Links : Exists(id)' <=> Exists(id)
  BY DEF Exists

(* A step that only moves handler h, other than into Create. *)
LEMMA LocalStep ==
  ASSUME IInv, [Next]_vars, NEW h \in Handlers,
         UNCHANGED <<tables, issued, loggers, history>>,
         pc'[h] # "Create", LocalInv(h)',
         \A other \in Handlers \ {h} :
             pc'[other] = pc[other] /\ req'[other] = req[other]
  PROVE  IInv'
<1>1. TypeInv' /\ Evolves
  BY TypeNext, EvolvesNext DEF IInv, TypeInv
<1>2. \A other \in Handlers : LocalInv(other)'
  BY <1>1, LocalInvStable
<1>3. SpentForGood' /\ TextMatchesStatus' /\ DeletedStaysDeleted' /\ AuditSound'
  BY <1>1, TablesInvStable DEF history
<1>4. links' = links /\ published' = published /\ deleted' = deleted
      /\ issued' = issued /\ deleted \subseteq published
  BY DEF tables, history, IInv, BornOnce
<1>5. BornOnce'
  BY <1>1, <1>4, RowsUnchanged, BornOnceStable
<1>6. QED
  BY <1>1, <1>2, <1>3, <1>5 DEF IInv, TypeInv, LocalInv

(* A step that only ends a request keeps the invariant. *)
LEMMA LocalStepReturn ==
  ASSUME IInv, [Next]_vars, NEW h \in Handlers,
         UNCHANGED <<tables, issued, loggers, history>>, Return(h)
  PROVE  IInv'
  BY ReturnType, IdleInv, LocalStep DEF IInv

(* A spent secret is dead: what a late request will find. *)
LEMMA SpentIsDead ==
  ASSUME IInv, NEW id \in Links, Spent(id)
  PROVE  Dead(id)
<1>1. CASE delivered[id] > 0
  BY <1>1 DEF IInv, SpentForGood, Closed, Dead, CanAccess
<1>2. CASE id \in deleted
  BY <1>2 DEF IInv, DeletedStaysDeleted, BornOnce, Dead
<1>3. CASE Exists(id) /\ IsExpired(links[id], now)
  BY <1>3 DEF IInv, BornOnce, Dead, CanAccess
<1>4. QED
  BY <1>1, <1>2, <1>3 DEF Spent

(* The steps of AccessLink that do not write keep the invariant. *)
LEMMA AccessStep ==
  ASSUME IInv, [Next]_vars, NEW h \in Handlers,
         \/ \E id \in Links, key \in Keys : BeginAccess(h, id, key)
         \/ GetBySlug(h) \/ CheckAccess(h) \/ OpenLink(h)
  PROVE  IInv'
<1>0. TypeOK /\ LocalInv(h) /\ TypeInv'
  BY TypeNext DEF IInv, LocalInv, TypeInv
<1>1. ASSUME NEW id \in Links, NEW key \in Keys, BeginAccess(h, id, key)
      PROVE  IInv'
  <2> DEFINE r == [NoRequest EXCEPT !.slug = id, !.key = key, !.late = Spent(id)]
  <2>1. Spent(id) \in BOOLEAN
    BY DEF Spent
  <2>2. r \in Request /\ r.slug = id /\ r.link = Nil /\ (r.late = Spent(id))
    BY <2>1 DEF Request, NoRequest
  <2>3. Arrive(h, "GetBySlug", r)
    BY <1>1 DEF BeginAccess
  <2> HIDE DEF r
  <2>4. /\ pc'[h] = "GetBySlug" /\ req'[h] = r
        /\ \A other \in Handlers \ {h} :
               pc'[other] = pc[other] /\ req'[other] = req[other]
    BY <1>0, <2>2, <2>3, ArriveType DEF PCs
  <2>5. r.late => Dead(id)'
    BY <1>1, <2>2, SpentIsDead
       DEF BeginAccess, Dead, Exists, tables, history
  <2>6. LocalInv(h)'
    BY <2>2, <2>4, <2>5 DEF LocalInv, CopyCurrent, CopyFits, LateRefused
  <2>7. QED
    BY <1>1, <2>4, <2>6, LocalStep DEF BeginAccess
<1>2. ASSUME GetBySlug(h), Keep(h, "CanAccess", links[req[h].slug])
      PROVE  IInv'
  <2> DEFINE id == req[h].slug
  <2>1. id \in Links /\ links[id] \in Link \cup {Nil}
    BY <1>2 DEF GetBySlug, IInv, LocalsOK, TypeOK, LinkRows
  <2>2. /\ pc'[h] = "CanAccess" /\ req'[h].slug = id /\ req'[h].link = links[id]
        /\ \A other \in Handlers \ {h} :
               pc'[other] = pc[other] /\ req'[other] = req[other]
    BY <1>0, <1>2, <2>1, KeepType DEF PCs
  <2>3. links' = links /\ published' = published /\ now' = now
    BY <1>2 DEF GetBySlug, tables, history
  <2>4. req'[h].late = req[h].late
    BY <1>0, <1>2 DEF Keep, TypeOK, Request
  <2>5. CopyCurrent(h)'
    BY <2>1, <2>2, <2>3 DEF CopyCurrent, Exists, IInv, BornOnce
  <2>6. CopyFits(h)'
    BY <2>1, <2>2 DEF CopyFits, Exists, IInv, TextMatchesStatus
  <2>7. LateRefused(h)'
    BY <1>0, <1>2, <2>1, <2>2, <2>3, <2>4
       DEF GetBySlug, LateRefused, LocalInv, Dead, Exists
  <2>8. QED
    BY <1>2, <2>2, <2>5, <2>6, <2>7, LocalStep DEF GetBySlug, LocalInv
<1>3. ASSUME CheckAccess(h), Granted(req[h].link, req[h].key), Goto(h, "Open")
      PROVE  IInv'
  <2>1. /\ pc'[h] = "Open" /\ req' = req
        /\ \A other \in Handlers \ {h} : pc'[other] = pc[other]
    BY <1>0, <1>3, GotoType DEF PCs
  <2>2. /\ pc[h] = "CanAccess" /\ req[h].link # Nil
        /\ CanAccess(req[h].link, now) /\ req[h].link.hashed_key = req[h].key
        /\ links' = links /\ published' = published
    BY <1>3 DEF CheckAccess, Granted, tables, history
  <2>3. LocalInv(h)'
    BY <1>0, <2>1, <2>2
       DEF LocalInv, CopyCurrent, CopyFits, LateRefused, CanAccess, Exists
  <2>4. QED
    BY <1>3, <2>1, <2>3, LocalStep DEF CheckAccess
<1>4. ASSUME CheckAccess(h), ExpiresLazily(req[h].link),
             Keep(h, "UpdateExpired", Invalidated(req[h].link))
      PROVE  IInv'
  <2> DEFINE link == req[h].link
             expired == Invalidated(link)
  <2>1. link \in Link
    BY <1>0, <1>4, RequestTypes DEF ExpiresLazily
  <2>2. /\ expired \in Link /\ expired # Nil /\ expired.status = StatusExpired
        /\ expired.expires_at = link.expires_at
        /\ expired.created_by = link.created_by
        /\ expired.hashed_key = link.hashed_key
    BY <2>1, LinkTypes DEF Invalidated, Link
  <2>3. Keep(h, "UpdateExpired", expired)
    BY <1>4
  <2> HIDE DEF expired
  <2>4. /\ pc'[h] = "UpdateExpired" /\ req'[h].slug = req[h].slug
        /\ req'[h].link = expired
        /\ \A other \in Handlers \ {h} :
               pc'[other] = pc[other] /\ req'[other] = req[other]
    BY <1>0, <2>2, <2>3, KeepType DEF PCs
  <2>5. pc[h] = "CanAccess" /\ links' = links /\ published' = published
    BY <1>4 DEF CheckAccess, tables, history
  <2>6. link # Nil /\ now' = now /\ IsExpired(expired, now)
    BY <1>4, <2>2 DEF ExpiresLazily, IsExpired, CheckAccess
  <2>7. LocalInv(h)'
    BY <1>0, <2>2, <2>4, <2>5, <2>6
       DEF LocalInv, CopyCurrent, CopyFits, LateRefused, Exists
  <2>8. QED
    BY <1>4, <2>4, <2>7, LocalStep DEF CheckAccess
<1>5. ASSUME OpenLink(h), OpenSucceeds(req[h].link, now),
             pc' = [pc EXCEPT ![h] = "UpdateOpened"],
             req' = [req EXCEPT ![h].link = Opened(req[h].link),
                                ![h].text = req[h].link.ciphered_text]
      PROVE  IInv'
  <2> DEFINE link == req[h].link
             opened == Opened(link)
  <2>1. pc[h] = "Open" /\ links' = links /\ published' = published
    BY <1>5 DEF OpenLink, tables, history
  <2>2. link \in Link /\ link # Nil /\ link.ciphered_text = Secret
    BY <1>0, <2>1, RequestTypes DEF LocalInv, CopyFits, IInv, LocalsOK
  <2>3. /\ opened \in Link /\ opened # Nil /\ opened.status = StatusOpened
        /\ opened.ciphered_text = Erased
        /\ opened.expires_at = link.expires_at
        /\ opened.created_by = link.created_by
        /\ opened.hashed_key = link.hashed_key
    BY <2>2, LinkTypes DEF Opened, Link
  <2>4. /\ pc'[h] = "UpdateOpened" /\ req'[h].slug = req[h].slug
        /\ req'[h].link = opened /\ req'[h].text = Secret
        /\ req'[h].late = req[h].late /\ req'[h].key = req[h].key
        /\ \A other \in Handlers \ {h} :
               pc'[other] = pc[other] /\ req'[other] = req[other]
    BY <1>0, <1>5, <2>2 DEF TypeOK, Request
  <2> HIDE DEF opened
  <2>5. LocalInv(h)'
    BY <1>0, <2>1, <2>2, <2>3, <2>4
       DEF LocalInv, CopyCurrent, CopyFits, LateRefused, Exists
  <2>6. QED
    BY <1>5, <2>4, <2>5, LocalStep DEF OpenLink
<1>6. ASSUME Return(h), UNCHANGED <<tables, issued, loggers, history>>
      PROVE  IInv'
  BY <1>6, LocalStepReturn
<1>7. QED
  BY <1>1, <1>2, <1>3, <1>4, <1>5, <1>6 DEF GetBySlug, CheckAccess, OpenLink

(* The steps of DeleteLink keep the invariant. *)
LEMMA DeleteStep ==
  ASSUME IInv, [Next]_vars, NEW h \in Handlers,
         \/ \E id \in Links, user \in Users : BeginDelete(h, id, user)
         \/ GetForDelete(h) \/ CheckOwner(h) \/ DeleteLink(h)
  PROVE  IInv'
<1>0. TypeOK /\ LocalInv(h) /\ TypeInv' /\ Evolves
  BY TypeNext, EvolvesNext DEF IInv, LocalInv, TypeInv
<1>1. ASSUME NEW id \in Links, NEW user \in Users, BeginDelete(h, id, user)
      PROVE  IInv'
  <2> DEFINE r == [NoRequest EXCEPT !.slug = id, !.user = user]
  <2>1. r \in Request /\ r.slug = id /\ r.link = Nil /\ ~r.late
    BY DEF Request, NoRequest
  <2>2. Arrive(h, "GetForDelete", r)
    BY <1>1 DEF BeginDelete
  <2> HIDE DEF r
  <2>3. /\ pc'[h] = "GetForDelete" /\ req'[h] = r
        /\ \A other \in Handlers \ {h} :
               pc'[other] = pc[other] /\ req'[other] = req[other]
    BY <1>0, <2>1, <2>2, ArriveType DEF PCs
  <2>4. LocalInv(h)'
    BY <2>1, <2>3 DEF LocalInv, CopyCurrent, CopyFits, LateRefused
  <2>5. QED
    BY <1>1, <2>3, <2>4, LocalStep DEF BeginDelete
<1>2. ASSUME GetForDelete(h), Keep(h, "CheckOwner", links[req[h].slug])
      PROVE  IInv'
  <2> DEFINE id == req[h].slug
  <2>1. id \in Links /\ links[id] \in Link \cup {Nil}
    BY <1>2 DEF GetForDelete, IInv, LocalsOK, TypeOK, LinkRows
  <2>2. /\ pc'[h] = "CheckOwner" /\ req'[h].slug = id /\ req'[h].link = links[id]
        /\ \A other \in Handlers \ {h} :
               pc'[other] = pc[other] /\ req'[other] = req[other]
    BY <1>0, <1>2, <2>1, KeepType DEF PCs
  <2>3. links' = links /\ published' = published /\ pc[h] = "GetForDelete"
    BY <1>2 DEF GetForDelete, tables, history
  <2>4. ~req'[h].late
    BY <1>0, <1>2, <2>3 DEF Keep, TypeOK, Request, LocalInv, LateRefused
  <2>5. LocalInv(h)'
    BY <2>1, <2>2, <2>3, <2>4
       DEF LocalInv, CopyCurrent, CopyFits, LateRefused, Exists, IInv, BornOnce
  <2>6. QED
    BY <1>2, <2>2, <2>5, LocalStep DEF GetForDelete
<1>3. ASSUME CheckOwner(h), MayDelete(req[h].user, req[h].link), Goto(h, "Delete")
      PROVE  IInv'
  <2>1. /\ pc'[h] = "Delete" /\ req' = req
        /\ \A other \in Handlers \ {h} : pc'[other] = pc[other]
    BY <1>0, <1>3, GotoType DEF PCs
  <2>2. pc[h] = "CheckOwner" /\ links' = links /\ published' = published
    BY <1>3 DEF CheckOwner, tables, history
  <2>3. LocalInv(h)'
    BY <1>0, <2>1, <2>2 DEF LocalInv, CopyCurrent, CopyFits, LateRefused, Exists
  <2>4. QED
    BY <1>3, <2>1, <2>3, LocalStep DEF CheckOwner
<1>4. ASSUME NEW id \in Links, id = req[h].slug, DeleteLink(h), Delete(id)
      PROVE  IInv'
  <2>1. id \in published /\ pc[h] = "Delete"
    BY <1>0, <1>4 DEF DeleteLink, IInv, LocalsOK, LocalInv, CopyCurrent
  <2>2. /\ links' = [links EXCEPT ![id] = Nil] /\ logs' = logs \ {id}
        /\ deleted' \subseteq deleted \cup {id}
        /\ UNCHANGED <<now, issued, loggers, published, delivered>>
    BY <1>4 DEF DeleteLink, WriteFails, Delete
  <2>3. ~Exists(id)' /\ \A other \in Links \ {id} : links'[other] = links[other]
    BY <1>0, <2>1, <2>2 DEF Exists, TypeOK, LinkRows
  <2>4. Return(h)
    BY <1>4 DEF DeleteLink, WriteFails
  <2>5. \A other \in Handlers : LocalInv(other)'
    BY <1>0, <2>4, ReturnType, IdleInv, LocalInvStable
  <2>6. BornOnce'
    <3>1. deleted' \subseteq published
      BY <2>1, <2>2 DEF IInv, BornOnce
    <3>2. \A other \in Links : Exists(other)' => Exists(other)
      BY <2>3 DEF Exists
    <3>3. \A other \in Handlers : pc'[other] = "Create" =>
             pc[other] = "Create" /\ req'[other] = req[other]
      BY <1>0, <2>4, ReturnType
    <3>4. QED
      BY <1>0, <2>2, <3>1, <3>2, <3>3, BornOnceStable
  <2>7. SpentForGood'
    BY <1>0, <2>2, ClosedStable DEF IInv, SpentForGood
  <2>8. TextMatchesStatus' /\ DeletedStaysDeleted' /\ AuditSound'
    BY <1>0, <2>1, <2>2, <2>3
       DEF IInv, TextMatchesStatus, DeletedStaysDeleted, AuditSound, Exists, TypeOK
  <2>9. QED
    BY <1>0, <2>5, <2>6, <2>7, <2>8 DEF IInv, TypeInv, LocalInv
<1>5. ASSUME Return(h), UNCHANGED <<tables, issued, loggers, history>>
      PROVE  IInv'
  BY <1>5, LocalStepReturn
<1>6. DeleteLink(h) => req[h].slug \in Links
  BY DEF DeleteLink, IInv, LocalsOK
<1>7. QED
  BY <1>1, <1>2, <1>3, <1>4, <1>5, <1>6
     DEF GetForDelete, CheckOwner, DeleteLink, WriteFails, history

(* The writes of AccessLink: an old copy goes over whatever the row holds. *)
LEMMA UpdateStep ==
  ASSUME IInv, [Next]_vars, NEW h \in Handlers,
         NEW id \in Links, id = req[h].slug,
         UpdateExpired(h) \/ UpdateOpened(h)
  PROVE  IInv'
<1> DEFINE link == req[h].link
<1>0. TypeOK /\ LocalInv(h) /\ TypeInv' /\ Evolves
  BY TypeNext, EvolvesNext DEF IInv, LocalInv, TypeInv
<1>1. link \in Link /\ id \in published
  BY <1>0, RequestTypes, NilAssumption
     DEF UpdateExpired, UpdateOpened, IInv, LocalsOK, LocalInv, CopyCurrent
<1>2. /\ pc[h] \in {"UpdateExpired", "UpdateOpened"}
      /\ \/ link.status = StatusExpired
         \/ link.status = StatusOpened /\ link.ciphered_text = Erased
  BY <1>0 DEF UpdateExpired, UpdateOpened, LocalInv, CopyFits
<1>3. UNCHANGED <<now, issued, history>>
  BY DEF UpdateExpired, UpdateOpened
<1>4. CASE Update(id, link)
  <2>1. /\ logs' = logs
        /\ \A other \in Links \ {id} : links'[other] = links[other]
        /\ Exists(id)' <=> Exists(id)
        /\ Exists(id) => /\ links'[id].status = link.status
                         /\ links'[id].ciphered_text = link.ciphered_text
    <3> HIDE DEF link
    <3>1. Exists(id) => links'[id] # Nil
      BY <1>0, <1>1, <1>4, NilAssumption DEF Update, Exists, TypeOK, LinkRows, Link
    <3>2. QED
      BY <1>0, <1>1, <1>4, <3>1, UpdateEffect DEF Exists
  <2>2. Closed(id)'
    BY <1>1, <1>2, <1>3, <2>1
       DEF Closed, Exists, history, StatusWaiting, StatusOpened, StatusExpired
  <2>3. \/ Return(h) /\ UNCHANGED loggers
        \/ /\ pc[h] = "UpdateOpened" /\ Goto(h, "Respond")
           /\ loggers' = loggers \cup {<<h, id>>}
    BY DEF UpdateExpired, UpdateOpened, WriteFails
  <2>4. \A other \in Handlers \ {h} : LocalInv(other)'
    BY <1>0, <2>3, ReturnType, GotoType, LocalInvStable DEF PCs
  <2>5. LocalInv(h)'
    <3>1. CASE Return(h)
      BY <1>0, <3>1, ReturnType, IdleInv
    <3>2. CASE pc[h] = "UpdateOpened" /\ Goto(h, "Respond")
      <4>1. pc'[h] = "Respond" /\ req' = req
        BY <1>0, <3>2, GotoType DEF PCs
      <4>2. req[h].text = Secret /\ ~req[h].late
        BY <1>0, <3>2 DEF LocalInv, CopyFits, LateRefused
      <4>3. CopyCurrent(h)'
        BY <1>0, <3>2, <4>1 DEF LocalInv, CopyCurrent, Evolves
      <4>4. QED
        BY <2>2, <4>1, <4>2, <4>3 DEF LocalInv, CopyFits, LateRefused
    <3>3. QED
      BY <2>3, <3>1, <3>2
  <2>6. BornOnce'
    <3>1. deleted' \subseteq published /\ published' = published /\ issued' = issued
      BY <1>3 DEF history, IInv, BornOnce
    <3>2. \A other \in Links : Exists(other)' => Exists(other)
      BY <2>1 DEF Exists
    <3>3. \A other \in Handlers : pc'[other] = "Create" =>
             pc[other] = "Create" /\ req'[other] = req[other]
      BY <1>0, <2>3, ReturnType, GotoType DEF PCs
    <3>4. QED
      BY <1>0, <3>1, <3>2, <3>3, BornOnceStable
  <2>7. SpentForGood'
    BY <1>0, <1>3, <2>2, <2>3, ClosedStable DEF IInv, SpentForGood, history
  <2>8. TextMatchesStatus'
    BY <1>2, <2>1 DEF IInv, TextMatchesStatus, Exists,
       StatusWaiting, StatusOpened, StatusExpired
  <2>9. DeletedStaysDeleted'
    BY <1>0, <1>3, <2>1
       DEF IInv, DeletedStaysDeleted, Exists, history, TypeOK
  <2>10. AuditSound'
    BY <1>0, <1>2, <2>1
       DEF IInv, AuditSound, Exists, TypeOK, StatusWaiting, StatusOpened, StatusExpired
  <2>11. QED
    BY <1>0, <2>4, <2>5, <2>6, <2>7, <2>8, <2>9, <2>10 DEF IInv, TypeInv, LocalInv
<1>5. CASE UNCHANGED tables /\ Return(h) /\ UNCHANGED loggers
  BY <1>3, <1>5, LocalStepReturn
<1>6. QED
  BY <1>4, <1>5 DEF UpdateExpired, UpdateOpened, WriteFails

(* The steps of CreateLink keep the invariant: a row is inserted once. *)
LEMMA CreateStep ==
  ASSUME IInv, [Next]_vars, NEW h \in Handlers,
         \/ \E id \in Links, key \in Keys, expiresIn \in ExpiresIn,
               user \in Users \cup {Nil} : BeginCreate(h, id, key, expiresIn, user)
         \/ InsertLink(h)
  PROVE  IInv'
<1>0. TypeOK /\ TypeInv' /\ Evolves
  BY TypeNext, EvolvesNext DEF IInv, TypeInv
<1>1. ASSUME NEW id \in Links, NEW key \in Keys, NEW expiresIn \in ExpiresIn,
             NEW user \in Users \cup {Nil},
             BeginCreate(h, id, key, expiresIn, user)
      PROVE  IInv'
  <2> DEFINE link == NewLink(key, expiresIn, user)
             r == [NoRequest EXCEPT !.slug = id, !.key = key, !.user = user,
                                    !.link = link]
  <2>1. /\ link \in Link
        /\ link.status = StatusWaiting /\ link.ciphered_text = Secret
    BY <1>0, ExpiresInAssumption
       DEF NewLink, Link, LinkStatus, StatusWaiting, TypeOK
  <2>2. r \in Request /\ r.slug = id /\ r.link = link /\ ~r.late
    BY <2>1 DEF Request, NoRequest
  <2>3. Arrive(h, "Create", r) /\ id \notin issued /\ issued' = issued \cup {id}
    BY <1>1 DEF BeginCreate
  <2> HIDE DEF r, link
  <2>4. /\ pc'[h] = "Create" /\ req'[h] = r
        /\ \A other \in Handlers \ {h} :
               pc'[other] = pc[other] /\ req'[other] = req[other]
    BY <1>0, <2>2, <2>3, ArriveType DEF PCs
  <2>5. UNCHANGED <<links, logs, loggers, published, delivered, deleted>>
    BY <1>1 DEF BeginCreate, tables, history
  <2>6. LocalInv(h)'
    BY <2>2, <2>4 DEF LocalInv, CopyCurrent, CopyFits, LateRefused
  <2>7. \A other \in Handlers : LocalInv(other)'
    BY <1>0, <2>4, <2>6, LocalInvStable
  <2>8. BornOnce'
    BY <2>1, <2>2, <2>3, <2>4, <2>5, RowsUnchanged DEF IInv, BornOnce
  <2>9. SpentForGood' /\ TextMatchesStatus' /\ DeletedStaysDeleted' /\ AuditSound'
    BY <1>0, <2>5, TablesInvStable DEF tables
  <2>10. QED
    BY <1>0, <2>7, <2>8, <2>9 DEF IInv, TypeInv, LocalInv
<1>2. ASSUME NEW id \in Links, id = req[h].slug, InsertLink(h),
             Create(id, req[h].link), published' = published \cup {id}
      PROVE  IInv'
  <2>1. /\ pc[h] = "Create" /\ Return(h)
        /\ UNCHANGED <<now, issued, loggers, delivered, deleted, logs>>
    BY <1>2 DEF InsertLink, Create
  <2>2. /\ id \in issued \ published
        /\ req[h].link.status = StatusWaiting
        /\ req[h].link.ciphered_text = Secret
        /\ \A other \in Handlers \ {h} :
              pc[other] = "Create" => req[other].slug # id
    BY <1>2, <2>1 DEF IInv, BornOnce
  <2>3. /\ links'[id] = req[h].link
        /\ \A other \in Links \ {id} : links'[other] = links[other]
    BY <1>0, <1>2 DEF Create, TypeOK, LinkRows
  <2>4. ~Exists(id) /\ id \notin logs /\ id \notin deleted
    BY <2>2 DEF IInv, BornOnce, AuditSound, Exists
  <2>5. /\ pc'[h] = Idle
        /\ \A other \in Handlers \ {h} :
               pc'[other] = pc[other] /\ req'[other] = req[other]
    BY <1>0, <2>1, ReturnType
  <2>6. \A other \in Handlers : LocalInv(other)'
    BY <1>0, <2>5, IdleInv, LocalInvStable
  <2>7. BornOnce'
    <3>1. \A other \in Links : Exists(other)' => other \in published'
      BY <1>2, <2>3 DEF IInv, BornOnce, Exists
    <3>2. QED
      BY <1>2, <2>1, <2>2, <2>5, <3>1 DEF IInv, BornOnce
  <2>8. SpentForGood'
    BY <1>0, <2>1, ClosedStable DEF IInv, SpentForGood
  <2>9. TextMatchesStatus'
    BY <2>2, <2>3 DEF IInv, TextMatchesStatus, Exists, StatusWaiting, StatusOpened
  <2>10. DeletedStaysDeleted' /\ AuditSound'
    BY <1>0, <2>1, <2>3, <2>4
       DEF IInv, DeletedStaysDeleted, AuditSound, Exists, TypeOK
  <2>11. QED
    BY <1>0, <2>6, <2>7, <2>8, <2>9, <2>10 DEF IInv, TypeInv, LocalInv
<1>3. ASSUME InsertLink(h), UNCHANGED <<tables, published>>
      PROVE  IInv'
  BY <1>3, LocalStepReturn DEF InsertLink, history
<1>4. InsertLink(h) => req[h].slug \in Links
  BY DEF InsertLink, IInv, LocalsOK
<1>5. QED
  BY <1>1, <1>2, <1>3, <1>4 DEF InsertLink

(* A delivery closes its secret for good. *)
LEMMA RespondStep ==
  ASSUME IInv, [Next]_vars, NEW h \in Handlers, Respond(h)
  PROVE  IInv'
<1>0. TypeOK /\ TypeInv' /\ Evolves
  BY TypeNext, EvolvesNext DEF IInv, TypeInv
<1>1. /\ UNCHANGED <<tables, issued, loggers, published, deleted>>
      /\ Return(h)
  BY DEF Respond
<1>2. \A id \in Links : delivered'[id] > 0 => delivered[id] > 0 \/ id = req[h].slug
  BY <1>0 DEF Respond, TypeOK
<1>3. Closed(req[h].slug)
  BY DEF Respond, IInv, CopyFits
<1>4. \A other \in Handlers : LocalInv(other)'
  BY <1>0, <1>1, ReturnType, IdleInv, LocalInvStable
<1>5. SpentForGood'
  BY <1>0, <1>1, <1>2, <1>3, ClosedStable DEF IInv, SpentForGood
<1>6. BornOnce'
  <2>1. \A other \in Handlers : pc'[other] = "Create" =>
           pc[other] = "Create" /\ req'[other] = req[other]
    BY <1>0, <1>1, ReturnType
  <2>2. QED
    BY <1>0, <1>1, <2>1, RowsUnchanged, BornOnceStable
       DEF tables, IInv, BornOnce
<1>7. TextMatchesStatus' /\ DeletedStaysDeleted' /\ AuditSound'
  BY <1>1 DEF IInv, TextMatchesStatus, DeletedStaysDeleted, AuditSound, Exists, tables
<1>8. QED
  BY <1>0, <1>4, <1>5, <1>6, <1>7 DEF IInv, TypeInv, LocalInv

(* The access-log goroutine keeps the invariant. *)
LEMMA LogStep ==
  ASSUME IInv, [Next]_vars, NEW g \in Handlers \X Links, WriteAccessLog(g)
  PROVE  IInv'
<1>0. TypeOK /\ TypeInv' /\ Evolves
  BY TypeNext, EvolvesNext DEF IInv, TypeInv
<1>1. /\ UNCHANGED <<links, now, pc, req, issued, published, delivered, deleted>>
      /\ loggers' \subseteq loggers
      /\ \A id \in logs' : id \in logs \/ (id = g[2] /\ Exists(id))
  BY DEF WriteAccessLog, CreateAccessLog, LogAccepted, tables
<1>2. Closed(g[2])
  BY DEF WriteAccessLog, IInv, SpentForGood
<1>3. \A h \in Handlers : LocalInv(h)'
  BY <1>0, <1>1, LocalInvStable
<1>4. SpentForGood'
  BY <1>0, <1>1, ClosedStable DEF IInv, SpentForGood, history
<1>5. BornOnce'
  BY <1>0, <1>1, RowsUnchanged, BornOnceStable DEF history, IInv, BornOnce
<1>6. TextMatchesStatus' /\ DeletedStaysDeleted'
  BY <1>1 DEF IInv, TextMatchesStatus, DeletedStaysDeleted, Exists, history
<1>7. AuditSound'
  BY <1>1, <1>2 DEF IInv, AuditSound, Exists, Closed
<1>8. QED
  BY <1>0, <1>3, <1>4, <1>5, <1>6, <1>7 DEF IInv, TypeInv, LocalInv

(* The janitor keeps the invariant. *)
LEMMA JanitorStep ==
  ASSUME IInv, [Next]_vars, Janitor
  PROVE  IInv'
<1>0. TypeOK /\ TypeInv' /\ Evolves
  BY TypeNext, EvolvesNext DEF IInv, TypeInv
<1>1. UNCHANGED <<now, pc, req, issued, loggers, published, delivered, deleted>>
  BY DEF Janitor, locals, history
<1>2. /\ logs' = logs
      /\ \A id \in Links : Exists(id)' => Exists(id)
      /\ \A id \in Links : Exists(id) =>
           /\ links'[id].ciphered_text = links[id].ciphered_text
           /\ links'[id].status = links[id].status
                \/ links'[id].status = StatusExpired
  BY <1>0, JanitorEffect DEF Janitor, Exists
<1>3. \A id \in Links : Exists(id) => Exists(id)'
  <2>1. ASSUME NEW id \in Links, Exists(id)
        PROVE  Exists(id)'
    <3>1. links[id] \in Link /\ Invalidated(links[id]) # Nil
      BY <1>0, <2>1, RowType, LinkTypes DEF Exists
    <3>2. links'[id] = links[id] \/ links'[id] = Invalidated(links[id])
      BY DEF Janitor, InvalidateExpiredLinks
    <3>3. QED
      BY <2>1, <3>1, <3>2 DEF Exists
  <2>2. QED
    BY <2>1
<1>4. \A h \in Handlers : LocalInv(h)'
  BY <1>0, <1>1, LocalInvStable
<1>5. SpentForGood'
  BY <1>0, <1>1, ClosedStable DEF IInv, SpentForGood
<1>6. BornOnce'
  BY <1>0, <1>1, <1>2, BornOnceStable DEF IInv, BornOnce
<1>7. TextMatchesStatus'
  BY <1>2 DEF IInv, TextMatchesStatus, StatusWaiting, StatusOpened, StatusExpired
<1>8. DeletedStaysDeleted'
  BY <1>0, <1>1, <1>2 DEF IInv, DeletedStaysDeleted, TypeOK
<1>9. AuditSound'
  BY <1>0, <1>2, <1>3 DEF IInv, AuditSound, TypeOK, StatusWaiting, StatusExpired
<1>10. QED
  BY <1>0, <1>4, <1>5, <1>6, <1>7, <1>8, <1>9 DEF IInv, TypeInv, LocalInv

(* The clock and a crash keep the invariant. *)
LEMMA EnvironmentStep ==
  ASSUME IInv, [Next]_vars, Tick \/ Crash \/ UNCHANGED vars
  PROVE  IInv'
<1>0. TypeOK /\ TypeInv' /\ Evolves
  BY TypeNext, EvolvesNext DEF IInv, TypeInv
<1>1. /\ UNCHANGED <<tables, issued, published, delivered, deleted>>
      /\ loggers' \subseteq loggers
      /\ \A h \in Handlers : pc'[h] = Idle
                             \/ (pc'[h] = pc[h] /\ req'[h] = req[h])
  BY DEF Tick, Crash, vars, locals, history
<1>2. \A h \in Handlers : LocalInv(h)'
  BY <1>0, <1>1, IdleInv, LocalInvStable
<1>3. SpentForGood' /\ TextMatchesStatus' /\ DeletedStaysDeleted' /\ AuditSound'
  BY <1>0, <1>1, TablesInvStable DEF history
<1>4. BornOnce'
  BY <1>0, <1>1, RowsUnchanged, BornOnceStable
     DEF tables, history, IInv, BornOnce
<1>5. QED
  BY <1>0, <1>2, <1>3, <1>4 DEF IInv, TypeInv, LocalInv

(* The invariant holds initially. *)
LEMMA IInvInit == Init => IInv
<1> SUFFICES ASSUME Init PROVE IInv
  OBVIOUS
<1>1. TypeInv
  BY TypeInit
<1>2. \A id \in Links : ~Exists(id)
  BY DEF Init, RepositoryInit, Exists
<1>3. \A h \in Handlers : CopyCurrent(h) /\ CopyFits(h) /\ LateRefused(h)
  BY DEF Init, CopyCurrent, CopyFits, LateRefused
<1>4. BornOnce /\ SpentForGood
  BY <1>2 DEF Init, BornOnce, SpentForGood
<1>5. TextMatchesStatus /\ DeletedStaysDeleted /\ AuditSound
  BY <1>2 DEF Init, RepositoryInit, TextMatchesStatus, DeletedStaysDeleted, AuditSound
<1>6. QED
  BY <1>1, <1>3, <1>4, <1>5 DEF TypeInv, IInv

(* The invariant is inductive. *)
LEMMA IInvNext == IInv /\ [Next]_vars => IInv'
<1> SUFFICES ASSUME IInv, [Next]_vars PROVE IInv'
  OBVIOUS
<1>1. ASSUME NEW h \in Handlers, UpdateExpired(h) \/ UpdateOpened(h)
      PROVE  IInv'
  <2>1. req[h].slug \in Links
    BY <1>1 DEF UpdateExpired, UpdateOpened, IInv, LocalsOK
  <2>2. QED
    BY <1>1, <2>1, UpdateStep
<1>2. QED
  BY <1>1, AccessStep, DeleteStep, CreateStep, RespondStep, LogStep,
     JanitorStep, EnvironmentStep DEF Next, Arrival, HandlerStep

(* The strengthening behind the safety theorems, conjunct by conjunct in IInv. *)
THEOREM InductiveInvariant == Spec => []IInv
  BY IInvInit, IInvNext, PTL DEF Spec

-----------------------------------------------------------------------------
(* What follows *)

(* AccessLink never hands the secret to a request that arrived after the   *)
(* link was delivered, deleted or past its expiry.                         *)
THEOREM LateRequestsRefused == Spec => []NoLateDelivery
<1>1. IInv => NoLateDelivery
  BY DEF IInv, NoLateDelivery, LateRefused
<1>2. QED
  BY <1>1, InductiveInvariant, PTL

(* An acknowledged DeleteLink is final: no old copy written by Update and  *)
(* no pending insert revives the row.                                      *)
THEOREM DeletionIsFinal == Spec => []DeletedStaysDeleted
<1>1. IInv => DeletedStaysDeleted
  BY DEF IInv
<1>2. QED
  BY <1>1, InductiveInvariant, PTL

(* Whatever Update writes back, a waiting link has its text and an opened  *)
(* one has lost it.                                                        *)
THEOREM TextFollowsStatus == Spec => []TextMatchesStatus
<1>1. IInv => TextMatchesStatus
  BY DEF IInv
<1>2. QED
  BY <1>1, InductiveInvariant, PTL

(* Every response of AccessLink carries the secret, never the erased text. *)
THEOREM ResponsesCarrySecret == Spec => []NeverServesErased
<1>1. IInv => NeverServesErased
  BY DEF IInv, NeverServesErased, CopyFits
<1>2. QED
  BY <1>1, InductiveInvariant, PTL

(* The access log only names links that exist and wait no longer. *)
THEOREM AuditIsSound == Spec => []AuditSound
<1>1. IInv => AuditSound
  BY DEF IInv
<1>2. QED
  BY <1>1, InductiveInvariant, PTL

-----------------------------------------------------------------------------
(* The audit trail *)

(* What is accounted for stays so: a log only goes with its row, and a     *)
(* goroutine only ends with the log, the row, or an entry in lost.         *)
LEMMA AccountedStable ==
  ASSUME IInv, [Next]_vars, NEW id \in published, Accounted(id)
  PROVE  Accounted(id)'
<1>1. Evolves /\ TypeOK
  BY EvolvesNext DEF IInv
<1>2. CASE ~Exists(id)
  BY <1>1, <1>2 DEF Evolves, Accounted
<1>3. lost \subseteq lost'
  BY DEF Next, Arrival, HandlerStep, BeginAccess, BeginCreate, BeginDelete,
         GetBySlug, CheckAccess, UpdateExpired, OpenLink, UpdateOpened, Respond,
         InsertLink, GetForDelete, CheckOwner, DeleteLink, WriteAccessLog,
         Janitor, Tick, Crash, vars, history
<1>4. CASE id \in lost
  BY <1>3, <1>4 DEF Accounted
<1>5. ASSUME id \in logs, id \notin logs'
      PROVE  ~Exists(id)'
  BY <1>1, <1>5
     DEF Next, Arrival, HandlerStep, BeginAccess, BeginCreate, BeginDelete,
         GetBySlug, CheckAccess, UpdateExpired, OpenLink, UpdateOpened, Respond,
         InsertLink, GetForDelete, CheckOwner, DeleteLink, WriteAccessLog,
         Janitor, Tick, Crash, vars, tables, WriteFails, Update, Create,
         CreateAccessLog, InvalidateExpiredLinks, Delete, Exists, TypeOK, LinkRows
<1>6. ASSUME NEW g \in loggers, g[2] = id, g \notin loggers', Exists(id)
      PROVE  id \in lost' \/ id \in logs'
  BY <1>6
     DEF Next, Arrival, HandlerStep, BeginAccess, BeginCreate, BeginDelete,
         GetBySlug, CheckAccess, UpdateExpired, OpenLink, UpdateOpened, Respond,
         InsertLink, GetForDelete, CheckOwner, DeleteLink, WriteAccessLog,
         Janitor, Tick, Crash, vars, tables, locals, LogAccepted, CreateAccessLog
<1>7. QED
  BY <1>2, <1>4, <1>5, <1>6 DEF Accounted

(* A handler only comes to a response from the write of AccessLink. *)
LEMMA RespondOrigin ==
  ASSUME TypeOK, [Next]_vars, NEW h \in Handlers, pc'[h] = "Respond"
  PROVE  (pc[h] = "Respond" /\ req'[h] = req[h]) \/ UpdateOpened(h)
<1>0. pc \in [Handlers -> PCs] /\ req \in [Handlers -> Request]
  BY DEF TypeOK
<1> DEFINE Waits == pc[h] = "Respond" /\ req'[h] = req[h]
<1>1. ASSUME NEW other \in Handlers, Arrival(other)
      PROVE  Waits
  BY <1>0, <1>1 DEF Arrival, BeginAccess, BeginCreate, BeginDelete, Arrive
<1>2. ASSUME NEW other \in Handlers, HandlerStep(other)
      PROVE  Waits \/ UpdateOpened(h)
  <2>1. CASE other # h
    BY <1>0, <1>2, <2>1
       DEF HandlerStep, GetBySlug, CheckAccess, UpdateExpired, OpenLink,
           UpdateOpened, Respond, InsertLink, GetForDelete, CheckOwner,
           DeleteLink, WriteFails, Goto, Keep, Return
  <2>2. CASE other = h
    BY <1>0, <1>2, <2>2
       DEF HandlerStep, GetBySlug, CheckAccess, UpdateExpired, OpenLink,
           Respond, InsertLink, GetForDelete, CheckOwner,
           DeleteLink, WriteFails, Goto, Keep, Return, Idle
  <2>3. QED
    BY <2>1, <2>2
<1>3. (\E g \in Handlers \X Links : WriteAccessLog(g)) \/ Janitor \/ Tick \/ Crash
         \/ UNCHANGED vars => Waits
  BY <1>0 DEF WriteAccessLog, Janitor, Tick, Crash, vars, locals, Idle
<1>4. QED
  BY <1>1, <1>2, <1>3 DEF Next

(* A secret is only delivered by a handler that is about to respond. *)
LEMMA DeliveryOrigin ==
  ASSUME TypeOK, [Next]_vars, NEW id \in Links, delivered'[id] # delivered[id]
  PROVE  \E h \in Handlers : pc[h] = "Respond" /\ req[h].slug = id
<1>1. PICK h \in Handlers : Respond(h)
  BY DEF Next, Arrival, HandlerStep, BeginAccess, BeginCreate, BeginDelete,
         GetBySlug, CheckAccess, UpdateExpired, OpenLink, UpdateOpened,
         InsertLink, GetForDelete, CheckOwner, DeleteLink, WriteAccessLog,
         Janitor, Tick, Crash, vars, history
<1>2. QED
  BY <1>1 DEF Respond, TypeOK

(* Every new response, and every new delivery, is accounted for. *)
LEMMA AuditNext == AuditInv /\ [Next]_vars => AuditInv'
<1> SUFFICES ASSUME AuditInv, [Next]_vars PROVE AuditInv'
  OBVIOUS
<1>1. IInv /\ TypeOK /\ TypeOK' /\ IInv'
  BY IInvNext DEF AuditInv, IInv
<1>2. ASSUME NEW h \in Handlers, NEW id \in Links,
             pc'[h] = "Respond", req'[h].slug = id
      PROVE  Accounted(id)'
  <2>1. CASE pc[h] = "Respond" /\ req'[h] = req[h]
    <3>1. id \in published /\ Accounted(id)
      BY <1>1, <1>2, <2>1 DEF AuditInv, IInv, CopyFits, Closed
    <3>2. QED
      BY <1>1, <3>1, AccountedStable
  <2>2. CASE UpdateOpened(h)
    <3>1. Goto(h, "Respond") /\ loggers' = loggers \cup {<<h, req[h].slug>>}
      BY <1>1, <1>2, <2>2, ReturnType DEF UpdateOpened, WriteFails, Idle
    <3>2. <<h, id>> \in loggers'
      BY <1>2, <3>1 DEF Goto
    <3>3. QED
      BY <3>2 DEF Accounted
  <2>3. (pc[h] = "Respond" /\ req'[h] = req[h]) \/ UpdateOpened(h)
    BY <1>1, <1>2, RespondOrigin
  <2>4. QED
    BY <2>1, <2>2, <2>3
<1>3. ASSUME NEW id \in Links, delivered'[id] > 0
      PROVE  Accounted(id)'
  <2>1. CASE delivered[id] > 0
    BY <1>1, <2>1, AccountedStable DEF AuditInv, AuditComplete, IInv, SpentForGood, Closed
  <2>2. CASE delivered'[id] # delivered[id]
    <3>1. PICK h \in Handlers : pc[h] = "Respond" /\ req[h].slug = id
      BY <1>1, <2>2, DeliveryOrigin
    <3>2. id \in published /\ Accounted(id)
      BY <1>1, <3>1 DEF AuditInv, IInv, CopyFits, Closed
    <3>3. QED
      BY <1>1, <3>2, AccountedStable
  <2>3. QED
    BY <1>1, <1>3, <2>1, <2>2
<1>4. \A h \in Handlers : pc'[h] = "Respond" => req'[h].slug \in Links
  BY <1>1 DEF IInv, LocalsOK, Idle
<1>5. (\A h \in Handlers : pc[h] = "Respond" => Accounted(req[h].slug))'
  BY <1>2, <1>4 DEF Accounted, Exists
<1>6. AuditComplete'
  BY <1>3 DEF AuditComplete
<1>7. QED
  BY <1>1, <1>5, <1>6 DEF AuditInv

(* Whoever is about to respond, and whatever was delivered, is accounted   *)
(* for, in every state.                                                    *)
THEOREM AuditInvariant == Spec => []AuditInv
<1>1. Init => AuditInv
  BY IInvInit DEF Init, AuditInv, AuditComplete
<1>2. QED
  BY <1>1, AuditNext, PTL DEF Spec

(* No order of deliveries, deletions, insertions and crashes loses a log   *)
(* without a trace: it is there, pending, lost with its goroutine, or gone *)
(* with its link.                                                          *)
THEOREM AuditIsComplete == Spec => []AuditComplete
<1>1. AuditInv => AuditComplete
  BY DEF AuditInv
<1>2. QED
  BY <1>1, AuditInvariant, PTL

-----------------------------------------------------------------------------
(* Who removes a link *)

(* The owner was checked, on a copy of the row. *)
OwnerChecked ==
    \A h \in Handlers : pc[h] = "Delete" => MayDelete(req[h].user, req[h].link)

(* A handler only comes to its DELETE by the owner check. *)
LEMMA OwnerCheckedNext == TypeOK /\ OwnerChecked /\ [Next]_vars => OwnerChecked'
<1> SUFFICES ASSUME TypeOK, OwnerChecked, [Next]_vars,
                    NEW h \in Handlers, pc'[h] = "Delete"
             PROVE  MayDelete(req'[h].user, req'[h].link)
  BY DEF OwnerChecked, MayDelete
<1>0. pc \in [Handlers -> PCs] /\ req \in [Handlers -> Request]
  BY DEF TypeOK
<1> DEFINE Waits == pc[h] = "Delete" /\ req'[h] = req[h]
<1>1. ASSUME NEW other \in Handlers, Arrival(other)
      PROVE  Waits
  BY <1>0, <1>1 DEF Arrival, BeginAccess, BeginCreate, BeginDelete, Arrive
<1>2. ASSUME NEW other \in Handlers, HandlerStep(other)
      PROVE  Waits \/ CheckOwner(h)
  <2>1. CASE other # h
    BY <1>0, <1>2, <2>1
       DEF HandlerStep, GetBySlug, CheckAccess, UpdateExpired, OpenLink,
           UpdateOpened, Respond, InsertLink, GetForDelete, CheckOwner,
           DeleteLink, WriteFails, Goto, Keep, Return
  <2>2. CASE other = h
    BY <1>0, <1>2, <2>2
       DEF HandlerStep, GetBySlug, CheckAccess, UpdateExpired, OpenLink,
           UpdateOpened, Respond, InsertLink, GetForDelete,
           DeleteLink, WriteFails, Goto, Keep, Return, Idle
  <2>3. QED
    BY <2>1, <2>2
<1>3. (\E g \in Handlers \X Links : WriteAccessLog(g)) \/ Janitor \/ Tick \/ Crash
         \/ UNCHANGED vars => Waits
  BY <1>0 DEF WriteAccessLog, Janitor, Tick, Crash, vars, locals, Idle
<1>4. CheckOwner(h) => MayDelete(req'[h].user, req'[h].link)
  BY <1>0 DEF CheckOwner, Goto, Return, Idle
<1>5. Waits => MayDelete(req'[h].user, req'[h].link)
  BY DEF OwnerChecked
<1>6. QED
  BY <1>1, <1>2, <1>3, <1>4, <1>5 DEF Next

(* Only DeleteLink takes a row away. *)
LEMMA RemovalOrigin ==
  ASSUME TypeInv, [Next]_vars, NEW id \in Links, Exists(id), ~Exists(id)'
  PROVE  \E h \in Handlers : pc[h] = "Delete" /\ req[h].slug = id
<1>1. CASE \E h \in Handlers : DeleteLink(h)
  BY <1>1 DEF DeleteLink, Delete, WriteFails, tables, Exists, TypeInv, TypeOK, LinkRows
<1>2. CASE Janitor
  <2>1. links[id] \in Link /\ Invalidated(links[id]) # Nil
    BY RowType, LinkTypes DEF TypeInv, Exists
  <2>2. links'[id] = links[id] \/ links'[id] = Invalidated(links[id])
    BY <1>2 DEF Janitor, InvalidateExpiredLinks
  <2>3. QED
    BY <2>1, <2>2 DEF Exists
<1>3. ASSUME NEW h \in Handlers, UpdateExpired(h) \/ UpdateOpened(h)
      PROVE  FALSE
  <2>1. req[h].slug \in Links /\ req[h].link \in Link
    BY <1>3, RequestTypes DEF UpdateExpired, UpdateOpened, TypeInv, LocalsOK
  <2>2. [req[h].link EXCEPT !.created_by = links[id].created_by] \in Link
    BY <2>1, RowType DEF TypeInv, Exists, Link
  <2>3. Update(req[h].slug, req[h].link) \/ links' = links
    BY <1>3 DEF UpdateExpired, UpdateOpened, WriteFails, tables
  <2>4. QED
    BY <2>1, <2>2, <2>3, NilAssumption DEF Update, Exists, TypeInv, TypeOK, LinkRows
<1>4. ASSUME NEW h \in Handlers, InsertLink(h)
      PROVE  FALSE
  <2>1. req[h].slug \in Links /\ req[h].link \in Link
    BY <1>4, RequestTypes DEF InsertLink, TypeInv, LocalsOK
  <2>2. QED
    BY <1>4, <2>1, NilAssumption
       DEF InsertLink, Create, tables, Exists, TypeInv, TypeOK, LinkRows
<1>5. QED
  BY <1>1, <1>2, <1>3, <1>4
     DEF Next, Arrival, HandlerStep, BeginAccess, BeginCreate, BeginDelete,
         GetBySlug, CheckAccess, OpenLink, Respond, GetForDelete, CheckOwner,
         WriteAccessLog, CreateAccessLog, Tick, Crash, vars, tables, Exists

(* A removal is the request of whoever may ask for it: the copy the check  *)
(* saw has the creator of the row.                                         *)
LEMMA RemovalIsOwners ==
  ASSUME IInv, OwnerChecked, [Next]_vars, NEW id \in Links, Exists(id), ~Exists(id)'
  PROVE  \E h \in Handlers : Deletes(h, id)
<1>1. PICK h \in Handlers : pc[h] = "Delete" /\ req[h].slug = id
  BY RemovalOrigin DEF IInv, TypeInv
<1>2. req[h].link # Nil /\ links[id].created_by = req[h].link.created_by
  BY <1>1 DEF IInv, LocalsOK, CopyCurrent
<1>3. QED
  BY <1>1, <1>2 DEF OwnerChecked, MayDelete, Deletes

(* While its row stays, a link loses its status to a request with its key, *)
(* to the lazy expiry or to the janitor.                                   *)
LEMMA StatusOrigin ==
  ASSUME IInv, [Next]_vars, NEW id \in Links, Exists(id), Exists(id)',
         links'[id].status # links[id].status
  PROVE  IsExpired(links[id], now) \/ \E h \in Handlers : Opens(h, id)
<1>0. TypeOK /\ id \in published
  BY DEF IInv, BornOnce
<1>1. ASSUME NEW h \in Handlers, UpdateExpired(h) \/ UpdateOpened(h)
      PROVE  IsExpired(links[id], now) \/ Opens(h, id)
  <2>1. /\ req[h].slug \in Links /\ req[h].link \in Link /\ req[h].link # Nil
        /\ CopyCurrent(h) /\ CopyFits(h)
    BY <1>0, <1>1, RequestTypes DEF UpdateExpired, UpdateOpened, IInv, LocalsOK
  <2>2. Update(req[h].slug, req[h].link)
    BY <1>1 DEF UpdateExpired, UpdateOpened, WriteFails, tables
  <2>3. req[h].slug = id
    BY <1>0, <2>1, <2>2, UpdateEffect
  <2>4. CASE UpdateExpired(h)
    BY <2>1, <2>3, <2>4 DEF UpdateExpired, CopyCurrent, CopyFits, IsExpired
  <2>5. CASE UpdateOpened(h)
    BY <2>1, <2>3, <2>5 DEF UpdateOpened, CopyCurrent, CopyFits, Opens
  <2>6. QED
    BY <1>1, <2>4, <2>5
<1>2. CASE Janitor
  BY <1>2 DEF Janitor, InvalidateExpiredLinks, Overdue
<1>3. ASSUME NEW h \in Handlers, InsertLink(h)
      PROVE  FALSE
  BY <1>0, <1>3 DEF InsertLink, IInv, BornOnce, Create, tables, TypeOK, LinkRows
<1>4. ASSUME NEW h \in Handlers, DeleteLink(h)
      PROVE  FALSE
  BY <1>0, <1>4 DEF DeleteLink, WriteFails, Delete, tables, TypeOK, LinkRows, Exists
<1>5. QED
  BY <1>1, <1>2, <1>3, <1>4
     DEF Next, Arrival, HandlerStep, BeginAccess, BeginCreate, BeginDelete,
         GetBySlug, CheckAccess, OpenLink, Respond, GetForDelete, CheckOwner,
         WriteAccessLog, CreateAccessLog, Tick, Crash, vars, tables

Ending ==
    \A id \in Links :
        /\ Exists(id) /\ ~Exists(id)' => \E h \in Handlers : Deletes(h, id)
        /\ Accessible(id) /\ ~Accessible(id)' =>
              \/ IsExpired(links[id], now')
              \/ \E h \in Handlers : Opens(h, id) \/ Deletes(h, id)

LEMMA EndingNext == IInv /\ OwnerChecked /\ [Next]_vars => Ending
<1> SUFFICES ASSUME IInv, OwnerChecked, [Next]_vars PROVE Ending
  OBVIOUS
<1>0. TypeOK /\ Evolves
  BY EvolvesNext DEF IInv
<1>1. ASSUME NEW id \in Links, Accessible(id), ~Accessible(id)', Exists(id)'
      PROVE  \/ IsExpired(links[id], now')
             \/ \E h \in Handlers : Opens(h, id)
  <2>1. /\ Exists(id) /\ id \in published
        /\ links'[id].expires_at = links[id].expires_at
        /\ CanAccess(links[id], now) /\ ~CanAccess(links'[id], now')
    BY <1>0, <1>1 DEF Accessible, IInv, BornOnce, Evolves, Exists
  <2>2. CASE links'[id].status = links[id].status
    BY <2>1, <2>2 DEF CanAccess, IsExpired
  <2>3. CASE links'[id].status # links[id].status
    BY <1>1, <2>1, <2>3, StatusOrigin DEF CanAccess
  <2>4. QED
    BY <2>2, <2>3
<1>2. QED
  BY <1>1, RemovalIsOwners DEF Ending, Accessible

(* No link is lost to a stale copy, a stranger or a clock that runs ahead: *)
(* its row is removed by whoever may delete it, and access to it ends with *)
(* that, with a request that has its key, or with its time.                *)
THEOREM LinksEndForCause == Spec => EndsForCause
<1>1. Init => OwnerChecked
  BY DEF Init, OwnerChecked, Idle
<1>2. IInv => TypeOK
  BY DEF IInv
<1>3. Ending <=> \A id \in Links :
          /\ Exists(id) /\ ~Exists(id)' => \E h \in Handlers : Deletes(h, id)
          /\ Accessible(id) /\ ~Accessible(id)' =>
                \/ IsExpired(links[id], now')
                \/ \E h \in Handlers : Opens(h, id) \/ Deletes(h, id)
  BY DEF Ending
<1>4. QED
  BY <1>1, <1>2, <1>3, InductiveInvariant, OwnerCheckedNext, EndingNext, PTL
     DEF Spec, EndsForCause

-----------------------------------------------------------------------------
(* How long a request lasts *)

(* The calls a request has yet to make, at most. *)
StepsLeft(call) ==
    CASE call = Idle -> 0
      [] call \in {"Respond", "UpdateExpired", "Create", "Delete"} -> 1
      [] call \in {"UpdateOpened", "CheckOwner"} -> 2
      [] call \in {"Open", "GetForDelete"} -> 3
      [] call = "CanAccess" -> 4
      [] call = "GetBySlug" -> 5

(* No call is made twice for one request, whatever failed: nothing but an  *)
(* arrival sends a handler back.                                           *)
RequestsAdvance ==
    [][\A h \in Handlers : (pc[h] # Idle /\ pc'[h] # pc[h]) =>
          StepsLeft(pc'[h]) < StepsLeft(pc[h])]_vars

(* Each call brings its request closer to the answer. *)
LEMMA CallsAdvance ==
  ASSUME TypeOK, NEW h \in Handlers, HandlerStep(h)
  PROVE  StepsLeft(pc'[h]) < StepsLeft(pc[h])
<1>0. pc \in [Handlers -> PCs] /\ req \in [Handlers -> Request]
  BY DEF TypeOK
<1>1. CASE GetBySlug(h) \/ CheckAccess(h) \/ UpdateExpired(h)
  BY <1>0, <1>1 DEF GetBySlug, CheckAccess, UpdateExpired, Goto, Keep, Return, StepsLeft
<1>2. CASE OpenLink(h) \/ UpdateOpened(h) \/ Respond(h)
  BY <1>0, <1>2 DEF OpenLink, UpdateOpened, Respond, WriteFails, Goto, Return, StepsLeft
<1>3. CASE InsertLink(h) \/ GetForDelete(h) \/ CheckOwner(h) \/ DeleteLink(h)
  BY <1>0, <1>3 DEF InsertLink, GetForDelete, CheckOwner, DeleteLink, WriteFails,
     Goto, Keep, Return, StepsLeft
<1>4. QED
  BY <1>1, <1>2, <1>3 DEF HandlerStep

(* A request of link_service.go makes at most five calls, and no step of   *)
(* another request, the janitor, the clock or a crash gives it more to do. *)
THEOREM RequestsOnlyAdvance == Spec => RequestsAdvance
<1>1. IInv /\ [Next]_vars =>
        \A h \in Handlers : (pc[h] # Idle /\ pc'[h] # pc[h]) =>
            StepsLeft(pc'[h]) < StepsLeft(pc[h])
  <2> SUFFICES ASSUME IInv, [Next]_vars, NEW h \in Handlers,
                      pc[h] # Idle, pc'[h] # pc[h]
               PROVE  StepsLeft(pc'[h]) < StepsLeft(pc[h])
    OBVIOUS
  <2>0. TypeOK /\ pc \in [Handlers -> PCs] /\ req \in [Handlers -> Request]
    BY DEF IInv, TypeOK
  <2>1. ASSUME NEW g \in Handlers, Arrival(g)
        PROVE  FALSE
    BY <2>0, <2>1 DEF Arrival, BeginAccess, BeginCreate, BeginDelete, Arrive
  <2>2. ASSUME NEW g \in Handlers \ {h}, HandlerStep(g)
        PROVE  FALSE
    BY <2>0, <2>2 DEF HandlerStep, GetBySlug, CheckAccess, UpdateExpired, OpenLink,
         UpdateOpened, Respond, InsertLink, GetForDelete, CheckOwner,
         DeleteLink, WriteFails, Goto, Keep, Return
  <2>3. CASE HandlerStep(h)
    BY <2>0, <2>3, CallsAdvance
  <2>4. CASE Crash
    BY <2>0, <2>4 DEF Crash, StepsLeft, PCs
  <2>5. Janitor \/ Tick \/ (\E g \in Handlers \X Links : WriteAccessLog(g))
           \/ UNCHANGED vars => FALSE
    BY DEF Janitor, Tick, WriteAccessLog, vars, locals
  <2>6. QED
    BY <2>1, <2>2, <2>3, <2>4, <2>5 DEF Next
<1>2. QED
  BY <1>1, InductiveInvariant, PTL DEF Spec, RequestsAdvance
=============================================================================
