---------------------- MODULE LinkRefinementProofs ----------------------
(* LinkService implements OneTimeSecret: most steps of a handler only drop *)
(* readers or close secrets; an insert publishes, a read of a waiting row  *)
(* takes, a response delivers.                                             *)
EXTENDS LinkServiceProofs, FiniteSetTheorems

(* A handler comes to hold a secret only by reading the row while it waits. *)
LEMMA HoldsOrigin ==
  ASSUME IInv, [Next]_vars, NEW h \in Handlers, NEW id \in Links, Holds(h, id)'
  PROVE  \/ Holds(h, id)
         \/ /\ Keep(h, "CanAccess", links[id]) /\ pc[h] = "GetBySlug"
            /\ req[h].slug = id
            /\ Exists(id) /\ links[id].status = StatusWaiting
            /\ UNCHANGED <<tables, published, delivered>>
<1>0. /\ pc \in [Handlers -> PCs] /\ req \in [Handlers -> Request]
      /\ pc'[h] \in {"CanAccess", "Open", "UpdateOpened", "Respond"}
  BY DEF IInv, TypeOK, Holds
<1> DEFINE Waits == pc'[h] = pc[h] /\ req'[h] = req[h]
<1>1. ASSUME NEW other \in Handlers, Arrival(other)
      PROVE  Waits
  BY <1>0, <1>1 DEF Arrival, BeginAccess, BeginCreate, BeginDelete, Arrive
<1>2. ASSUME NEW other \in Handlers \ {h}, HandlerStep(other)
      PROVE  Waits
  BY <1>0, <1>2
     DEF HandlerStep, GetBySlug, CheckAccess, UpdateExpired, OpenLink,
         UpdateOpened, Respond, InsertLink, GetForDelete, CheckOwner,
         DeleteLink, WriteFails, Goto, Keep, Return
<1>3. (\E g \in Handlers \X Links : WriteAccessLog(g)) \/ Janitor \/ Tick \/ Crash
         \/ UNCHANGED vars => Waits
  BY <1>0 DEF WriteAccessLog, Janitor, Tick, Crash, vars, locals, Idle
<1>4. CASE Waits
  BY <1>4 DEF Holds
<1>5. CASE GetBySlug(h)
  <2>1. Keep(h, "CanAccess", links[req[h].slug])
    BY <1>0, <1>5 DEF GetBySlug, Return, Idle
  <2>2. pc'[h] = "CanAccess" /\ req'[h].slug = req[h].slug
           /\ req'[h].link = links[req[h].slug]
    BY <1>0, <2>1 DEF Keep, Request
  <2>3. QED
    BY <1>5, <2>1, <2>2 DEF Holds, Exists, GetBySlug, history
<1>6. CASE CheckAccess(h)
  <2>1. Goto(h, "Open") /\ Granted(req[h].link, req[h].key) /\ pc[h] = "CanAccess"
    BY <1>0, <1>6 DEF CheckAccess, Keep, Return, Idle
  <2>2. QED
    BY <2>1 DEF Goto, Granted, CanAccess, Holds
<1>7. CASE OpenLink(h)
  <2>1. pc[h] = "Open" /\ OpenSucceeds(req[h].link, now) /\ req'[h].slug = req[h].slug
    BY <1>0, <1>7 DEF OpenLink, Return, Idle, Request
  <2>2. QED
    BY <2>1 DEF Holds, OpenSucceeds, IInv, LocalsOK
<1>8. CASE UpdateOpened(h)
  <2>1. pc[h] = "UpdateOpened" /\ Goto(h, "Respond")
    BY <1>0, <1>8 DEF UpdateOpened, WriteFails, Return, Idle
  <2>2. QED
    BY <2>1 DEF Goto, Holds
<1>9. UpdateExpired(h) \/ Respond(h) \/ InsertLink(h) \/ GetForDelete(h)
         \/ CheckOwner(h) \/ DeleteLink(h) => FALSE
  BY <1>0 DEF UpdateExpired, Respond, InsertLink, GetForDelete, CheckOwner,
              DeleteLink, WriteFails, Goto, Keep, Return, Idle
<1>10. QED
  BY <1>1, <1>2, <1>3, <1>4, <1>5, <1>6, <1>7, <1>8, <1>9
     DEF Next, HandlerStep

(* No step but an insert publishes, and no secret is ever unborn again: a  *)
(* step that neither publishes, takes nor delivers is a Close.             *)
LEMMA OtherwiseClose ==
  ASSUME Evolves, UNCHANGED <<published, delivered>>,
         \A h \in Handlers, id \in Links : Holds(h, id)' => Holds(h, id)
  PROVE  Secrets!Close
<1>1. SecretPhase' \in [Links -> {"unborn", "open", "closed"}]
  BY DEF SecretPhase
<1>2. \A id \in Links : \/ SecretPhase'[id] = SecretPhase[id]
                        \/ SecretPhase[id] = "open" /\ SecretPhase'[id] = "closed"
  BY DEF SecretPhase, Evolves
<1>3. SecretReaders' \in [Links -> SUBSET Handlers]
  BY DEF SecretReaders, Holders
<1>4. Secrets!ReadersDrop
  BY DEF Secrets!ReadersDrop, SecretReaders, Holders
<1>5. QED
  BY <1>1, <1>2, <1>3, <1>4 DEF Secrets!Close

(* The read of a waiting row adds its handler to the readers. *)
LEMMA TakeStep ==
  ASSUME IInv, [Next]_vars, NEW h \in Handlers, NEW id \in Links,
         Keep(h, "CanAccess", links[id]), pc[h] = "GetBySlug", req[h].slug = id,
         Exists(id), links[id].status = StatusWaiting,
         UNCHANGED <<tables, published, delivered>>
  PROVE  Secrets!Take(id, h)
<1>1. pc \in [Handlers -> PCs] /\ req \in [Handlers -> Request]
  BY DEF IInv, TypeOK
<1>2. SecretPhase[id] = "open" /\ SecretPhase' = SecretPhase
  BY DEF SecretPhase, IInv, BornOnce, Exists, tables
<1>3. \A other \in Handlers \ {h}, any \in Links : Holds(other, any)' <=> Holds(other, any)
  BY <1>1 DEF Keep, Holds
<1>4. \A any \in Links : ~Holds(h, any)
  BY DEF Holds
<1>5. /\ pc'[h] = "CanAccess" /\ req'[h].slug = id /\ req'[h].link = links[id]
  BY <1>1 DEF Keep, Request
<1>6. \A any \in Links : Holds(h, any)' <=> any = id
  BY <1>5 DEF Holds, Exists
<1>7. SecretReaders' = [SecretReaders EXCEPT ![id] = @ \cup {h}]
  BY <1>3, <1>4, <1>6 DEF SecretReaders, Holders
<1>8. QED
  BY <1>2, <1>7 DEF Secrets!Take

(* An insert publishes its secret. *)
LEMMA PublishStep ==
  ASSUME IInv, IInv', [Next]_vars, NEW h \in Handlers, InsertLink(h),
         published' # published
  PROVE  \E id \in Links : Secrets!Publish(id)
<1> DEFINE id == req[h].slug
<1>1. /\ id \in Links \ published /\ req[h].link # Nil
      /\ req[h].link.status = StatusWaiting
  BY DEF InsertLink, IInv, LocalsOK, BornOnce, TypeOK
<1>2. Create(id, req[h].link) /\ published' = published \cup {id} /\ Return(h)
         /\ UNCHANGED delivered
  BY DEF InsertLink
<1>3. SecretPhase' = [SecretPhase EXCEPT ![id] = "open"]
  BY <1>1, <1>2 DEF SecretPhase, Create, Exists, IInv, TypeOK, LinkRows
<1>4. \A other \in Handlers, any \in Links : Holds(other, any)' <=> Holds(other, any)
  BY <1>2 DEF Return, Holds, Idle, IInv, TypeOK, InsertLink
<1>5. SecretReaders' = SecretReaders
  BY <1>4 DEF SecretReaders, Holders
<1>6. QED
  BY <1>1, <1>2, <1>3, <1>5 DEF Secrets!Publish, SecretPhase

(* A handler that responds with a secret is a holder, and is one no more. *)
LEMMA RespondGivesUp ==
  ASSUME IInv, NEW h \in Handlers, Respond(h), delivered' # delivered
  PROVE  LET id == req[h].slug IN
         /\ id \in Links /\ Closed(id) /\ h \in Holders(id)
         /\ delivered' = [delivered EXCEPT ![id] = @ + 1]
         /\ UNCHANGED <<tables, published>>
         /\ \A any \in Links : Holders(any)' = IF any = id THEN Holders(any) \ {h}
                                                          ELSE Holders(any)
<1> DEFINE id == req[h].slug
<1>1. id \in Links /\ Closed(id) /\ Holds(h, id)
  BY DEF Respond, IInv, LocalsOK, CopyFits, Holds, Idle
<1>2. /\ delivered' = [delivered EXCEPT ![id] = @ + 1] /\ Return(h)
      /\ UNCHANGED <<tables, published>>
  BY DEF Respond
<1>3. \A other \in Handlers \ {h}, any \in Links : Holds(other, any)' <=> Holds(other, any)
  BY <1>2 DEF Return, Holds, IInv, TypeOK
<1>4. \A any \in Links : Holds(h, any) => any = id
  BY DEF Holds
<1>5. \A any \in Links : ~Holds(h, any)'
  BY <1>2 DEF Return, Holds, Idle, IInv, TypeOK
<1>6. QED
  BY <1>1, <1>2, <1>3, <1>4, <1>5 DEF Holders

(* Only Respond counts a delivery. *)
LEMMA OnlyRespondDelivers ==
  ASSUME [Next]_vars, delivered' # delivered
  PROVE  \E h \in Handlers : Respond(h)
BY DEF Next, Arrival, HandlerStep, BeginAccess, BeginCreate, BeginDelete,
       GetBySlug, CheckAccess, UpdateExpired, OpenLink, UpdateOpened,
       InsertLink, GetForDelete, CheckOwner, DeleteLink, WriteAccessLog,
       Janitor, Tick, Crash, vars, history

(* A response delivers a closed secret and gives it up. *)
LEMMA DeliverStep ==
  ASSUME IInv, [Next]_vars, NEW h \in Handlers, Respond(h),
         delivered' # delivered
  PROVE  \E id \in Links : Secrets!Deliver(id, h)
<1> DEFINE id == req[h].slug
<1>1. /\ id \in Links /\ Closed(id) /\ h \in Holders(id)
      /\ delivered' = [delivered EXCEPT ![id] = @ + 1]
      /\ UNCHANGED <<tables, published>>
      /\ \A any \in Links : Holders(any)' = IF any = id THEN Holders(any) \ {h}
                                                       ELSE Holders(any)
  BY RespondGivesUp
<1>2. SecretPhase[id] = "closed" /\ SecretPhase' = SecretPhase
  BY <1>1 DEF SecretPhase, Closed, Exists, tables
<1>3. SecretReaders' = [SecretReaders EXCEPT ![id] = @ \ {h}]
  BY <1>1 DEF SecretReaders
<1>4. QED
  BY <1>1, <1>2, <1>3 DEF Secrets!Deliver, SecretReaders

(* The service keeps the promise of OneTimeSecret: whatever interleaves,   *)
(* a secret is published once, taken only while its row waits, closed for  *)
(* good, and delivered only after that, at most once by each taker.        *)
THEOREM LinkServiceIsOneTimeSecret == Spec => ImplementsOneTimeSecret
<1>1. Init => Secrets!AInit
  <2> SUFFICES ASSUME Init PROVE Secrets!AInit
    OBVIOUS
  <2>1. SecretPhase = [id \in Links |-> "unborn"]
    BY DEF Init, SecretPhase
  <2>2. SecretReaders = [id \in Links |-> {}]
    BY DEF Init, SecretReaders, Holders, Holds, Idle
  <2>3. QED
    BY <2>1, <2>2 DEF Secrets!AInit, Init
<1>2. IInv /\ [Next]_vars => [Secrets!ANext]_(Secrets!avars)
  <2> SUFFICES ASSUME IInv, [Next]_vars
               PROVE  Secrets!ANext \/ UNCHANGED Secrets!avars
    OBVIOUS
  <2>0. IInv' /\ Evolves
    BY IInvNext, EvolvesNext
  <2>1. CASE published' # published
    <3>1. PICK h \in Handlers : InsertLink(h)
      BY <2>1 DEF Next, Arrival, HandlerStep, BeginAccess, BeginCreate, BeginDelete,
         GetBySlug, CheckAccess, UpdateExpired, OpenLink, UpdateOpened, Respond,
         GetForDelete, CheckOwner, DeleteLink, WriteAccessLog,
         Janitor, Tick, Crash, vars, history
    <3>2. QED
      BY <2>0, <2>1, <3>1, PublishStep DEF Secrets!ANext
  <2>2. CASE delivered' # delivered
    <3>1. PICK h \in Handlers : Respond(h)
      BY <2>2, OnlyRespondDelivers
    <3>2. QED
      BY <2>2, <3>1, DeliverStep DEF Secrets!ANext
  <2>3. ASSUME UNCHANGED <<published, delivered>>,
               NEW h \in Handlers, NEW id \in Links, Holds(h, id)', ~Holds(h, id)
        PROVE  Secrets!ANext
    BY <2>3, HoldsOrigin, TakeStep DEF Secrets!ANext
  <2>4. CASE /\ UNCHANGED <<published, delivered>>
             /\ \A h \in Handlers, id \in Links : Holds(h, id)' => Holds(h, id)
    BY <2>0, <2>4, OtherwiseClose DEF Secrets!ANext
  <2>5. QED
    BY <2>1, <2>2, <2>3, <2>4
<1>3. QED
  BY <1>1, <1>2, InductiveInvariant, PTL DEF Spec, ImplementsOneTimeSecret, Secrets!ASpec

(* However many requests race for one secret, it is delivered at most once *)
(* to each that held a copy before the first delivery: afterwards every    *)
(* delivery takes a holder away and no read makes a new one.               *)
THEOREM DeliveriesAreOverlaps ==
  ASSUME IsFiniteSet(Handlers)
  PROVE  Spec => []DeliveriesOverlap
<1>1. Init => DeliveriesOverlap
  <2> SUFFICES ASSUME Init, NEW id \in Links
               PROVE  delivered[id] + Cardinality(Holders(id)) <= Cardinality(Handlers)
    BY DEF DeliveriesOverlap
  <2>1. delivered[id] = 0 /\ Holders(id) \in SUBSET Handlers
    BY DEF Init, Holders
  <2>2. QED
    BY <2>1, FS_Subset, FS_CardinalityType
<1>2. IInv /\ DeliveriesOverlap /\ [Next]_vars => DeliveriesOverlap'
  <2> SUFFICES ASSUME IInv, DeliveriesOverlap, [Next]_vars, NEW id \in Links
               PROVE  (delivered[id] + Cardinality(Holders(id)) <= Cardinality(Handlers))'
    BY DEF DeliveriesOverlap
  <2>1. /\ delivered \in [Links -> Nat] /\ delivered[id] \in Nat
        /\ delivered[id] + Cardinality(Holders(id)) <= Cardinality(Handlers)
    BY DEF DeliveriesOverlap, IInv, TypeOK
  <2>2. /\ Holders(id) \in SUBSET Handlers /\ Holders(id)' \in SUBSET Handlers
        /\ IsFiniteSet(Holders(id)) /\ IsFiniteSet(Holders(id)')
        /\ Cardinality(Holders(id)) \in Nat /\ Cardinality(Holders(id)') \in Nat
        /\ Cardinality(Handlers) \in Nat
    <3>1. Holders(id) \in SUBSET Handlers /\ Holders(id)' \in SUBSET Handlers
      BY DEF Holders
    <3>2. QED
      BY <3>1, FS_Subset, FS_CardinalityType
  <2>3. CASE delivered' # delivered
    <3>1. PICK h \in Handlers : Respond(h)
      BY <2>3, OnlyRespondDelivers
    <3>2. /\ h \in Holders(req[h].slug)
          /\ delivered' = [delivered EXCEPT ![req[h].slug] = @ + 1]
          /\ Holders(id)' = IF id = req[h].slug THEN Holders(id) \ {h} ELSE Holders(id)
      BY <2>3, <3>1, RespondGivesUp
    <3>3. CASE id = req[h].slug
      <4>1. delivered'[id] = delivered[id] + 1 /\ Holders(id)' = Holders(id) \ {h}
        BY <2>1, <3>2, <3>3
      <4>2. Cardinality(Holders(id)') = Cardinality(Holders(id)) - 1
        BY <2>2, <3>2, <3>3, <4>1, FS_RemoveElement
      <4>3. QED
        BY <2>1, <2>2, <4>1, <4>2
    <3>4. CASE id # req[h].slug
      BY <2>1, <3>2, <3>4
    <3>5. QED
      BY <3>3, <3>4
  <2>4. CASE delivered' = delivered /\ delivered[id] = 0
    <3>1. Cardinality(Holders(id)') <= Cardinality(Handlers)
      BY <2>2, FS_Subset
    <3>2. QED
      BY <2>2, <2>4, <3>1
  <2>5. CASE delivered' = delivered /\ delivered[id] # 0
    <3>1. Closed(id)
      BY <2>1, <2>5 DEF IInv, SpentForGood
    <3>2. \A h \in Handlers : Holds(h, id)' => Holds(h, id)
      BY <3>1, HoldsOrigin DEF Closed
    <3>3. Holders(id)' \in SUBSET Holders(id)
      BY <3>2 DEF Holders
    <3>4. Cardinality(Holders(id)') <= Cardinality(Holders(id))
      BY <2>2, <3>3, FS_Subset
    <3>5. QED
      BY <2>1, <2>2, <2>5, <3>4
  <2>6. QED
    BY <2>3, <2>4, <2>5
<1>3. QED
  BY <1>1, <1>2, InductiveInvariant, PTL DEF Spec

-----------------------------------------------------------------------------
(* Where the documentation is right *)

USE DEF Idle, AccessPCs

(* README.md:37, "Links are single-use", is true of a server that has one  *)
(* request at a time: only overlapping requests deliver a secret twice.    *)
THEOREM SingleUseWithoutOverlap ==
  ASSUME NEW h, Handlers = {h}
  PROVE  Spec => []SingleUse
<1>0. IsFiniteSet(Handlers) /\ Cardinality(Handlers) = 1
  BY FS_Singleton
<1>1. IInv /\ DeliveriesOverlap => SingleUse
  <2> SUFFICES ASSUME IInv, DeliveriesOverlap, NEW id \in Links
               PROVE  delivered[id] <= 1
    BY DEF SingleUse
  <2>1. Holders(id) \in SUBSET Handlers
    BY DEF Holders
  <2>2. Cardinality(Holders(id)) \in Nat
    BY <1>0, <2>1, FS_Subset, FS_CardinalityType
  <2>3. delivered[id] \in Nat
    BY DEF IInv, TypeOK
  <2>4. delivered[id] + Cardinality(Holders(id)) <= Cardinality(Handlers)
    BY DEF DeliveriesOverlap
  <2>5. QED
    BY <1>0, <2>2, <2>3, <2>4
<1>2. Spec => []DeliveriesOverlap
  BY <1>0, DeliveriesAreOverlaps
<1>3. QED
  BY <1>1, <1>2, InductiveInvariant, PTL

(* Nothing expires: no row has, and no insert brings, an expiry. *)
NothingExpires ==
    /\ \A id \in Links : Exists(id) => links[id].expires_at = Nil
    /\ \A h \in Handlers : pc[h] = "Create" => req[h].link.expires_at = Nil

LEMMA NothingExpiresNext ==
  ASSUME ExpiresIn = {Nil}, IInv, NothingExpires, [Next]_vars
  PROVE  NothingExpires'
<1>0. TypeOK /\ Evolves /\ IInv'
  BY EvolvesNext, IInvNext DEF IInv
<1>1. ASSUME NEW h \in Handlers, pc'[h] = "Create"
      PROVE  req'[h].link.expires_at = Nil
  <2>0. pc \in [Handlers -> PCs] /\ req \in [Handlers -> Request]
    BY <1>0 DEF TypeOK
  <2>1. ASSUME NEW id \in Links, NEW key \in Keys, NEW expiresIn \in ExpiresIn,
               NEW user \in Users \cup {Nil}, NEW other \in Handlers,
               BeginCreate(other, id, key, expiresIn, user)
        PROVE  req'[h].link.expires_at = Nil
    <3>1. CASE other # h
      BY <1>1, <2>0, <2>1, <3>1 DEF BeginCreate, Arrive, NothingExpires
    <3>2. CASE other = h
      <4>1. req'[h].link = NewLink(key, expiresIn, user)
        BY <2>0, <2>1, <3>2 DEF BeginCreate, Arrive, NoRequest
      <4>2. QED
        BY <4>1 DEF NewLink
    <3>3. QED
      BY <3>1, <3>2
  <2>2. ASSUME ~\E id \in Links, key \in Keys, expiresIn \in ExpiresIn,
                   user \in Users \cup {Nil}, other \in Handlers :
                      BeginCreate(other, id, key, expiresIn, user)
        PROVE  pc[h] = "Create" /\ req'[h] = req[h]
    <3>1. ASSUME NEW other \in Handlers, Arrival(other) \/ HandlerStep(other)
          PROVE  pc[h] = "Create" /\ req'[h] = req[h]
      BY <1>1, <2>0, <2>2, <3>1
         DEF Arrival, BeginAccess, BeginDelete, Arrive,
             HandlerStep, GetBySlug, CheckAccess, UpdateExpired, OpenLink,
             UpdateOpened, Respond, InsertLink, GetForDelete, CheckOwner,
             DeleteLink, WriteFails, Goto, Keep, Return
    <3>2. QED
      BY <1>1, <2>0, <3>1 DEF Next, WriteAccessLog, Janitor, Tick, Crash, vars, locals
  <2>3. QED
    BY <2>1, <2>2 DEF NothingExpires
<1>2. ASSUME NEW id \in Links, Exists(id)'
      PROVE  links'[id].expires_at = Nil
  <2>1. CASE id \in published
    BY <1>0, <1>2, <2>1 DEF Evolves, NothingExpires
  <2>2. CASE id \notin published
    <3>1. id \in published'
      BY <1>0, <1>2 DEF IInv, BornOnce
    <3>2. PICK h \in Handlers : InsertLink(h) /\ published' = published \cup {req[h].slug}
      BY <2>2, <3>1
         DEF Next, Arrival, HandlerStep, BeginAccess, BeginCreate, BeginDelete,
         GetBySlug, CheckAccess, UpdateExpired, OpenLink, UpdateOpened, Respond,
         InsertLink, GetForDelete, CheckOwner, DeleteLink, WriteAccessLog,
         Janitor, Tick, Crash, vars, history
    <3>3. links'[id] = req[h].link /\ pc[h] = "Create"
      BY <1>0, <2>2, <3>1, <3>2 DEF InsertLink, Create, TypeOK, LinkRows
    <3>4. QED
      BY <3>3 DEF NothingExpires
  <2>3. QED
    BY <2>1, <2>2
<1>3. QED
  BY <1>1, <1>2 DEF NothingExpires, Exists

(* A served link has lost its text. *)
Blank(id) == Exists(id) => links[id].ciphered_text = Erased

ServedBlank ==
    /\ \A id \in Links : delivered[id] > 0 => Blank(id)
    /\ \A h \in Handlers : pc[h] = "Respond" => Blank(req[h].slug)

(* A lazy expiry that would write the text back. *)
NoRevival ==
    \A h \in Handlers :
        (pc[h] = "UpdateExpired" /\ Exists(req[h].slug) /\ Blank(req[h].slug)) =>
            req[h].link.ciphered_text = Erased

LEMMA BlankKept ==
  ASSUME IInv, NoRevival, [Next]_vars, NEW id \in published, Blank(id)
  PROVE  Blank(id)'
<1>0. TypeOK /\ Evolves /\ id \in Links
  BY EvolvesNext DEF IInv, TypeOK
<1> SUFFICES ASSUME Exists(id)' PROVE links'[id].ciphered_text = Erased
  BY DEF Blank
<1>1. Exists(id) /\ links[id].ciphered_text = Erased
  BY <1>0 DEF Evolves, Blank
<1>2. ASSUME NEW h \in Handlers, UpdateExpired(h) \/ UpdateOpened(h)
      PROVE  links'[id].ciphered_text = Erased
  <2>1. /\ req[h].slug \in Links /\ req[h].link \in Link
        /\ CopyFits(h)
    BY <1>0, <1>2, RequestTypes DEF UpdateExpired, UpdateOpened, IInv, LocalsOK
  <2>2. CASE links' = links
    BY <1>1, <2>2
  <2>3. CASE Update(req[h].slug, req[h].link) /\ req[h].slug = id
    <3>1. req[h].link.ciphered_text = Erased
      BY <1>1, <1>2, <2>1, <2>3
         DEF UpdateExpired, UpdateOpened, CopyFits, NoRevival, Blank
    <3>2. QED
      BY <1>0, <1>1, <2>1, <2>3, <3>1, UpdateEffect
  <2>4. CASE Update(req[h].slug, req[h].link) /\ req[h].slug # id
    BY <1>0, <1>1, <2>1, <2>4, UpdateEffect
  <2>5. QED
    BY <1>2, <2>2, <2>3, <2>4 DEF UpdateExpired, UpdateOpened, WriteFails, tables
<1>3. CASE Janitor
  BY <1>0, <1>1, <1>3, JanitorEffect DEF Janitor
<1>4. ASSUME NEW h \in Handlers, InsertLink(h)
      PROVE  links'[id] = links[id]
  BY <1>0, <1>4 DEF InsertLink, IInv, BornOnce, Create, tables, TypeOK, LinkRows
<1>5. ASSUME NEW h \in Handlers, DeleteLink(h)
      PROVE  links'[id] = links[id]
  BY <1>0, <1>5, NilAssumption
     DEF DeleteLink, WriteFails, Delete, tables, TypeOK, LinkRows, Exists
<1>6. QED
  BY <1>1, <1>2, <1>3, <1>4, <1>5
     DEF Next, Arrival, HandlerStep, BeginAccess, BeginCreate, BeginDelete,
         GetBySlug, CheckAccess, OpenLink, Respond, GetForDelete, CheckOwner,
         WriteAccessLog, CreateAccessLog, Tick, Crash, vars, tables

LEMMA ServedBlankNext ==
  ASSUME IInv, NoRevival, ServedBlank, [Next]_vars
  PROVE  ServedBlank'
<1>0. TypeOK /\ TypeOK' /\ IInv' /\ Evolves
  BY IInvNext, EvolvesNext DEF IInv
<1>1. ASSUME NEW h \in Handlers, NEW id, id = req'[h].slug, pc'[h] = "Respond"
      PROVE  Blank(id)'
  <2>1. CASE pc[h] = "Respond" /\ req'[h] = req[h]
    <3>1. id \in published /\ Blank(id)
      BY <1>1, <2>1 DEF ServedBlank, IInv, CopyFits, Closed
    <3>2. QED
      BY <3>1, BlankKept
  <2>2. CASE UpdateOpened(h)
    <3>1. Goto(h, "Respond") /\ Update(req[h].slug, req[h].link)
      BY <1>0, <1>1, <2>2, ReturnType DEF UpdateOpened, WriteFails
    <3>2. /\ id = req[h].slug /\ id \in Links /\ req[h].link \in Link
          /\ req[h].link.ciphered_text = Erased
      BY <1>0, <1>1, <2>2, <3>1, RequestTypes
         DEF UpdateOpened, Goto, IInv, LocalsOK, CopyFits
    <3>3. QED
      BY <1>0, <3>1, <3>2, UpdateEffect DEF Blank, Exists
  <2>3. QED
    BY <1>0, <1>1, <2>1, <2>2, RespondOrigin
<1>2. ASSUME NEW id \in Links, delivered'[id] > 0
      PROVE  Blank(id)'
  <2>1. CASE delivered[id] > 0
    <3>1. id \in published /\ Blank(id)
      BY <2>1 DEF ServedBlank, IInv, SpentForGood, Closed
    <3>2. QED
      BY <3>1, BlankKept
  <2>2. CASE delivered'[id] # delivered[id]
    <3>1. PICK h \in Handlers : pc[h] = "Respond" /\ req[h].slug = id
      BY <1>0, <2>2, DeliveryOrigin
    <3>2. id \in published /\ Blank(id)
      BY <3>1 DEF ServedBlank, IInv, CopyFits, Closed
    <3>3. QED
      BY <3>2, BlankKept
  <2>3. QED
    BY <1>0, <1>2, <2>1, <2>2
<1>3. (\A h \in Handlers : pc[h] = "Respond" => Blank(req[h].slug))'
  BY <1>1 DEF Blank, Exists
<1>4. QED
  BY <1>2, <1>3 DEF ServedBlank

LEMMA NothingServedYet == Init => ServedBlank
  BY DEF Init, ServedBlank

LEMMA ServedIsErased == IInv /\ ServedBlank => ErasedOnceServed
  BY DEF ServedBlank, ErasedOnceServed, Blank

(* ViewSecretScreen.tsx:114-115, the content is destroyed for good once it *)
(* was viewed, is true of links that do not expire, however their requests *)
(* overlap: only a lazy expiry writes the text of a served link back.      *)
THEOREM ErasedWhenNothingExpires ==
  ASSUME ExpiresIn = {Nil}
  PROVE  Spec => []ErasedOnceServed
<1>1. Init => NothingExpires
  BY DEF Init, RepositoryInit, NothingExpires, Exists
<1>2. IInv /\ NothingExpires => NoRevival
  BY DEF NothingExpires, NoRevival, IInv, LocalsOK, CopyCurrent, CopyFits, IsExpired
<1>3. IInv /\ NothingExpires /\ [Next]_vars => NothingExpires'
  BY NothingExpiresNext
<1>4. IInv /\ NoRevival /\ ServedBlank /\ [Next]_vars => ServedBlank'
  BY ServedBlankNext
<1>5. Init => ServedBlank
  BY NothingServedYet
<1>6. QED
  BY <1>1, <1>2, <1>3, <1>4, <1>5, ServedIsErased, InductiveInvariant, PTL DEF Spec

(* The copy of a handler that is alone has the text of the row. *)
CopyHasText ==
    \A h \in Handlers :
        (/\ pc[h] \in {"CanAccess", "UpdateExpired"}
         /\ req[h].link # Nil /\ Exists(req[h].slug)) =>
              req[h].link.ciphered_text = links[req[h].slug].ciphered_text

LEMMA CopyHasTextNext ==
  ASSUME NEW h, Handlers = {h}, IInv, CopyHasText, [Next]_vars
  PROVE  CopyHasText'
<1>0. /\ TypeOK /\ pc \in [Handlers -> PCs] /\ req \in [Handlers -> Request]
      /\ h \in Handlers /\ Evolves
  BY EvolvesNext DEF IInv, TypeOK
<1> SUFFICES ASSUME pc'[h] \in {"CanAccess", "UpdateExpired"},
                    req'[h].link # Nil, links'[req'[h].slug] # Nil
             PROVE  req'[h].link.ciphered_text = links'[req'[h].slug].ciphered_text
  BY <1>0 DEF CopyHasText, Exists
<1>1. CASE GetBySlug(h)
  <2>1. Keep(h, "CanAccess", links[req[h].slug]) /\ links' = links
    BY <1>0, <1>1 DEF GetBySlug, Return, tables
  <2>2. QED
    BY <1>0, <2>1 DEF Keep, Request
<1>2. CASE CheckAccess(h)
  <2>1. /\ Keep(h, "UpdateExpired", Invalidated(req[h].link)) /\ req[h].link # Nil
        /\ links' = links /\ pc[h] = "CanAccess"
    BY <1>0, <1>2 DEF CheckAccess, Goto, Return, tables, ExpiresLazily
  <2>2. req'[h].slug = req[h].slug /\ req'[h].link = Invalidated(req[h].link)
    BY <1>0, <2>1 DEF Keep, Request
  <2>3. req[h].link \in Link
    BY <1>0, <2>1, RequestTypes
  <2>4. req'[h].link.ciphered_text = req[h].link.ciphered_text
    BY <2>2, <2>3 DEF Invalidated, Link
  <2>5. Exists(req[h].slug)
    BY <2>1, <2>2 DEF Exists
  <2>6. QED
    BY <1>0, <2>1, <2>2, <2>4, <2>5 DEF CopyHasText
<1>3. CASE Janitor \/ Tick \/ (\E g \in Handlers \X Links : WriteAccessLog(g))
             \/ UNCHANGED vars
  <2>1. pc' = pc /\ req' = req
    BY <1>3 DEF Janitor, Tick, WriteAccessLog, vars, locals
  <2>2. PICK id \in Links : id = req[h].slug
    BY <1>0, <2>1 DEF IInv, LocalsOK
  <2>3. Exists(id) /\ (links' = links \/ links'[id].ciphered_text = links[id].ciphered_text)
    <3>1. CASE Janitor
      <4>1. InvalidateExpiredLinks(now) /\ Exists(id)'
        BY <2>1, <2>2, <3>1 DEF Janitor, Exists
      <4>2. Exists(id)
        BY <1>0, <4>1, JanitorEffect DEF Exists
      <4>3. QED
        BY <1>0, <4>1, <4>2, JanitorEffect
    <3>2. CASE ~Janitor
      BY <1>3, <2>1, <2>2, <3>2
         DEF Tick, WriteAccessLog, CreateAccessLog, vars, tables, Exists
    <3>3. QED
      BY <3>1, <3>2
  <2>4. QED
    BY <1>0, <2>1, <2>2, <2>3 DEF CopyHasText
<1>4. CASE \/ Arrival(h) \/ Crash
           \/ UpdateExpired(h) \/ OpenLink(h) \/ UpdateOpened(h) \/ Respond(h)
           \/ InsertLink(h) \/ GetForDelete(h) \/ CheckOwner(h) \/ DeleteLink(h)
  BY <1>0, <1>4
     DEF Arrival, BeginAccess, BeginCreate, BeginDelete, Arrive, Crash,
         UpdateExpired, OpenLink, UpdateOpened, Respond, InsertLink, GetForDelete,
         CheckOwner, DeleteLink, WriteFails, Goto, Keep, Return
<1>5. QED
  BY <1>1, <1>2, <1>3, <1>4 DEF Next, HandlerStep

(* The same is true of all links when requests come one at a time: nobody  *)
(* opens the link between the read and the write of a lazy expiry.         *)
THEOREM ErasedWithoutOverlap ==
  ASSUME NEW h, Handlers = {h}
  PROVE  Spec => []ErasedOnceServed
<1>1. Init => CopyHasText
  BY DEF Init, CopyHasText
<1>2. IInv /\ CopyHasText => NoRevival
  BY DEF CopyHasText, NoRevival, IInv, LocalsOK, Blank
<1>3. IInv /\ CopyHasText /\ [Next]_vars => CopyHasText'
  BY CopyHasTextNext
<1>4. IInv /\ NoRevival /\ ServedBlank /\ [Next]_vars => ServedBlank'
  BY ServedBlankNext
<1>5. Init => ServedBlank
  BY NothingServedYet
<1>6. QED
  BY <1>1, <1>2, <1>3, <1>4, <1>5, ServedIsErased, InductiveInvariant, PTL DEF Spec
=========================================================================
