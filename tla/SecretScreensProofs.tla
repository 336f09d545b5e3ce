----------------------- MODULE SecretScreensProofs -----------------------
(* Proofs about the screens in front of the link service: they only use    *)
(* the service as LinkService lets any client, so that its invariant holds;*)
(* the keys, the copies and the screens add their own.                     *)
EXTENDS LinkRefinementProofs, SecretScreens

USE DEF Idle, AccessPCs, CreatePCs, DeletePCs

(* What readers and senders hold has its type. *)
LEMMA ScreenTypes ==
  ASSUME ScreensTypeOK
  PROVE  /\ \A r \in Readers : /\ reader[r] \in ViewScreen
                               /\ reader[r].slug \in Links \cup {Nil}
                               /\ reader[r].key \in Keys \cup {Nil}
         /\ \A s \in Senders : /\ sender[s] \in CreateScreen
                               /\ sender[s].key \in AesKeys \cup {Nil}
  BY DEF ScreensTypeOK, ViewScreen, CreateScreen

(* A screen's request is one that LinkService accepts from anyone. *)
LEMMA Lift ==
  ASSUME ScreensInv, [ScreensNext]_screenVars
  PROVE  [Next]_vars
<1>1. ASSUME NEW s \in Senders, NEW h \in Handlers, HandleEncrypt(s, h)
      PROVE  Next
  <2>1. PICK key \in FreshKeys, id \in Links, expiresIn \in ExpiresIn \ {Nil},
             user \in Users : BeginCreate(h, id, key, expiresIn, user)
    BY <1>1 DEF HandleEncrypt
  <2>2. key \in Keys
    BY KeysAssumption DEF FreshKeys
  <2>3. QED
    BY <2>1, <2>2 DEF Next, Arrival
<1>2. ASSUME NEW r \in Readers, NEW h \in Handlers, HandleDecrypt(r, h)
      PROVE  Next
  <2>0. /\ reader[r].slug \in Links \cup {Nil} /\ reader[r].key \in Keys \cup {Nil}
        /\ reader[r].slug = Nil => reader[r] = NoPage
    BY ScreenTypes DEF ScreensInv, ReaderInv
  <2>1. /\ reader[r].key # Nil
        /\ BeginAccess(h, reader[r].slug, reader[r].key)
    BY <1>2 DEF HandleDecrypt
  <2>2. NoPage.key = Nil
    BY DEF NoPage, Page
  <2>3. reader[r].slug \in Links /\ reader[r].key \in Keys
    BY <2>0, <2>1, <2>2
  <2>4. \E id \in Links, key \in Keys : BeginAccess(h, id, key)
    BY <2>1, <2>3
  <2>5. QED
    BY <2>4 DEF Next, Arrival
<1>3. ASSUME NEW h \in Handlers, Serve(h) \/ \E id \in Links, user \in Users : Discard(h, id, user)
      PROVE  Next
  BY <1>3 DEF Serve, Discard, Next, Arrival
<1>4. Background \/ CrashServer => Next
  BY DEF Background, CrashServer, Next
<1>5. QED
  BY <1>1, <1>2, <1>3, <1>4
     DEF ScreensNext, SenderStep, ReaderStep, Share, NewSecret, LoseCreate,
         Visit, Paste, TryAgain, ConfirmAndLeave, Leave, LoseAccess, screenVars

(* What the service's invariant gives in one step of the screens. *)
LEMMA ServiceStep ==
  ASSUME ScreensInv, [ScreensNext]_screenVars
  PROVE  IInv /\ IInv' /\ TypeOK /\ TypeOK' /\ Evolves
  BY Lift, IInvNext, EvolvesNext DEF ScreensInv, IInv

-----------------------------------------------------------------------------
(* Keys *)

(* A ciphertext keeps its key once its id was issued. *)
LEMMA SealedKept ==
  ASSUME ScreensInv, [ScreensNext]_screenVars, NEW id \in issued
  PROVE  sealed'[id] = sealed[id]
<1>1. ASSUME NEW s \in Senders, NEW h \in Handlers, HandleEncrypt(s, h)
      PROVE  sealed'[id] = sealed[id]
  BY <1>1 DEF HandleEncrypt, BeginCreate, ScreensInv, ScreensTypeOK
<1>2. QED
  BY <1>1
     DEF ScreensNext, SenderStep, ReaderStep, Share, NewSecret, LoseCreate,
         Visit, Paste, HandleDecrypt, TryAgain, ConfirmAndLeave, Leave,
         LoseAccess, Serve, Discard, Background, CrashServer, screenVars, screens

(* Whoever holds a copy, or is past the comparison, has an issued slug. *)
LEMMA SlugIssued ==
  ASSUME IInv, NEW h \in Handlers, pc[h] # Idle,
         req[h].link # Nil \/ pc[h] = "Respond"
  PROVE  req[h].slug \in issued /\ req[h].slug \in Links
  BY DEF IInv, LocalsOK, BornOnce, CopyCurrent, CopyFits, Closed, TypeOK, PCs

(* Update writes the hash of the caller's copy. *)
LEMMA UpdateHash ==
  ASSUME TypeOK, NEW id \in Links, NEW link \in Link, Update(id, link)
  PROVE  /\ \A other \in Links \ {id} : links'[other] = links[other]
         /\ Exists(id)' => links'[id].hashed_key = link.hashed_key
  BY DEF Update, TypeOK, LinkRows, Link, Exists

(* Rows keep the hash of the key that decrypts their text. *)
LEMMA RowsNext ==
  ASSUME IInv, KeyInv, [Next]_vars, NEW id \in Links, Exists(id)'
  PROVE  links'[id].hashed_key = sealed[id]
<1>0. TypeOK
  BY DEF IInv
<1>1. ASSUME NEW h \in Handlers, UpdateExpired(h) \/ UpdateOpened(h)
      PROVE  links'[id].hashed_key = sealed[id]
  <2>1. req[h].slug \in Links /\ req[h].link \in Link
        /\ req[h].link.hashed_key = sealed[req[h].slug]
    BY <1>0, <1>1, RequestTypes
       DEF UpdateExpired, UpdateOpened, IInv, LocalsOK, KeyInv, CopySealed
  <2>2. CASE Update(req[h].slug, req[h].link)
    BY <1>0, <2>1, <2>2, UpdateHash DEF KeyInv, RowSealed, Exists
  <2>3. CASE UNCHANGED links
    BY <2>3 DEF KeyInv, RowSealed, Exists
  <2>4. QED
    BY <1>1, <2>2, <2>3 DEF UpdateExpired, UpdateOpened, WriteFails, tables
<1>2. ASSUME NEW h \in Handlers, InsertLink(h)
      PROVE  links'[id].hashed_key = sealed[id]
  <2>1. req[h].slug \in Links /\ req[h].link # Nil
        /\ req[h].link.hashed_key = sealed[req[h].slug]
    BY <1>2 DEF InsertLink, IInv, LocalsOK, KeyInv, CopySealed
  <2>2. CASE Create(req[h].slug, req[h].link)
    BY <1>0, <2>1, <2>2 DEF Create, TypeOK, LinkRows, KeyInv, RowSealed, Exists
  <2>3. CASE UNCHANGED links
    BY <2>3 DEF KeyInv, RowSealed, Exists
  <2>4. QED
    BY <1>2, <2>2, <2>3 DEF InsertLink, tables
<1>3. ASSUME NEW h \in Handlers, DeleteLink(h)
      PROVE  links'[id].hashed_key = sealed[id]
  BY <1>0, <1>3 DEF DeleteLink, WriteFails, Delete, tables, TypeOK, LinkRows,
                    KeyInv, RowSealed, Exists
<1>4. CASE Janitor
  <2>1. Exists(id) /\ links[id] \in Link
    BY <1>0, <1>4, RowType DEF Janitor, InvalidateExpiredLinks, Exists, Overdue
  <2>2. QED
    BY <1>4, <2>1 DEF Janitor, InvalidateExpiredLinks, Invalidated, Link,
                      KeyInv, RowSealed
<1>5. CASE UNCHANGED links
  BY <1>5 DEF KeyInv, RowSealed, Exists
<1>6. QED
  BY <1>1, <1>2, <1>3, <1>4, <1>5
     DEF Next, Arrival, HandlerStep, BeginAccess, GetBySlug, CheckAccess,
         OpenLink, Respond, WriteAccessLog, CreateAccessLog, BeginCreate,
         BeginDelete, GetForDelete, CheckOwner, Tick, Crash, vars, tables

(* The moves of a handler keep its copy's key, and compare it on the way   *)
(* to Open.                                                                *)
LEMMA CopiesNext ==
  ASSUME IInv, KeyInv, NEW h \in Handlers, HandlerStep(h)
  PROVE  /\ pc'[h] # Idle => req'[h].slug = req[h].slug /\ req'[h].key = req[h].key
         /\ (pc'[h] # Idle /\ req'[h].link # Nil) =>
               req'[h].link.hashed_key = sealed[req[h].slug]
         /\ pc'[h] \in {"Open", "UpdateOpened", "Respond"} =>
               req[h].key = sealed[req[h].slug]
<1>0. /\ TypeOK /\ pc \in [Handlers -> PCs] /\ req \in [Handlers -> Request]
      /\ req[h] \in Request /\ CopySealed(h) /\ KeyCompared(h)
      /\ pc[h] # Idle => req[h].slug \in Links
  BY DEF IInv, TypeOK, KeyInv, LocalsOK
<1>1. ASSUME NEW call, NEW link, Keep(h, call, link)
      PROVE  /\ req'[h].slug = req[h].slug /\ req'[h].key = req[h].key
             /\ req'[h].link = link /\ pc'[h] = call
  BY <1>0, <1>1 DEF Keep, Request
<1>2. CASE GetBySlug(h) \/ GetForDelete(h)
  <2>1. CASE Return(h)
    BY <1>0, <2>1 DEF Return
  <2>2. links[req[h].slug] # Nil => links[req[h].slug].hashed_key = sealed[req[h].slug]
    BY <1>0, <1>2 DEF GetBySlug, GetForDelete, KeyInv, RowSealed, Exists
  <2>3. QED
    BY <1>1, <1>2, <2>1, <2>2 DEF GetBySlug, GetForDelete
<1>3. CASE CheckAccess(h)
  <2>1. CASE Return(h)
    BY <1>0, <2>1 DEF Return
  <2>2. CASE Granted(req[h].link, req[h].key) /\ Goto(h, "Open")
    BY <1>0, <1>3, <2>2 DEF CheckAccess, Goto, Granted, CopySealed
  <2>3. CASE ExpiresLazily(req[h].link)
             /\ Keep(h, "UpdateExpired", Invalidated(req[h].link))
    <3>1. req[h].link \in Link /\ req[h].link.hashed_key = sealed[req[h].slug]
      BY <1>0, <1>3, <2>3, RequestTypes DEF CheckAccess, ExpiresLazily, CopySealed
    <3>2. Invalidated(req[h].link).hashed_key = req[h].link.hashed_key
      BY <3>1 DEF Invalidated, Link
    <3>3. QED
      BY <1>1, <2>3, <3>1, <3>2
  <2>4. QED
    BY <1>3, <2>1, <2>2, <2>3 DEF CheckAccess
<1>4. CASE OpenLink(h)
  <2>1. CASE Return(h)
    BY <1>0, <2>1 DEF Return
  <2>2. CASE OpenSucceeds(req[h].link, now)
    <3>1. /\ req[h].link \in Link /\ req[h].link.hashed_key = sealed[req[h].slug]
          /\ req[h].key = sealed[req[h].slug]
      BY <1>0, <1>4, RequestTypes DEF OpenLink, IInv, LocalsOK, CopySealed, KeyCompared
    <3>2. Opened(req[h].link).hashed_key = req[h].link.hashed_key
      BY <3>1 DEF Opened, Link
    <3>3. /\ req'[h].link = Opened(req[h].link) /\ req'[h].slug = req[h].slug
          /\ req'[h].key = req[h].key
      BY <1>0, <1>4, <2>2, LinkTypes, <3>1 DEF OpenLink, Request
    <3>4. QED
      BY <3>1, <3>2, <3>3
  <2>3. QED
    BY <1>4, <2>1, <2>2 DEF OpenLink
<1>5. CASE UpdateOpened(h) \/ CheckOwner(h)
  BY <1>0, <1>5 DEF UpdateOpened, CheckOwner, WriteFails, Goto, Return,
                    CopySealed, KeyCompared
<1>6. CASE UpdateExpired(h) \/ Respond(h) \/ InsertLink(h) \/ DeleteLink(h)
  BY <1>0, <1>6 DEF UpdateExpired, Respond, InsertLink, DeleteLink, WriteFails,
                    Return
<1>7. QED
  BY <1>2, <1>3, <1>4, <1>5, <1>6 DEF HandlerStep

-----------------------------------------------------------------------------
(* What a step does to one handler *)

(* Only an arrival from the create screen seals a text. *)
LEMMA SealedStep ==
  ASSUME [ScreensNext]_screenVars
  PROVE  \/ sealed' = sealed
         \/ \E s \in Senders, h \in Handlers : HandleEncrypt(s, h)
  BY DEF ScreensNext, SenderStep, ReaderStep, Share, NewSecret, LoseCreate,
         Visit, Paste, HandleDecrypt, TryAgain, ConfirmAndLeave, Leave,
         LoseAccess, Serve, Discard, Background, CrashServer, screenVars, screens

(* A step of one handler leaves the others where they are. *)
LEMMA OthersStay ==
  ASSUME TypeOK, NEW h \in Handlers, NEW other \in Handlers \ {h},
         HandlerStep(other) \/ Arrival(other)
  PROVE  pc'[h] = pc[h] /\ req'[h] = req[h]
<1>0. pc \in [Handlers -> PCs] /\ req \in [Handlers -> Request]
  BY DEF TypeOK
<1>1. CASE Arrival(other)
  BY <1>0, <1>1 DEF Arrival, BeginAccess, BeginCreate, BeginDelete, Arrive
<1>2. CASE HandlerStep(other)
  BY <1>0, <1>2
     DEF HandlerStep, GetBySlug, CheckAccess, UpdateExpired, OpenLink,
         UpdateOpened, Respond, InsertLink, GetForDelete, CheckOwner,
         DeleteLink, WriteFails, Goto, Keep, Return
<1>3. QED
  BY <1>1, <1>2

Stays(h) == pc'[h] = pc[h] /\ req'[h] = req[h]

(* What may happen to a handler in a step of the screens. *)
LEMMA HandlerMoves ==
  ASSUME ScreensInv, [ScreensNext]_screenVars, NEW h \in Handlers
  PROVE  \/ Stays(h)
         \/ Serve(h)
         \/ \E s \in Senders : HandleEncrypt(s, h)
         \/ \E r \in Readers : HandleDecrypt(r, h)
         \/ \E id \in Links, user \in Users : Discard(h, id, user)
         \/ CrashServer
<1>0. TypeOK
  BY ServiceStep
<1>1. ASSUME NEW s \in Senders, NEW other \in Handlers \ {h}, HandleEncrypt(s, other)
      PROVE  Stays(h)
  BY <1>0, <1>1 DEF HandleEncrypt, BeginCreate, Arrive, TypeOK, Stays
<1>2. ASSUME NEW r \in Readers, NEW other \in Handlers \ {h}, HandleDecrypt(r, other)
      PROVE  Stays(h)
  BY <1>0, <1>2 DEF HandleDecrypt, BeginAccess, Arrive, TypeOK, Stays
<1>3. ASSUME NEW other \in Handlers \ {h}, Serve(other)
      PROVE  Stays(h)
  BY <1>0, <1>3, OthersStay DEF Serve, Stays
<1>4. ASSUME NEW other \in Handlers \ {h}, NEW id \in Links, NEW user \in Users,
             Discard(other, id, user)
      PROVE  Stays(h)
  BY <1>0, <1>4 DEF Discard, BeginDelete, Arrive, TypeOK, Stays
<1>5. ASSUME UNCHANGED vars \/ Background
      PROVE  Stays(h)
  BY <1>5 DEF vars, locals, Background, WriteAccessLog, Janitor, Tick, Stays
<1>6. ASSUME NEW s \in Senders, SenderStep(s)
      PROVE  Stays(h) \/ HandleEncrypt(s, h)
  <2>1. UNCHANGED vars \/ \E other \in Handlers : HandleEncrypt(s, other)
    BY <1>6 DEF SenderStep, Share, NewSecret, LoseCreate
  <2>2. QED
    BY <1>1, <1>5, <2>1
<1>7. ASSUME NEW r \in Readers, ReaderStep(r)
      PROVE  Stays(h) \/ HandleDecrypt(r, h)
  <2>1. UNCHANGED vars \/ \E other \in Handlers : HandleDecrypt(r, other)
    BY <1>7 DEF ReaderStep, Visit, Paste, TryAgain, ConfirmAndLeave, Leave,
                LoseAccess
  <2>2. QED
    BY <1>2, <1>5, <2>1
<1>8. QED
  BY <1>3, <1>4, <1>5, <1>6, <1>7 DEF ScreensNext, screenVars

(* Every step keeps the hashes of the rows and of the copies those of the  *)
(* keys that decrypt the texts.                                            *)
LEMMA KeyNext == ScreensInv /\ [ScreensNext]_screenVars => KeyInv'
<1> SUFFICES ASSUME ScreensInv, [ScreensNext]_screenVars PROVE KeyInv'
  OBVIOUS
<1>0. /\ IInv /\ IInv' /\ TypeOK /\ TypeOK' /\ Evolves /\ KeyInv
      /\ [Next]_vars /\ ScreensTypeOK
  BY ServiceStep, Lift DEF ScreensInv
<1>1. ASSUME NEW id \in issued'
      PROVE  sealed'[id] # Nil
  <2>1. ASSUME NEW s \in Senders, NEW h \in Handlers, HandleEncrypt(s, h)
        PROVE  sealed'[id] # Nil
    BY <1>0, <1>1, <2>1, AesKeysAssumption
       DEF HandleEncrypt, BeginCreate, FreshKeys, KeyInv, ScreensTypeOK, TypeOK
  <2>2. CASE issued' = issued
    BY <1>0, <1>1, <2>2, SealedKept DEF KeyInv
  <2>3. QED
    BY <2>1, <2>2
       DEF ScreensNext, SenderStep, ReaderStep, Share, NewSecret, LoseCreate,
           Visit, Paste, HandleDecrypt, BeginAccess, TryAgain, ConfirmAndLeave,
           Leave, LoseAccess, Serve, HandlerStep, GetBySlug, CheckAccess,
           UpdateExpired, OpenLink, UpdateOpened, Respond, InsertLink,
           GetForDelete, CheckOwner, DeleteLink, Discard, BeginDelete,
           Background, WriteAccessLog, Janitor, Tick, CrashServer, Crash,
           screenVars, vars, locals
<1>2. ASSUME NEW id \in Links, Exists(id)'
      PROVE  links'[id].hashed_key = sealed'[id]
  <2>1. CASE sealed' = sealed
    BY <1>0, <1>2, <2>1, RowsNext
  <2>2. ASSUME NEW s \in Senders, NEW h \in Handlers, HandleEncrypt(s, h)
        PROVE  links'[id].hashed_key = sealed'[id]
    <3>1. links' = links
      BY <2>2 DEF HandleEncrypt, BeginCreate, tables
    <3>2. id \in issued
      BY <1>0, <1>2, <3>1 DEF IInv, BornOnce, Exists
    <3>3. QED
      BY <1>0, <1>2, <3>1, <3>2, SealedKept DEF KeyInv, RowSealed, Exists
  <2>3. QED
    BY <2>1, <2>2, SealedStep
<1>3. ASSUME NEW h \in Handlers
      PROVE  CopySealed(h)' /\ KeyCompared(h)'
  <2>1. CASE Stays(h)
    <3>1. CopySealed(h) /\ KeyCompared(h)
      BY <1>0 DEF KeyInv
    <3>2. (pc[h] # Idle /\ req[h].link # Nil) \/ pc[h] = "Respond"
             => sealed'[req[h].slug] = sealed[req[h].slug]
      BY <1>0, SlugIssued, SealedKept
    <3>3. pc[h] \in {"Open", "UpdateOpened"} => req[h].link # Nil
      BY <1>0 DEF IInv, LocalsOK
    <3>4. QED
      BY <2>1, <3>1, <3>2, <3>3 DEF Stays, CopySealed, KeyCompared
  <2>2. CASE Serve(h)
    <3>1. HandlerStep(h) /\ sealed' = sealed
      BY <2>2 DEF Serve
    <3>2. QED
      BY <1>0, <3>1, CopiesNext DEF CopySealed, KeyCompared
  <2>3. ASSUME NEW s \in Senders, HandleEncrypt(s, h)
        PROVE  CopySealed(h)' /\ KeyCompared(h)'
    BY <1>0, <2>3
       DEF HandleEncrypt, BeginCreate, Arrive, NewLink, NoRequest, TypeOK,
           ScreensTypeOK, CopySealed, KeyCompared
  <2>4. ASSUME NEW r \in Readers, HandleDecrypt(r, h)
        PROVE  CopySealed(h)' /\ KeyCompared(h)'
    BY <1>0, <2>4 DEF HandleDecrypt, BeginAccess, Arrive, NoRequest, TypeOK,
                      CopySealed, KeyCompared
  <2>5. ASSUME NEW id \in Links, NEW user \in Users, Discard(h, id, user)
        PROVE  CopySealed(h)' /\ KeyCompared(h)'
    BY <1>0, <2>5 DEF Discard, BeginDelete, Arrive, NoRequest, TypeOK,
                      CopySealed, KeyCompared
  <2>6. CASE CrashServer
    BY <2>6 DEF CrashServer, Crash, CopySealed, KeyCompared
  <2>7. QED
    BY <2>1, <2>2, <2>3, <2>4, <2>5, <2>6, HandlerMoves
<1>4. QED
  BY <1>1, <1>2, <1>3 DEF KeyInv, RowSealed

-----------------------------------------------------------------------------
(* Copies *)

(* What AccessLink reads, or decides on its copy, fits the row. *)
LEMMA CopyStep ==
  ASSUME ScreensInv, [ScreensNext]_screenVars, NEW h \in Handlers,
         HandlerStep(h), pc'[h] \in AccessPCs
  PROVE  CopyInv(h)'
<1>0. /\ IInv /\ TypeOK /\ TypeOK' /\ Evolves
      /\ pc \in [Handlers -> PCs] /\ req \in [Handlers -> Request]
      /\ CopyInv(h) /\ CopyCurrent(h) /\ CopyFits(h)
      /\ pc[h] # Idle => req[h].slug \in Links
  BY ServiceStep DEF ScreensInv, IInv, TypeOK, LocalsOK
<1>1. CASE GetBySlug(h)
  <2>1. /\ Keep(h, "CanAccess", links[req[h].slug])
        /\ links' = links /\ published' = published /\ pc[h] = "GetBySlug"
    BY <1>0, <1>1 DEF GetBySlug, Return, tables, history
  <2>2. /\ pc'[h] = "CanAccess" /\ req'[h].slug = req[h].slug
        /\ req'[h].link = links[req[h].slug]
    BY <1>0, <2>1 DEF Keep, Request
  <2>3. req[h].slug \in published
    BY <1>0, <2>1 DEF CopyInv
  <2>4. QED
    BY <2>1, <2>2, <2>3 DEF CopyInv, Closed, Exists
<1>2. CASE CheckAccess(h)
  <2>1. /\ links' = links /\ published' = published /\ now' = now
        /\ pc[h] = "CanAccess" /\ req[h].slug \in published
    BY <1>0, <1>2 DEF CheckAccess, CopyInv, tables, history
  <2>2. CASE Goto(h, "Open")
    BY <1>0, <2>1, <2>2 DEF Goto, CopyInv
  <2>3. CASE ExpiresLazily(req[h].link)
             /\ Keep(h, "UpdateExpired", Invalidated(req[h].link))
    <3>1. Dead(req[h].slug)
      BY <1>0, <2>1, <2>3
         DEF ExpiresLazily, CopyCurrent, Dead, CanAccess, IsExpired
    <3>2. pc'[h] = "UpdateExpired" /\ req'[h].slug = req[h].slug
      BY <1>0, <2>3 DEF Keep, Request
    <3>3. QED
      BY <1>0, <2>1, <3>1, <3>2, DeadStable DEF CopyInv
  <2>4. QED
    BY <1>0, <1>2, <2>2, <2>3 DEF CheckAccess, Return
<1>3. CASE OpenLink(h)
  <2>1. /\ pc'[h] = "UpdateOpened" /\ req'[h].slug = req[h].slug
        /\ published' = published /\ pc[h] = "Open"
    BY <1>0, <1>3 DEF OpenLink, Return, Request, history
  <2>2. QED
    BY <1>0, <2>1 DEF CopyInv
<1>4. CASE UpdateOpened(h)
  <2>1. /\ pc'[h] = "Respond" /\ req'[h].slug = req[h].slug
        /\ published' = published /\ pc[h] = "UpdateOpened"
    BY <1>0, <1>4 DEF UpdateOpened, WriteFails, Goto, Return, history
  <2>2. QED
    BY <1>0, <2>1 DEF CopyInv
<1>5. QED
  BY <1>0, <1>1, <1>2, <1>3, <1>4
     DEF HandlerStep, UpdateExpired, Respond, InsertLink, GetForDelete,
         CheckOwner, DeleteLink, WriteFails, Keep, Goto, Return

(* A handler that does not move keeps its copy's part of the invariant. *)
LEMMA CopyStays ==
  ASSUME ScreensInv, [ScreensNext]_screenVars, NEW h \in Handlers, Stays(h)
  PROVE  CopyInv(h)'
<1>0. /\ TypeOK /\ Evolves /\ CopyInv(h)
      /\ pc[h] # Idle => req[h].slug \in Links
  BY ServiceStep DEF ScreensInv, IInv, LocalsOK
<1>1. PICK id : id = req[h].slug /\ id = req'[h].slug
  BY DEF Stays
<1>2. pc[h] \in AccessPCs => id \in published'
  BY <1>0, <1>1 DEF CopyInv, Evolves
<1>3. (pc[h] = "CanAccess" /\ req[h].link = Nil) => ~Exists(id)'
  BY <1>0, <1>1 DEF CopyInv, Evolves
<1>4. (pc[h] = "CanAccess" /\ req[h].link # Nil
         /\ req[h].link.status # StatusWaiting) => Closed(id)'
  BY <1>0, <1>1, ClosedStable DEF CopyInv
<1>5. pc[h] = "UpdateExpired" => Dead(id)'
  BY <1>0, <1>1, DeadStable DEF CopyInv
<1>6. QED
  BY <1>1, <1>2, <1>3, <1>4, <1>5 DEF CopyInv, Stays, Exists, Closed, Dead

(* Every step keeps the copies of all handlers in order. *)
LEMMA CopyNext ==
  ASSUME ScreensInv, [ScreensNext]_screenVars, NEW h \in Handlers
  PROVE  CopyInv(h)'
<1>0. TypeOK /\ Evolves
  BY ServiceStep
<1>1. CASE Serve(h)
  <2>1. HandlerStep(h)
    BY <1>1 DEF Serve
  <2>2. QED
    BY <2>1, CopyStep DEF CopyInv
<1>2. ASSUME NEW s \in Senders, HandleEncrypt(s, h)
      PROVE  CopyInv(h)'
  BY <1>0, <1>2 DEF HandleEncrypt, BeginCreate, Arrive, TypeOK, CopyInv
<1>3. ASSUME NEW r \in Readers, HandleDecrypt(r, h)
      PROVE  CopyInv(h)'
  <2>1. /\ pc'[h] = "GetBySlug" /\ req'[h].slug = reader[r].slug
        /\ published' = published /\ reader[r].key # Nil
    BY <1>0, <1>3
       DEF HandleDecrypt, BeginAccess, Arrive, NoRequest, TypeOK, history
  <2>2. NoPage.key = Nil
    BY DEF NoPage, Page
  <2>3. reader[r].slug \in published
    BY <2>1, <2>2 DEF ScreensInv, ReaderInv
  <2>4. QED
    BY <2>1, <2>3 DEF CopyInv
<1>4. ASSUME NEW id \in Links, NEW user \in Users, Discard(h, id, user)
      PROVE  CopyInv(h)'
  BY <1>0, <1>4 DEF Discard, BeginDelete, Arrive, TypeOK, CopyInv
<1>5. CASE CrashServer
  BY <1>5 DEF CrashServer, Crash, CopyInv
<1>6. QED
  BY <1>1, <1>2, <1>3, <1>4, <1>5, CopyStays, HandlerMoves

-----------------------------------------------------------------------------
(* Calls *)

(* The screen of a call in flight shows that it waits. *)
LEMMA CallerWaits ==
  ASSUME ScreensInv, NEW h \in Handlers, caller[h] # Nil
  PROVE  /\ pc[h] # Idle
         /\ caller[h] \in Senders => sender[caller[h]].step = "encrypting"
         /\ caller[h] \in Readers => reader[caller[h]].step = "decrypting"
<1>1. caller[h] \in Senders \cup Readers /\ CallInv(h)
  BY DEF ScreensInv, ScreensTypeOK
<1>2. QED
  BY <1>1 DEF CallInv, ServesSender, ServesReader

(* As long as a call is waited for, its screen does not change, and its    *)
(* handler waits or makes its next call.                                   *)
LEMMA CallKept ==
  ASSUME ScreensInv, [ScreensNext]_screenVars, NEW h \in Handlers,
         caller[h] # Nil, caller'[h] = caller[h]
  PROVE  /\ Stays(h) \/ (Serve(h) /\ pc'[h] # Idle)
         /\ caller[h] \in Senders => sender'[caller[h]] = sender[caller[h]]
         /\ caller[h] \in Readers => reader'[caller[h]] = reader[caller[h]]
<1> DEFINE x == caller[h]
           Same == /\ x \in Senders => sender'[x] = sender[x]
                   /\ x \in Readers => reader'[x] = reader[x]
<1>0. /\ ScreensTypeOK /\ TypeOK /\ pc[h] # Idle
      /\ x \in Senders => sender[x].step = "encrypting"
      /\ x \in Readers => reader[x].step = "decrypting" /\ reader[x].slug # Nil
      /\ Senders \cap Readers = {} /\ Nil \notin Senders \cup Readers
      /\ \A other \in Handlers \ {h} : caller[other] # x
  <2>1. NoPage.step = "enter"
    BY DEF NoPage, Page
  <2>2. \A other \in Handlers \ {h} : caller[other] # x
    BY DEF ScreensInv, CallInv
  <2>3. QED
    BY <2>1, <2>2, CallerWaits, ServiceStep, ScreensAssumption DEF ScreensInv, ReaderInv
<1>1. Stays(h) \/ (Serve(h) /\ pc'[h] # Idle)
  <2>1. CASE Serve(h)
    BY <1>0, <2>1 DEF Serve, Reply, ScreensTypeOK
  <2>2. ASSUME NEW s \in Senders, HandleEncrypt(s, h)
        PROVE  FALSE
    BY <1>0, <2>2 DEF HandleEncrypt, BeginCreate, Arrive
  <2>3. ASSUME NEW r \in Readers, HandleDecrypt(r, h)
        PROVE  FALSE
    BY <1>0, <2>3 DEF HandleDecrypt, BeginAccess, Arrive
  <2>4. ASSUME NEW id \in Links, NEW user \in Users, Discard(h, id, user)
        PROVE  FALSE
    BY <1>0, <2>4 DEF Discard, BeginDelete, Arrive
  <2>5. CASE CrashServer
    BY <2>5 DEF CrashServer
  <2>6. QED
    BY <2>1, <2>2, <2>3, <2>4, <2>5, HandlerMoves
<1>2. ASSUME NEW s \in Senders, SenderStep(s)
      PROVE  Same
  <2>1. reader' = reader
    BY <1>2 DEF SenderStep, HandleEncrypt, Share, NewSecret, LoseCreate
  <2>2. x \in Senders => sender'[x] = sender[x]
    BY <1>0, <1>2 DEF SenderStep, HandleEncrypt, Share, NewSecret, LoseCreate,
                      FinishCreate, HangUp, ScreensTypeOK
  <2>3. QED
    BY <2>1, <2>2
<1>3. ASSUME NEW r \in Readers, ReaderStep(r)
      PROVE  Same
  <2>1. sender' = sender
    BY <1>3 DEF ReaderStep, Visit, Paste, HandleDecrypt, TryAgain,
                ConfirmAndLeave, Leave, LoseAccess
  <2>2. x \in Readers => reader'[x] = reader[x]
    BY <1>0, <1>3 DEF ReaderStep, Visit, Paste, HandleDecrypt, TryAgain,
                      ConfirmAndLeave, Leave, LoseAccess, FinishDecrypt, HangUp,
                      ScreensTypeOK
  <2>3. QED
    BY <2>1, <2>2
<1>4. ASSUME NEW other \in Handlers, Serve(other)
      PROVE  Same
  <2>1. CASE other = h
    BY <1>0, <1>4, <2>1 DEF Serve, Reply, ScreensTypeOK
  <2>2. CASE other # h
    BY <1>0, <1>4, <2>2 DEF Serve, Reply, FinishCreate, FinishDecrypt, ScreensTypeOK
  <2>3. QED
    BY <2>1, <2>2
<1>5. ASSUME CrashServer
      PROVE  Same
  BY <1>5 DEF CrashServer
<1>6. ASSUME UNCHANGED screens
      PROVE  Same
  BY <1>6 DEF screens
<1>7. Same
  BY <1>2, <1>3, <1>4, <1>5, <1>6
     DEF ScreensNext, Discard, Background, screenVars, screens
<1>8. QED
  BY <1>1, <1>7

(* A call that starts is one of a screen that did not wait. *)
LEMMA CallerStep ==
  ASSUME ScreensInv, [ScreensNext]_screenVars
  PROVE  \/ \A h \in Handlers : caller'[h] \in {caller[h], Nil}
         \/ \E s \in Senders, h \in Handlers : HandleEncrypt(s, h)
         \/ \E r \in Readers, h \in Handlers : HandleDecrypt(r, h)
<1>0. ScreensTypeOK
  BY DEF ScreensInv
<1> DEFINE Kept == \A h \in Handlers : caller'[h] \in {caller[h], Nil}
<1>1. ASSUME NEW s \in Senders, SenderStep(s)
      PROVE  Kept \/ \E h \in Handlers : HandleEncrypt(s, h)
  BY <1>1 DEF SenderStep, Share, NewSecret, LoseCreate, HangUp
<1>2. ASSUME NEW r \in Readers, ReaderStep(r)
      PROVE  Kept \/ \E h \in Handlers : HandleDecrypt(r, h)
  BY <1>2 DEF ReaderStep, Visit, Paste, TryAgain, ConfirmAndLeave, Leave,
              LoseAccess, HangUp
<1>3. ASSUME NEW h \in Handlers, Serve(h)
      PROVE  Kept
  BY <1>0, <1>3 DEF Serve, Reply, ScreensTypeOK
<1>4. ASSUME CrashServer \/ UNCHANGED screens
      PROVE  Kept
  BY <1>4 DEF CrashServer, screens
<1>5. QED
  BY <1>1, <1>2, <1>3, <1>4
     DEF ScreensNext, Discard, Background, screenVars, screens

(* No screen gets to wait for two handlers. *)
LEMMA OneCallNext ==
  ASSUME ScreensInv, [ScreensNext]_screenVars,
         NEW h \in Handlers, NEW other \in Handlers \ {h}
  PROVE  caller'[h] = Nil \/ caller'[other] # caller'[h]
<1>0. /\ ScreensTypeOK
      /\ caller[h] = Nil \/ caller[other] # caller[h]
      /\ Nil \notin Senders \cup Readers
  BY ScreensAssumption DEF ScreensInv, CallInv
<1>1. CASE \A g \in Handlers : caller'[g] \in {caller[g], Nil}
  BY <1>0, <1>1
<1>2. ASSUME NEW s \in Senders, NEW g \in Handlers, HandleEncrypt(s, g)
      PROVE  caller'[h] = Nil \/ caller'[other] # caller'[h]
  <2>1. caller' = [caller EXCEPT ![g] = s] /\ sender[s].step = "form"
    BY <1>2 DEF HandleEncrypt
  <2>2. \A k \in Handlers : caller[k] # s
    BY <1>0, <2>1, CallerWaits
  <2>3. QED
    BY <1>0, <2>1, <2>2 DEF ScreensTypeOK
<1>3. ASSUME NEW r \in Readers, NEW g \in Handlers, HandleDecrypt(r, g)
      PROVE  caller'[h] = Nil \/ caller'[other] # caller'[h]
  <2>1. caller' = [caller EXCEPT ![g] = r] /\ reader[r].step = "enter"
    BY <1>3 DEF HandleDecrypt
  <2>2. \A k \in Handlers : caller[k] # r
    BY <1>0, <2>1, CallerWaits
  <2>3. QED
    BY <1>0, <2>1, <2>2 DEF ScreensTypeOK
<1>4. QED
  BY <1>1, <1>2, <1>3, CallerStep

(* A request of the view screen stays in AccessLink until it returns, one  *)
(* of the create screen returns at once.                                   *)
LEMMA CallGoesOn ==
  ASSUME TypeOK, NEW h \in Handlers, HandlerStep(h), pc'[h] # Idle
  PROVE  /\ pc[h] # "Create"
         /\ pc[h] \in AccessPCs => pc'[h] \in AccessPCs
  BY DEF TypeOK, HandlerStep, GetBySlug, CheckAccess, UpdateExpired, OpenLink,
         UpdateOpened, Respond, InsertLink, GetForDelete, CheckOwner,
         DeleteLink, WriteFails, Goto, Keep, Return

(* Every call in flight serves what its screen asked for. *)
LEMMA CallNext ==
  ASSUME ScreensInv, [ScreensNext]_screenVars, NEW h \in Handlers
  PROVE  CallInv(h)'
<1>0. /\ TypeOK /\ IInv /\ KeyInv /\ ScreensTypeOK /\ CallInv(h)
      /\ Senders \cap Readers = {} /\ Nil \notin Senders \cup Readers
  BY ServiceStep, ScreensAssumption DEF ScreensInv
<1>1. CASE caller[h] # Nil /\ caller'[h] = caller[h]
  <2>1. /\ Stays(h) \/ (HandlerStep(h) /\ pc'[h] # Idle)
        /\ caller[h] \in Senders => sender'[caller[h]] = sender[caller[h]]
        /\ caller[h] \in Readers => reader'[caller[h]] = reader[caller[h]]
    BY <1>1, CallKept DEF Serve
  <2>2. ASSUME caller[h] \in Senders
        PROVE  ServesSender(h, caller[h])'
    <3>1. ServesSender(h, caller[h]) /\ req[h].slug \in issued
      BY <1>0, <2>2 DEF CallInv, ServesSender, IInv, BornOnce
    <3>2. Stays(h)
      BY <1>0, <2>1, <3>1, CallGoesOn DEF ServesSender
    <3>3. QED
      BY <1>1, <2>1, <2>2, <3>1, <3>2, SealedKept DEF ServesSender, Stays
  <2>3. ASSUME caller[h] \in Readers
        PROVE  ServesReader(h, caller[h])'
    <3>1. ServesReader(h, caller[h])
      BY <1>0, <2>3 DEF CallInv
    <3>2. /\ pc'[h] \in AccessPCs
          /\ req'[h].slug = req[h].slug /\ req'[h].key = req[h].key
      BY <1>0, <2>1, <3>1, CallGoesOn, CopiesNext DEF ServesReader, Stays
    <3>3. QED
      BY <1>1, <2>1, <2>3, <3>1, <3>2 DEF ServesReader
  <2>4. QED
    BY <1>1, <2>2, <2>3, OneCallNext DEF CallInv
<1>2. CASE caller'[h] = Nil
  BY <1>0, <1>2 DEF CallInv
<1>3. ASSUME NEW s \in Senders, HandleEncrypt(s, h)
      PROVE  CallInv(h)'
  <2>1. /\ caller'[h] = s /\ pc'[h] = "Create"
        /\ sender'[s].step = "encrypting"
        /\ sender'[s].key = sealed'[req'[h].slug]
    BY <1>0, <1>3 DEF HandleEncrypt, BeginCreate, Arrive, NoRequest, TypeOK,
                      ScreensTypeOK, CreateScreen
  <2>2. QED
    BY <1>0, <2>1, OneCallNext DEF CallInv, ServesSender
<1>4. ASSUME NEW r \in Readers, HandleDecrypt(r, h)
      PROVE  CallInv(h)'
  <2>1. /\ caller'[h] = r /\ pc'[h] = "GetBySlug"
        /\ reader'[r].step = "decrypting"
        /\ reader'[r].slug = req'[h].slug /\ reader'[r].key = req'[h].key
    BY <1>0, <1>4 DEF HandleDecrypt, BeginAccess, Arrive, NoRequest, TypeOK,
                      ScreensTypeOK, ViewScreen
  <2>2. QED
    BY <1>0, <2>1, OneCallNext DEF CallInv, ServesReader
<1>5. ASSUME NEW s \in Senders, NEW g \in Handlers, HandleEncrypt(s, g)
      PROVE  g = h \/ caller'[h] = caller[h]
  BY <1>0, <1>5 DEF HandleEncrypt, ScreensTypeOK
<1>6. ASSUME NEW r \in Readers, NEW g \in Handlers, HandleDecrypt(r, g)
      PROVE  g = h \/ caller'[h] = caller[h]
  BY <1>0, <1>6 DEF HandleDecrypt, ScreensTypeOK
<1>7. QED
  BY <1>1, <1>2, <1>3, <1>4, <1>5, <1>6, CallerStep

-----------------------------------------------------------------------------
(* Senders *)

(* The done screen only comes from a link that was stored. *)
LEMMA SenderNext ==
  ASSUME ScreensInv, [ScreensNext]_screenVars, NEW s \in Senders
  PROVE  SenderInv(s)'
<1>0. /\ TypeOK /\ IInv /\ Evolves /\ ScreensTypeOK /\ SenderInv(s)
      /\ Senders \cap Readers = {} /\ published \subseteq issued
  BY ServiceStep, ScreensAssumption DEF ScreensInv, IInv, BornOnce
<1>1. CASE sender'[s] = sender[s]
  BY <1>0, <1>1, SealedKept DEF SenderInv, Evolves
<1>2. CASE sender'[s].step # "done"
  BY <1>2 DEF SenderInv
<1>3. ASSUME NEW q \in Senders, SenderStep(q)
      PROVE  sender'[s] = sender[s] \/ sender'[s].step # "done"
  <2>1. ASSUME NEW h \in Handlers, HandleEncrypt(q, h), q = s
        PROVE  sender'[s].step = "encrypting"
    BY <1>0, <2>1 DEF HandleEncrypt, ScreensTypeOK, CreateScreen
  <2>2. ASSUME NewSecret(q) \/ LoseCreate(q), q = s
        PROVE  sender'[s].step = "form"
    BY <1>0, <2>2 DEF NewSecret, LoseCreate, FinishCreate, EmptyForm, ScreensTypeOK
  <2>3. ASSUME q # s
        PROVE  sender'[s] = sender[s]
    BY <1>0, <1>3, <2>3 DEF SenderStep, HandleEncrypt, Share, NewSecret,
                            LoseCreate, FinishCreate, ScreensTypeOK
  <2>4. ASSUME Share(q)
        PROVE  sender' = sender
    BY <2>4 DEF Share
  <2>5. QED
    BY <1>3, <2>1, <2>2, <2>3, <2>4 DEF SenderStep
<1>4. ASSUME NEW h \in Handlers, Serve(h), caller[h] = s, pc'[h] = Idle
      PROVE  SenderInv(s)'
  <2>1. /\ pc[h] = "Create" /\ HandlerStep(h) /\ sealed' = sealed
        /\ sender[s].key = sealed[req[h].slug]
    BY <1>4 DEF Serve, ScreensInv, CallInv, ServesSender
  <2>2. FinishCreate(s, Status(h) = "ok", req[h].slug)
    BY <1>4 DEF Serve, Reply
  <2>3. CASE Status(h) = "ok"
    <3>1. published' # published
      BY <2>1, <2>3 DEF Status
    <3>2. req[h].slug \in published'
      BY <2>1, <3>1
         DEF HandlerStep, GetBySlug, CheckAccess, UpdateExpired, OpenLink,
             UpdateOpened, Respond, InsertLink, GetForDelete, CheckOwner, DeleteLink
    <3>3. sender'[s].slug = req[h].slug /\ sender'[s].key = sender[s].key
      BY <1>0, <2>2, <2>3 DEF FinishCreate, ScreensTypeOK, CreateScreen
    <3>4. QED
      BY <2>1, <3>2, <3>3 DEF SenderInv
  <2>4. CASE Status(h) # "ok"
    BY <1>0, <1>2, <2>2, <2>4 DEF FinishCreate, EmptyForm, ScreensTypeOK
  <2>5. QED
    BY <2>3, <2>4
<1>5. ASSUME NEW h \in Handlers, Serve(h), ~(caller[h] = s /\ pc'[h] = Idle)
      PROVE  sender'[s] = sender[s]
  BY <1>0, <1>5 DEF Serve, Reply, FinishCreate, ScreensTypeOK
<1>6. ASSUME CrashServer
      PROVE  sender'[s] = sender[s] \/ sender'[s].step # "done"
  BY <1>6 DEF CrashServer, EmptyForm
<1>7. ASSUME NEW r \in Readers, ReaderStep(r)
      PROVE  sender' = sender
  BY <1>7 DEF ReaderStep, Visit, Paste, HandleDecrypt, TryAgain,
              ConfirmAndLeave, Leave, LoseAccess
<1>8. QED
  BY <1>1, <1>2, <1>3, <1>4, <1>5, <1>6, <1>7
     DEF ScreensNext, Discard, Background, screenVars, screens

-----------------------------------------------------------------------------
(* Readers *)

(* A screen that does not change keeps its part of the invariant. *)
LEMMA ReaderStays ==
  ASSUME ScreensInv, [ScreensNext]_screenVars, NEW r \in Readers,
         reader'[r] = reader[r]
  PROVE  ReaderInv(r)'
<1>0. /\ TypeOK /\ IInv /\ Evolves /\ ReaderInv(r) /\ published \subseteq issued
      /\ reader[r].slug \in Links \cup {Nil}
  BY ServiceStep, ScreenTypes DEF ScreensInv, IInv, BornOnce
<1>1. PICK page : page = reader[r] /\ page = reader'[r]
  OBVIOUS
<1>2. page.slug # Nil => /\ page.slug \in published'
                         /\ sealed'[page.slug] = sealed[page.slug]
  BY <1>0, <1>1, SealedKept DEF ReaderInv, Evolves
<1>3. page.step \in {"reveal", "burned"} => Closed(page.slug)'
  BY <1>0, <1>1, ClosedStable DEF ReaderInv
<1>4. NoPage.errMsg = ""
  BY DEF NoPage, Page
<1>5. ASSUME page.errMsg = "not found", page.key = sealed'[page.slug]
      PROVE  Dead(page.slug)'
  <2>1. page.slug # Nil
    BY <1>0, <1>1, <1>4, <1>5 DEF ReaderInv
  <2>2. Dead(page.slug) /\ page.slug \in Links
    BY <1>0, <1>1, <1>2, <1>5, <2>1 DEF ReaderInv, Decrypts
  <2>3. QED
    BY <1>0, <2>2, DeadStable
<1>6. QED
  BY <1>0, <1>1, <1>2, <1>3, <1>5 DEF ReaderInv, Decrypts, Closed, Dead, Exists

(* A refusal that reaches a reader with the right key is final. *)
LEMMA RefusedIsDead ==
  ASSUME ScreensInv, [ScreensNext]_screenVars, NEW h \in Handlers,
         HandlerStep(h), pc'[h] = Idle,
         pc[h] \in {"CanAccess", "UpdateExpired"},
         req[h].key = sealed[req[h].slug]
  PROVE  Dead(req[h].slug)
<1>0. /\ TypeOK /\ IInv /\ CopyInv(h) /\ CopyCurrent(h) /\ CopyFits(h)
      /\ CopySealed(h) /\ req[h].slug \in published
      /\ pc \in [Handlers -> PCs]
  BY ServiceStep DEF ScreensInv, IInv, CopyInv, KeyInv, TypeOK
<1>1. CASE pc[h] = "UpdateExpired"
  BY <1>0, <1>1 DEF CopyInv
<1>2. CASE pc[h] = "CanAccess"
  <2>1. ~Granted(req[h].link, req[h].key)
    BY <1>0, <1>2
       DEF HandlerStep, GetBySlug, CheckAccess, UpdateExpired, OpenLink,
           UpdateOpened, Respond, InsertLink, GetForDelete, CheckOwner,
           DeleteLink, Goto, Keep
  <2>2. CASE req[h].link = Nil
    BY <1>0, <1>2, <2>2 DEF CopyInv, Dead
  <2>3. CASE req[h].link # Nil
    <3>1. ~CanAccess(req[h].link, now)
      BY <1>0, <1>2, <2>1, <2>3 DEF Granted, CopySealed
    <3>2. CASE req[h].link.status # StatusWaiting
      BY <1>0, <1>2, <2>3, <3>2 DEF CopyInv, Closed, Dead, CanAccess
    <3>3. CASE IsExpired(req[h].link, now)
      BY <1>0, <1>2, <2>3, <3>3 DEF CopyCurrent, Dead, CanAccess, IsExpired
    <3>4. QED
      BY <3>1, <3>2, <3>3 DEF CanAccess
  <2>4. QED
    BY <2>2, <2>3
<1>3. QED
  BY <1>1, <1>2

(* What the view screen makes of an answer. *)
LEMMA ReaderAnswered ==
  ASSUME ScreensInv, [ScreensNext]_screenVars, NEW r \in Readers,
         NEW h \in Handlers, Serve(h), caller[h] = r, pc'[h] = Idle
  PROVE  ReaderInv(r)'
<1>0. /\ TypeOK /\ IInv /\ Evolves /\ ScreensTypeOK /\ ReaderInv(r)
      /\ HandlerStep(h) /\ sealed' = sealed /\ reader[r] \in ViewScreen
      /\ ServesReader(h, r) /\ Senders \cap Readers = {}
      /\ CopyFits(h) /\ req[h].slug \in Links
  BY ServiceStep, ScreenTypes, ScreensAssumption
     DEF Serve, ScreensInv, CallInv, ServesReader, IInv, LocalsOK
<1>1. FinishDecrypt(r, Status(h)) /\ NoPage.step = "enter"
  BY <1>0 DEF Serve, Reply, NoPage, Page
<1>2. PICK id \in Links : /\ id = req[h].slug /\ id = reader[r].slug
                          /\ id \in published' /\ id # Nil
  BY <1>0, <1>1, NilAssumption DEF ServesReader, ReaderInv, Evolves
<1>3. CASE Status(h) = "ok" /\ Decrypts(reader[r].slug, reader[r].key)
  <2>1. reader'[r] = [reader[r] EXCEPT !.step = "reveal"]
    BY <1>0, <1>1, <1>3 DEF FinishDecrypt, ScreensTypeOK
  <2>2. pc[h] = "Respond"
    BY <1>0, <1>3 DEF Status, ServesReader
  <2>3. Closed(id)'
    BY <1>0, <1>2, <2>2, ClosedStable DEF CopyFits
  <2>4. Dead(id)'
    BY <2>3 DEF Closed, Dead, CanAccess
  <2>5. /\ reader'[r].step = "reveal" /\ reader'[r].slug = id
    BY <1>0, <1>2, <2>1 DEF ViewScreen
  <2>6. QED
    BY <1>2, <2>3, <2>4, <2>5 DEF ReaderInv, Closed, Dead, Exists
<1>4. CASE ~(Status(h) = "ok" /\ Decrypts(reader[r].slug, reader[r].key))
  <2>1. reader'[r] = [reader[r] EXCEPT !.step = "error",
                         !.errMsg = IF Status(h) = "ok"
                                    THEN "failed" ELSE Status(h)]
    BY <1>0, <1>1, <1>4 DEF FinishDecrypt, ScreensTypeOK
  <2>2. /\ reader'[r].step = "error" /\ reader'[r].slug = id
        /\ reader'[r].key = reader[r].key
        /\ reader'[r].errMsg = "not found" => Status(h) = "not found"
    BY <1>0, <1>2, <2>1 DEF ViewScreen
  <2>3. ASSUME reader'[r].errMsg = "not found", reader[r].key = sealed[id]
        PROVE  Dead(id)'
    <3>1. /\ pc[h] \in {"CanAccess", "UpdateExpired"}
          /\ req[h].key = sealed[req[h].slug]
      BY <1>0, <1>2, <2>2, <2>3 DEF Status, ServesReader
    <3>2. Dead(id)
      BY <1>0, <1>2, <3>1, RefusedIsDead DEF Serve
    <3>3. QED
      BY <1>0, <3>2, DeadStable
  <2>4. QED
    BY <1>0, <1>2, <2>2, <2>3 DEF ReaderInv, Decrypts, Dead, Exists
<1>5. QED
  BY <1>3, <1>4

(* A page is opened for a link. *)
LEMMA PageSlug ==
  ASSUME NEW id, NEW key
  PROVE  Page(id, key).slug = id /\ Page(id, key).step = "enter"
  BY DEF Page

(* It shows no error. *)
LEMMA PageErrMsg ==
  ASSUME NEW id, NEW key
  PROVE  Page(id, key).errMsg = ""
  BY DEF Page

(* A page that asks again, or that failed, claims nothing. *)
LEMMA FreshPage ==
  ASSUME NEW r \in Readers,
         reader'[r].slug # Nil, reader'[r].slug \in published',
         reader'[r].step \in {"enter", "error"},
         reader'[r].step = "enter" => reader'[r].errMsg = "",
         reader'[r].errMsg \in {""} \cup Lapses
  PROVE  ReaderInv(r)'
  BY DEF ReaderInv, Lapses

(* A step of the view screen keeps what it shows true. *)
LEMMA ReaderOwnStep ==
  ASSUME ScreensInv, [ScreensNext]_screenVars, NEW r \in Readers, ReaderStep(r)
  PROVE  ReaderInv(r)'
<1>0. /\ TypeOK /\ IInv /\ Evolves /\ ScreensTypeOK /\ ReaderInv(r)
      /\ reader[r] \in ViewScreen /\ shared \subseteq published
      /\ shared \subseteq Links /\ published \subseteq issued
      /\ reader[r].slug \in Links \cup {Nil}
  BY ServiceStep, ScreenTypes DEF ScreensInv, ScreensTypeOK, IInv, BornOnce
<1>1. /\ NoPage.step = "enter" /\ NoPage.key = Nil /\ NoPage.slug = Nil
      /\ NoPage.errMsg = ""
  BY DEF NoPage, Page
<1>2. reader[r].slug # Nil => reader[r].slug \in published'
  BY <1>0 DEF ReaderInv, Evolves
<1>3. ASSUME NEW id \in shared, Visit(r, id)
      PROVE  ReaderInv(r)'
  <2>1. PICK key : reader'[r] = Page(id, key)
    BY <1>0, <1>3 DEF Visit, ScreensTypeOK
  <2>2. id \in published' /\ id # Nil
    BY <1>0, NilAssumption DEF Evolves
  <2>3. reader'[r].slug = id /\ reader'[r].step = "enter"
    BY <2>1, PageSlug
  <2>4. reader'[r].errMsg = ""
    BY <2>1, PageErrMsg
  <2>5. QED
    BY <2>2, <2>3, <2>4, FreshPage
<1>4. ASSUME NEW id \in shared, Paste(r, id)
      PROVE  ReaderInv(r)'
  <2>1. /\ reader'[r].slug = reader[r].slug /\ reader'[r].step = "enter"
        /\ reader'[r].errMsg = reader[r].errMsg
        /\ reader[r].slug # Nil /\ reader[r].step = "enter"
    BY <1>0, <1>4 DEF Paste, ScreensTypeOK, ViewScreen
  <2>2. QED
    BY <1>0, <1>2, <2>1, FreshPage DEF ReaderInv
<1>5. ASSUME NEW h \in Handlers, HandleDecrypt(r, h)
      PROVE  ReaderInv(r)'
  <2>1. /\ reader'[r].slug = reader[r].slug /\ reader'[r].step = "decrypting"
        /\ reader'[r].errMsg = reader[r].errMsg
        /\ reader[r].step = "enter" /\ reader[r].key # Nil
    BY <1>0, <1>5 DEF HandleDecrypt, ScreensTypeOK, ViewScreen
  <2>2. reader[r].slug # Nil /\ reader[r].errMsg = ""
    BY <1>0, <1>1, <2>1 DEF ReaderInv
  <2>3. QED
    BY <1>2, <2>1, <2>2 DEF ReaderInv
<1>6. ASSUME TryAgain(r)
      PROVE  ReaderInv(r)'
  <2>1. /\ reader'[r] = Page(reader[r].slug, reader[r].key)
        /\ reader[r].slug # Nil
    BY <1>0, <1>1, <1>6 DEF TryAgain, ScreensTypeOK, ReaderInv
  <2>2. reader'[r].slug = reader[r].slug /\ reader'[r].step = "enter"
    BY <2>1, PageSlug
  <2>3. reader'[r].errMsg = ""
    BY <2>1, PageErrMsg
  <2>4. QED
    BY <1>2, <2>1, <2>2, <2>3, FreshPage
<1>7. ASSUME ConfirmAndLeave(r)
      PROVE  ReaderInv(r)'
  <2>1. PICK id : id = reader[r].slug
    OBVIOUS
  <2>2. /\ reader'[r].slug = id /\ reader'[r].step = "burned"
        /\ reader[r].step = "reveal"
    BY <1>0, <1>7, <2>1 DEF ConfirmAndLeave, ScreensTypeOK, ViewScreen
  <2>3. Closed(id)' /\ id # Nil
    BY <1>0, <1>1, <2>1, <2>2, ClosedStable DEF ReaderInv
  <2>4. QED
    BY <2>2, <2>3 DEF ReaderInv, Closed, Dead, CanAccess, Exists
<1>8. ASSUME Leave(r)
      PROVE  ReaderInv(r)'
  <2>1. reader'[r] = NoPage
    BY <1>0, <1>8 DEF Leave, ScreensTypeOK
  <2>2. QED
    BY <1>1, <2>1 DEF ReaderInv, NoPage, Page
<1>9. ASSUME LoseAccess(r)
      PROVE  ReaderInv(r)'
  <2>1. PICK status \in Lapses :
           reader[r].step = "decrypting" /\ FinishDecrypt(r, status)
    BY <1>9 DEF LoseAccess
  <2>2. /\ reader'[r].slug = reader[r].slug /\ reader'[r].step = "error"
        /\ reader'[r].errMsg = status
    BY <1>0, <2>1 DEF FinishDecrypt, ScreensTypeOK, ViewScreen, Lapses
  <2>3. reader[r].slug # Nil
    BY <1>0, <1>1, <2>1 DEF ReaderInv
  <2>4. QED
    BY <1>2, <2>2, <2>3, FreshPage
<1>10. QED
  BY <1>3, <1>4, <1>5, <1>6, <1>7, <1>8, <1>9 DEF ReaderStep

(* Every step keeps what the view screens show true. *)
LEMMA ReaderNext ==
  ASSUME ScreensInv, [ScreensNext]_screenVars, NEW r \in Readers
  PROVE  ReaderInv(r)'
<1>0. /\ TypeOK /\ Evolves /\ ScreensTypeOK /\ ReaderInv(r)
      /\ reader[r] \in ViewScreen /\ Senders \cap Readers = {}
  BY ServiceStep, ScreenTypes, ScreensAssumption DEF ScreensInv
<1>1. ASSUME NEW q \in Readers, ReaderStep(q)
      PROVE  q = r \/ reader'[r] = reader[r]
  BY <1>0, <1>1 DEF ReaderStep, Visit, Paste, HandleDecrypt, TryAgain,
                    ConfirmAndLeave, Leave, LoseAccess, FinishDecrypt,
                    ScreensTypeOK
<1>2. ASSUME NEW s \in Senders, SenderStep(s)
      PROVE  reader' = reader
  BY <1>2 DEF SenderStep, HandleEncrypt, Share, NewSecret, LoseCreate
<1>3. ASSUME NEW h \in Handlers, Serve(h)
      PROVE  (caller[h] = r /\ pc'[h] = Idle) \/ reader'[r] = reader[r]
  BY <1>0, <1>3 DEF Serve, Reply, FinishDecrypt, ScreensTypeOK
<1>4. ASSUME CrashServer, reader'[r] # reader[r]
      PROVE  ReaderInv(r)'
  <2>1. PICK h \in Handlers : caller[h] = r
    BY <1>4 DEF CrashServer
  <2>2. reader[r].step = "decrypting" /\ NoPage.step = "enter"
    BY <1>0, <2>1, CallerWaits, ScreensAssumption DEF NoPage, Page
  <2>3. /\ reader'[r].slug = reader[r].slug /\ reader'[r].step = "error"
        /\ reader'[r].errMsg = "failed"
    BY <1>0, <1>4, <2>1 DEF CrashServer, ViewScreen
  <2>4. reader[r].slug # Nil /\ reader[r].slug \in published'
    BY <1>0, <2>2 DEF ReaderInv, Evolves
  <2>5. QED
    BY <2>3, <2>4, FreshPage DEF Lapses
<1>5. QED
  BY <1>1, <1>2, <1>3, <1>4, ReaderStays, ReaderOwnStep, ReaderAnswered
     DEF ScreensNext, Discard, Background, screenVars, screens

-----------------------------------------------------------------------------
(* Types, and what was passed on *)

(* Every step keeps the types of the screens. *)
LEMMA ScreensTypeNext ==
  ASSUME ScreensInv, [ScreensNext]_screenVars
  PROVE  ScreensTypeOK'
<1>0. /\ ScreensTypeOK /\ TypeOK /\ AesKeys \subseteq Keys /\ shared \subseteq Links
      /\ \A s \in Senders : sender[s] \in CreateScreen
      /\ \A r \in Readers : reader[r] \in ViewScreen
  BY ServiceStep, ScreenTypes, KeysAssumption DEF ScreensInv, ScreensTypeOK
<1>1. EmptyForm \in CreateScreen /\ NoPage \in ViewScreen
  BY DEF EmptyForm, CreateScreen, NoPage, Page, ViewScreen
<1>2. ASSUME NEW s \in Senders, NEW h \in Handlers, HandleEncrypt(s, h)
      PROVE  ScreensTypeOK'
  <2>1. PICK key \in AesKeys, id \in Links :
          /\ sealed' = [sealed EXCEPT ![id] = key]
          /\ sender' = [sender EXCEPT ![s] = [sender[s] EXCEPT
                                        !.step = "encrypting", !.key = key]]
    BY <1>2 DEF HandleEncrypt, FreshKeys
  <2>2. [sender[s] EXCEPT !.step = "encrypting", !.key = key] \in CreateScreen
    BY <1>0 DEF CreateScreen
  <2>3. sender' \in [Senders -> CreateScreen] /\ sealed' \in [Links -> AesKeys \cup {Nil}]
    BY <1>0, <2>1, <2>2 DEF ScreensTypeOK
  <2>4. QED
    BY <1>0, <1>2, <2>3 DEF HandleEncrypt, ScreensTypeOK
<1>3. ASSUME NEW s \in Senders, Share(s)
      PROVE  ScreensTypeOK'
  <2>1. sender[s].slug \in Links
    BY <1>3 DEF Share, ScreensInv, SenderInv, IInv, TypeOK
  <2>2. QED
    BY <1>0, <1>3, <2>1 DEF Share, ScreensTypeOK
<1>4. ASSUME NEW s \in Senders, NewSecret(s) \/ LoseCreate(s)
      PROVE  ScreensTypeOK'
  <2>1. sender' = [sender EXCEPT ![s] = EmptyForm]
    BY <1>4 DEF NewSecret, LoseCreate, FinishCreate
  <2>2. caller' \in [Handlers -> Senders \cup Readers \cup {Nil}]
    BY <1>0, <1>4 DEF NewSecret, LoseCreate, HangUp, ScreensTypeOK
  <2>3. QED
    BY <1>0, <1>1, <1>4, <2>1, <2>2 DEF NewSecret, LoseCreate, ScreensTypeOK
<1>5. ASSUME NEW r \in Readers, ReaderStep(r)
      PROVE  ScreensTypeOK'
  <2> DEFINE Fits(page) == page \in ViewScreen /\ reader' = [reader EXCEPT ![r] = page]
  <2>1. ASSUME NEW id \in shared, Visit(r, id)
        PROVE  \E page : Fits(page)
    <3>1. PICK key \in {sealed[id], Nil} : reader' = [reader EXCEPT ![r] = Page(id, key)]
      BY <2>1 DEF Visit
    <3>2. Page(id, key) \in ViewScreen
      BY <1>0 DEF ScreensTypeOK, Page, ViewScreen
    <3>3. QED
      BY <3>1, <3>2
  <2>2. ASSUME NEW id \in shared, Paste(r, id)
        PROVE  \E page : Fits(page)
    <3>1. Fragment(sealed[id]) \in Keys
      BY <1>0, KeysAssumption
         DEF ScreensInv, KeyInv, IInv, BornOnce, ScreensTypeOK
    <3>2. reader' = [reader EXCEPT ![r] = [reader[r] EXCEPT !.key = Fragment(sealed[id])]]
      BY <1>0, <2>2 DEF Paste, ScreensTypeOK
    <3>3. [reader[r] EXCEPT !.key = Fragment(sealed[id])] \in ViewScreen
      BY <1>0, <3>1 DEF ViewScreen
    <3>4. QED
      BY <3>2, <3>3
  <2>3. ASSUME NEW h \in Handlers, HandleDecrypt(r, h)
        PROVE  \E page : Fits(page)
    <3>1. [reader[r] EXCEPT !.step = "decrypting"] \in ViewScreen
      BY <1>0 DEF ViewScreen
    <3>2. reader' = [reader EXCEPT ![r] = [reader[r] EXCEPT !.step = "decrypting"]]
      BY <1>0, <2>3 DEF HandleDecrypt, ScreensTypeOK
    <3>3. QED
      BY <3>1, <3>2
  <2>4. ASSUME TryAgain(r)
        PROVE  \E page : Fits(page)
    <3>1. Page(reader[r].slug, reader[r].key) \in ViewScreen
      BY <1>0 DEF Page, ViewScreen
    <3>2. QED
      BY <2>4, <3>1 DEF TryAgain
  <2>5. ASSUME ConfirmAndLeave(r)
        PROVE  \E page : Fits(page)
    <3>1. [reader[r] EXCEPT !.step = "burned"] \in ViewScreen
      BY <1>0 DEF ViewScreen
    <3>2. reader' = [reader EXCEPT ![r] = [reader[r] EXCEPT !.step = "burned"]]
      BY <1>0, <2>5 DEF ConfirmAndLeave, ScreensTypeOK
    <3>3. QED
      BY <3>1, <3>2
  <2>6. ASSUME Leave(r)
        PROVE  \E page : Fits(page)
    BY <1>1, <2>6 DEF Leave
  <2>7. ASSUME LoseAccess(r)
        PROVE  \E page : Fits(page)
    <3>0. PICK status \in Lapses : FinishDecrypt(r, status)
      BY <2>7 DEF LoseAccess
    <3>1. [reader[r] EXCEPT !.step = "error", !.errMsg = status] \in ViewScreen
      BY <1>0 DEF ViewScreen, Lapses
    <3>2. reader' = [reader EXCEPT ![r] = [reader[r] EXCEPT
                                      !.step = "error", !.errMsg = status]]
      BY <3>0 DEF FinishDecrypt, Lapses
    <3>3. QED
      BY <3>1, <3>2
  <2>8. PICK page : Fits(page)
    BY <1>5, <2>1, <2>2, <2>3, <2>4, <2>5, <2>6, <2>7 DEF ReaderStep
  <2>9. caller' \in [Handlers -> Senders \cup Readers \cup {Nil}]
    BY <1>0, <1>5 DEF ReaderStep, Visit, Paste, HandleDecrypt, TryAgain,
                      ConfirmAndLeave, Leave, LoseAccess, HangUp, ScreensTypeOK
  <2>10. UNCHANGED <<sender, sealed, shared>>
    BY <1>5 DEF ReaderStep, Visit, Paste, HandleDecrypt, TryAgain,
                ConfirmAndLeave, Leave, LoseAccess
  <2>11. QED
    BY <1>0, <2>8, <2>9, <2>10 DEF ScreensTypeOK
<1>6. ASSUME NEW h \in Handlers, Serve(h)
      PROVE  ScreensTypeOK'
  <2>1. CASE UNCHANGED <<sender, reader, caller>>
    BY <1>0, <1>6, <2>1 DEF Serve, ScreensTypeOK
  <2>2. CASE Reply(h)
    <3>1. sender' \in [Senders -> CreateScreen]
      <4>1. CASE caller[h] \in Senders
        <5> DEFINE page == [sender[caller[h]] EXCEPT !.step = "done", !.slug = req[h].slug]
        <5>1. page \in CreateScreen
          <6>1. sender[caller[h]] \in CreateScreen /\ req[h].slug \in Links \cup {Nil}
            BY <1>0, <4>1, RequestTypes DEF ScreensTypeOK
          <6>2. \A form \in CreateScreen, slug \in Links \cup {Nil} :
                   [form EXCEPT !.step = "done", !.slug = slug] \in CreateScreen
            BY DEF CreateScreen
          <6>3. QED
            BY <6>1, <6>2
        <5>2. \/ sender' = [sender EXCEPT ![caller[h]] = page]
              \/ sender' = [sender EXCEPT ![caller[h]] = EmptyForm]
          BY <2>2, <4>1 DEF Reply, FinishCreate
        <5> HIDE DEF page
        <5>3. QED
          BY <1>0, <1>1, <4>1, <5>1, <5>2 DEF ScreensTypeOK
      <4>2. QED
        BY <1>0, <2>2, <4>1 DEF Reply, ScreensTypeOK
    <3>2. reader' \in [Readers -> ViewScreen]
      <4>1. CASE caller[h] \in Readers
        <5> DEFINE shown == [reader[caller[h]] EXCEPT !.step = "reveal"]
                   failed == [reader[caller[h]] EXCEPT
                                 !.step = "error",
                                 !.errMsg = IF Status(h) = "ok"
                                            THEN "failed" ELSE Status(h)]
        <5>0. Status(h) \in {"ok", "not found", "failed"}
          BY DEF Status
        <5>1. shown \in ViewScreen /\ failed \in ViewScreen
          BY <1>0, <4>1, <5>0 DEF ViewScreen, Lapses
        <5>2. \/ reader' = [reader EXCEPT ![caller[h]] = shown]
              \/ reader' = [reader EXCEPT ![caller[h]] = failed]
          BY <2>2, <4>1 DEF Reply, FinishDecrypt
        <5> HIDE DEF shown, failed
        <5>3. QED
          BY <1>0, <4>1, <5>1, <5>2 DEF ScreensTypeOK
      <4>2. QED
        BY <1>0, <2>2, <4>1 DEF Reply, ScreensTypeOK
    <3>3. caller' \in [Handlers -> Senders \cup Readers \cup {Nil}]
      BY <1>0, <2>2 DEF Reply, ScreensTypeOK
    <3>4. QED
      BY <1>0, <1>6, <3>1, <3>2, <3>3 DEF Serve, ScreensTypeOK
  <2>3. QED
    BY <1>6, <2>1, <2>2 DEF Serve
<1>7. ASSUME CrashServer
      PROVE  ScreensTypeOK'
  <2>1. \A r \in Readers :
          [reader[r] EXCEPT !.step = "error", !.errMsg = "failed"] \in ViewScreen
    BY <1>0 DEF ViewScreen, Lapses
  <2>2. QED
    BY <1>0, <1>1, <1>7, <2>1 DEF CrashServer, ScreensTypeOK
<1>8. ASSUME UNCHANGED screens
      PROVE  ScreensTypeOK'
  BY <1>0, <1>8 DEF screens, ScreensTypeOK
<1>9. QED
  BY <1>2, <1>3, <1>4, <1>5, <1>6, <1>7, <1>8
     DEF ScreensNext, SenderStep, Discard, Background, screenVars, screens

(* Only what the done screen shows is passed on. *)
LEMMA SharedNext ==
  ASSUME ScreensInv, [ScreensNext]_screenVars
  PROVE  (shared \subseteq published)'
<1>0. Evolves /\ shared \subseteq published
  BY ServiceStep DEF ScreensInv
<1>1. ASSUME NEW s \in Senders, Share(s)
      PROVE  shared' \subseteq published
  BY <1>0, <1>1 DEF Share, ScreensInv, SenderInv
<1>2. (\E s \in Senders : Share(s)) \/ shared' = shared
  BY DEF ScreensNext, SenderStep, ReaderStep, HandleEncrypt, NewSecret, LoseCreate,
         Visit, Paste, HandleDecrypt, TryAgain, ConfirmAndLeave, Leave,
         LoseAccess, Serve, Discard, Background, CrashServer, screenVars, screens
<1>3. QED
  BY <1>0, <1>1, <1>2 DEF Evolves

-----------------------------------------------------------------------------
(* The inductive invariant *)

(* It holds at the start. *)
LEMMA ScreensInvInit == ScreensInit => ScreensInv
<1> SUFFICES ASSUME ScreensInit PROVE ScreensInv
  OBVIOUS
<1>1. IInv /\ (\A h \in Handlers : pc[h] = Idle) /\ issued = {}
      /\ \A id \in Links : ~Exists(id)
  BY IInvInit DEF ScreensInit, Init, RepositoryInit, Exists
<1>2. EmptyForm \in CreateScreen /\ NoPage \in ViewScreen
  BY DEF EmptyForm, CreateScreen, NoPage, Page, ViewScreen
<1>3. ScreensTypeOK
  BY <1>2 DEF ScreensInit, ScreensTypeOK
<1>4. KeyInv
  BY <1>1 DEF KeyInv, RowSealed, CopySealed, KeyCompared
<1>5. \A h \in Handlers : CallInv(h) /\ CopyInv(h)
  BY <1>1, ScreensAssumption DEF ScreensInit, CallInv, CopyInv
<1>6. \A s \in Senders : SenderInv(s)
  BY DEF ScreensInit, SenderInv, EmptyForm
<1>7. \A r \in Readers : ReaderInv(r)
  <2> SUFFICES ASSUME NEW r \in Readers PROVE ReaderInv(r)
    OBVIOUS
  <2>1. reader[r] = NoPage
    BY DEF ScreensInit
  <2>2. NoPage.slug = Nil /\ NoPage.step = "enter"
    BY PageSlug DEF NoPage
  <2>3. NoPage.errMsg = ""
    BY PageErrMsg DEF NoPage
  <2>4. QED
    BY <2>1, <2>2, <2>3 DEF ReaderInv
<1>8. QED
  BY <1>1, <1>3, <1>4, <1>5, <1>6, <1>7 DEF ScreensInv, ScreensInit

(* Every step of the screens, the server, the janitor and a crash keeps it.*)
LEMMA ScreensInvNext == ScreensInv /\ [ScreensNext]_screenVars => ScreensInv'
<1> SUFFICES ASSUME ScreensInv, [ScreensNext]_screenVars PROVE ScreensInv'
  OBVIOUS
<1>1. IInv' /\ ScreensTypeOK' /\ KeyInv' /\ (shared \subseteq published)'
  BY ServiceStep, ScreensTypeNext, KeyNext, SharedNext
<1>2. \A h \in Handlers : CallInv(h)' /\ CopyInv(h)'
  BY CallNext, CopyNext
<1>3. \A s \in Senders : SenderInv(s)'
  BY SenderNext
<1>4. \A r \in Readers : ReaderInv(r)'
  BY ReaderNext
<1>5. QED
  BY <1>1, <1>2, <1>3, <1>4 DEF ScreensInv

(* Sealed rows and copies, calls that serve what was asked, copies of links*)
(* that are gone for good: in every reachable state, for any senders,      *)
(* readers, handlers, links and keys.                                      *)
THEOREM ScreensInvariant == ScreensSpec => []ScreensInv
  BY ScreensInvInit, ScreensInvNext, PTL DEF ScreensSpec

(* The screens, the callers, the sealed texts and what was passed on keep  *)
(* their types: no row, answer or pasted fragment brings in another value. *)
THEOREM ScreensTypeCorrect == ScreensSpec => []ScreensTypeOK
<1>1. ScreensInv => ScreensTypeOK
  BY DEF ScreensInv
<1>2. QED
  BY <1>1, ScreensInvariant, PTL

(* AccessLink only uses a link up for a request with the key that decrypts *)
(* its text, whichever copies are written back meanwhile.                  *)
THEOREM NoWrongKeyOpens == ScreensSpec => []OnlyTheKeyOpens
<1>1. ScreensInv => OnlyTheKeyOpens
  BY DEF ScreensInv, KeyInv, KeyCompared, OnlyTheKeyOpens, Decrypts
<1>2. QED
  BY <1>1, ScreensInvariant, PTL

(* Once a screen shows the text, or says that the secret is destroyed, no  *)
(* write, late or stale, makes the link accessible again.                  *)
THEOREM RevealedForGood == ScreensSpec => []RevealedIsGone
<1>1. ScreensInv => RevealedIsGone
  BY DEF ScreensInv, ReaderInv, Closed, RevealedIsGone, Accessible, CanAccess
<1>2. QED
  BY <1>1, ScreensInvariant, PTL

(* A reader with the right key that is told "not found, expired or already *)
(* accessed" is told the truth, now and later.                             *)
THEOREM RefusalsAreTrue == ScreensSpec => []RefusalIsTrue
<1>1. ScreensInv => RefusalIsTrue
  BY DEF ScreensInv, ReaderInv, Dead, RefusalIsTrue, Accessible
<1>2. QED
  BY <1>1, ScreensInvariant, PTL

(* The link and the key that the done screen shows belong together, and    *)
(* the link was stored.                                                    *)
THEOREM DoneKeyMatchesRow == ScreensSpec => []DoneShowsItsKey
<1>1. ScreensInv => DoneShowsItsKey
  BY DEF ScreensInv, SenderInv, KeyInv, RowSealed, DoneShowsItsKey, IInv, TypeOK
<1>2. QED
  BY <1>1, ScreensInvariant, PTL

(* The screens only ask for what LinkService answers to anyone: whatever   *)
(* holds of the service under arbitrary clients holds behind the screens.  *)
THEOREM ScreensUseService == ScreensSpec => Spec
<1>1. ScreensInit => Init
  BY DEF ScreensInit
<1>2. ScreensInv /\ [ScreensNext]_screenVars => [Next]_vars
  BY Lift
<1>3. QED
  BY <1>1, <1>2, ScreensInvariant, PTL DEF ScreensSpec, Spec
-----------------------------------------------------------------------------
(* Who gets to see a secret *)

Shows(r, id) ==
    /\ reader[r].slug = id
    /\ reader[r].step \in {"reveal", "burned"}

Viewers(id) == {r \in Readers : Shows(r, id)}

(* A delivery is seen on one screen at most. *)
SeenOnce == \A id \in Links : Cardinality(Viewers(id)) <= delivered[id]

(* A screen comes to show a text only by a response to its own request     *)
(* that was counted as a delivery.                                         *)
LEMMA ViewerOrigin ==
  ASSUME ScreensInv, [ScreensNext]_screenVars, NEW r \in Readers, NEW id \in Links,
         Shows(r, id)', ~Shows(r, id)
  PROVE  /\ delivered' = [delivered EXCEPT ![id] = @ + 1]
         /\ \A q \in Readers \ {r} : reader'[q] = reader[q]
         /\ Decrypts(id, reader[r].key)'
<1>0. /\ TypeOK /\ IInv /\ ScreensTypeOK /\ ReaderInv(r)
      /\ reader[r] \in ViewScreen /\ Senders \cap Readers = {}
      /\ reader'[r] # reader[r] /\ reader'[r].slug = id
      /\ reader'[r].step \in {"reveal", "burned"}
  BY ServiceStep, ScreenTypes, ScreensAssumption DEF ScreensInv, Shows
<1>1. ASSUME NEW q \in Readers, ReaderStep(q)
      PROVE  FALSE
  <2>1. q = r
    BY <1>0, <1>1 DEF ReaderStep, Visit, Paste, HandleDecrypt, TryAgain,
                      ConfirmAndLeave, Leave, LoseAccess, FinishDecrypt,
                      ScreensTypeOK
  <2>2. ASSUME NEW slug, NEW key, reader'[r] = Page(slug, key)
        PROVE  FALSE
    BY <1>0, <2>2, PageSlug
  <2>3. ASSUME NEW link \in shared, Paste(r, link)
        PROVE  FALSE
    BY <1>0, <2>3 DEF Paste, ScreensTypeOK, ViewScreen
  <2>4. ASSUME NEW h \in Handlers, HandleDecrypt(r, h)
        PROVE  FALSE
    BY <1>0, <2>4 DEF HandleDecrypt, ScreensTypeOK, ViewScreen
  <2>5. ASSUME ConfirmAndLeave(r)
        PROVE  FALSE
    BY <1>0, <2>5 DEF ConfirmAndLeave, ScreensTypeOK, ViewScreen, Shows
  <2>6. ASSUME LoseAccess(r)
        PROVE  FALSE
    <3>1. PICK status \in Lapses : FinishDecrypt(r, status)
      BY <2>6 DEF LoseAccess
    <3>2. reader'[r].step = "error"
      BY <1>0, <3>1 DEF FinishDecrypt, ScreensTypeOK, ViewScreen, Lapses
    <3>3. QED
      BY <1>0, <3>2
  <2>7. ASSUME Visit(r, id) \/ TryAgain(r) \/ Leave(r) \/ \E link \in shared : Visit(r, link)
        PROVE  \E slug, key : reader'[r] = Page(slug, key)
    BY <1>0, <2>7 DEF Visit, TryAgain, Leave, NoPage, ScreensTypeOK
  <2>8. QED
    BY <1>1, <2>1, <2>2, <2>3, <2>4, <2>5, <2>6, <2>7 DEF ReaderStep
<1>2. ASSUME NEW s \in Senders, SenderStep(s)
      PROVE  reader' = reader
  BY <1>2 DEF SenderStep, HandleEncrypt, Share, NewSecret, LoseCreate
<1>3. ASSUME CrashServer
      PROVE  FALSE
  <2>1. reader'[r] = [reader[r] EXCEPT !.step = "error", !.errMsg = "failed"]
    BY <1>0, <1>3 DEF CrashServer
  <2>2. QED
    BY <1>0, <2>1 DEF ViewScreen
<1>4. PICK h \in Handlers : Serve(h)
  BY <1>0, <1>1, <1>2, <1>3
     DEF ScreensNext, Discard, Background, screenVars, screens
<1>5. /\ caller[h] = r /\ HandlerStep(h) /\ ServesReader(h, r)
      /\ FinishDecrypt(r, Status(h))
  <2>1. Reply(h) /\ HandlerStep(h)
    BY <1>0, <1>4 DEF Serve
  <2>2. caller[h] = r
    BY <1>0, <2>1 DEF Reply, FinishDecrypt, ScreensTypeOK
  <2>3. ServesReader(h, r)
    BY <2>2 DEF ScreensInv, CallInv
  <2>4. FinishDecrypt(r, Status(h))
    BY <2>1, <2>2 DEF Reply
  <2>5. QED
    BY <2>1, <2>2, <2>3, <2>4
<1>6. Status(h) = "ok" /\ reader'[r] = [reader[r] EXCEPT !.step = "reveal"]
  BY <1>0, <1>5 DEF FinishDecrypt, ScreensTypeOK, ViewScreen
<1>7. reader[r].slug = id /\ req[h].slug = id
  BY <1>0, <1>5, <1>6 DEF ViewScreen, ServesReader
<1>8. pc[h] = "Respond" /\ delivered' # delivered
  BY <1>5, <1>6 DEF Status, ServesReader
<1>9. delivered' = [delivered EXCEPT ![id] = @ + 1]
  BY <1>5, <1>7, <1>8
     DEF HandlerStep, GetBySlug, CheckAccess, UpdateExpired, OpenLink,
         UpdateOpened, Respond, InsertLink, GetForDelete, CheckOwner, DeleteLink
<1>10. \A q \in Readers \ {r} : reader'[q] = reader[q]
  BY <1>0, <1>5 DEF FinishDecrypt, ScreensTypeOK
<1>11. Decrypts(id, reader[r].key)'
  <2>1. reader'[r].key = sealed[id]
    BY <1>0, <1>5, <1>6, <1>7 DEF FinishDecrypt, Decrypts, ScreensTypeOK, ViewScreen
  <2>2. sealed' = sealed
    BY <1>4 DEF Serve
  <2>3. QED
    BY <2>1, <2>2 DEF Decrypts
<1>12. QED
  BY <1>9, <1>10, <1>11

(* Deliveries are never taken back. *)
LEMMA DeliveriesGrow ==
  ASSUME IInv, [Next]_vars, NEW id \in Links
  PROVE  delivered[id] \in Nat /\ delivered'[id] \in Nat /\ delivered'[id] >= delivered[id]
<1>0. delivered \in [Links -> Nat]
  BY DEF IInv, TypeOK
<1>1. CASE delivered' = delivered
  BY <1>0, <1>1
<1>2. CASE delivered' # delivered
  <2>1. PICK h \in Handlers : Respond(h)
    BY <1>2, OnlyRespondDelivers
  <2>2. delivered' = [delivered EXCEPT ![req[h].slug] = @ + 1]
    BY <1>2, <2>1, RespondGivesUp
  <2>3. QED
    BY <1>0, <2>2
<1>3. QED
  BY <1>1, <1>2

(* Every step keeps screens and deliveries in proportion. *)
LEMMA SeenOnceNext ==
  ASSUME IsFiniteSet(Readers), ScreensInv, SeenOnce, [ScreensNext]_screenVars
  PROVE  SeenOnce'
<1> SUFFICES ASSUME NEW id \in Links
             PROVE  Cardinality(Viewers(id)') <= delivered'[id]
  BY DEF SeenOnce
<1>0. /\ delivered[id] \in Nat /\ delivered'[id] \in Nat
      /\ delivered'[id] >= delivered[id] /\ delivered \in [Links -> Nat]
  BY ServiceStep, Lift, DeliveriesGrow DEF TypeOK
<1>1. /\ Viewers(id) \in SUBSET Readers /\ Viewers(id)' \in SUBSET Readers
  BY DEF Viewers
<1>2. /\ IsFiniteSet(Viewers(id)) /\ IsFiniteSet(Viewers(id)')
      /\ Cardinality(Viewers(id)) \in Nat /\ Cardinality(Viewers(id)') \in Nat
      /\ Cardinality(Viewers(id)) <= delivered[id]
  BY <1>1, FS_Subset, FS_CardinalityType DEF SeenOnce
<1>3. CASE Viewers(id)' \in SUBSET Viewers(id)
  <2>1. Cardinality(Viewers(id)') <= Cardinality(Viewers(id))
    BY <1>2, <1>3, FS_Subset
  <2>2. QED
    BY <1>0, <1>2, <2>1
<1>4. ASSUME NEW r \in Readers, r \in Viewers(id)', r \notin Viewers(id)
      PROVE  Cardinality(Viewers(id)') <= delivered'[id]
  <2>1. /\ delivered' = [delivered EXCEPT ![id] = @ + 1]
        /\ \A q \in Readers \ {r} : reader'[q] = reader[q]
    BY <1>4, ViewerOrigin DEF Viewers
  <2>2. Viewers(id)' = Viewers(id) \cup {r}
    BY <1>4, <2>1 DEF Viewers, Shows
  <2>3. Cardinality(Viewers(id)') = Cardinality(Viewers(id)) + 1
    BY <1>2, <1>4, <2>2, FS_AddElement
  <2>4. delivered'[id] = delivered[id] + 1
    BY <1>0, <2>1
  <2>5. QED
    BY <1>0, <1>2, <2>3, <2>4
<1>5. \/ Viewers(id)' \in SUBSET Viewers(id)
      \/ \E r \in Readers : r \in Viewers(id)' /\ r \notin Viewers(id)
  BY <1>1
<1>6. QED
  BY <1>3, <1>4, <1>5

(* No screen shows a text at the start. *)
LEMMA NothingSeenYet == ScreensInit => SeenOnce
<1> SUFFICES ASSUME ScreensInit, NEW id \in Links
             PROVE  Cardinality(Viewers(id)) <= delivered[id]
  BY DEF SeenOnce
<1>1. delivered[id] = 0 /\ Cardinality({}) = 0
  BY FS_EmptySet DEF ScreensInit, Init
<1>2. ASSUME NEW r \in Readers
      PROVE  ~Shows(r, id)
  <2>1. reader[r] = NoPage
    BY <1>2 DEF ScreensInit
  <2>2. reader[r].step = "enter"
    BY <2>1, PageSlug DEF NoPage
  <2>3. QED
    BY <2>2 DEF Shows
<1>3. Viewers(id) = {}
  BY <1>2 DEF Viewers
<1>4. QED
  BY <1>1, <1>3

(* Every screen that shows a secret, or says it is destroyed, used up a    *)
(* delivery of its own: neither a lost response, a retry, nor a tab that   *)
(* left and came back, shows one delivery twice.                           *)
THEOREM DeliveriesSeenOnce ==
  ASSUME IsFiniteSet(Readers)
  PROVE  ScreensSpec => []SeenOnce
<1>1. ScreensInv /\ SeenOnce /\ [ScreensNext]_screenVars => SeenOnce'
  BY SeenOnceNext
<1>2. QED
  BY <1>1, NothingSeenYet, ScreensInvariant, PTL DEF ScreensSpec

(* At most as many screens see a secret as requests overlapped its first   *)
(* opening, those that may still deliver it included.                      *)
ViewersOverlap ==
    \A id \in Links : Cardinality(Viewers(id)) + Cardinality(Holders(id))
                          <= Cardinality(Handlers)

(* From the browser's click to the shown text: the bound on deliveries is  *)
(* one on the screens that show the secret.                                *)
THEOREM ViewersAreOverlaps ==
  ASSUME IsFiniteSet(Readers), IsFiniteSet(Handlers)
  PROVE  ScreensSpec => []ViewersOverlap
<1>1. IInv /\ SeenOnce /\ DeliveriesOverlap => ViewersOverlap
  <2> SUFFICES ASSUME IInv, SeenOnce, DeliveriesOverlap, NEW id \in Links
               PROVE  Cardinality(Viewers(id)) + Cardinality(Holders(id))
                         <= Cardinality(Handlers)
    BY DEF ViewersOverlap
  <2>1. /\ Viewers(id) \in SUBSET Readers /\ Holders(id) \in SUBSET Handlers
        /\ delivered[id] \in Nat
    BY DEF Viewers, Holders, IInv, TypeOK
  <2>2. /\ Cardinality(Viewers(id)) \in Nat /\ Cardinality(Holders(id)) \in Nat
        /\ Cardinality(Handlers) \in Nat
    BY <2>1, FS_Subset, FS_CardinalityType
  <2>3. /\ Cardinality(Viewers(id)) <= delivered[id]
        /\ delivered[id] + Cardinality(Holders(id)) <= Cardinality(Handlers)
    BY DEF SeenOnce, DeliveriesOverlap
  <2>4. QED
    BY <2>1, <2>2, <2>3
<1>2. Spec => []IInv /\ []DeliveriesOverlap
  BY InductiveInvariant, DeliveriesAreOverlaps
<1>3. ScreensSpec => []SeenOnce
  BY DeliveriesSeenOnce
<1>4. QED
  BY <1>1, <1>2, <1>3, ScreensUseService, PTL

-----------------------------------------------------------------------------
(* What a fragment opens *)

(* A screen that shows a text, or says it is destroyed, holds its key. *)
ShownDecrypts ==
    \A r \in Readers : \A id \in Links :
        Shows(r, id) => Decrypts(id, reader[r].key)

(* A screen that goes on showing a secret keeps the key it was read with. *)
LEMMA ShownKeepsKey ==
  ASSUME ScreensInv, [ScreensNext]_screenVars, NEW r \in Readers, NEW id \in Links,
         Shows(r, id), Shows(r, id)'
  PROVE  reader'[r].key = reader[r].key
<1>0. /\ ScreensTypeOK /\ reader[r] \in ViewScreen /\ Senders \cap Readers = {}
      /\ reader[r].step \in {"reveal", "burned"}
      /\ reader'[r].step \in {"reveal", "burned"}
      /\ \A h \in Handlers : caller[h] # r
  BY ScreenTypes, ScreensAssumption, CallerWaits DEF ScreensInv, Shows
<1>1. ASSUME NEW q \in Readers, ReaderStep(q)
      PROVE  reader'[r].key = reader[r].key
  <2>1. CASE q # r
    BY <1>0, <1>1, <2>1 DEF ReaderStep, Visit, Paste, HandleDecrypt, TryAgain,
                      ConfirmAndLeave, Leave, LoseAccess, FinishDecrypt,
                      ScreensTypeOK
  <2>2. CASE q = r /\ ConfirmAndLeave(r)
    BY <1>0, <2>2 DEF ConfirmAndLeave, ScreensTypeOK, ViewScreen
  <2>3. ASSUME NEW slug, NEW key, reader'[r] = Page(slug, key)
        PROVE  FALSE
    BY <1>0, <2>3, PageSlug
  <2>4. CASE q = r /\ ~ConfirmAndLeave(r)
    <3>1. ASSUME Leave(r) \/ \E link \in shared : Visit(r, link)
          PROVE  \E slug, key : reader'[r] = Page(slug, key)
      BY <1>0, <3>1 DEF Visit, Leave, NoPage, ScreensTypeOK
    <3>2. ~TryAgain(r) /\ ~LoseAccess(r)
      BY <1>0 DEF TryAgain, LoseAccess
    <3>3. \A link \in shared : ~Paste(r, link)
      BY <1>0 DEF Paste
    <3>4. \A h \in Handlers : ~HandleDecrypt(r, h)
      BY <1>0 DEF HandleDecrypt
    <3>5. QED
      BY <1>1, <2>3, <2>4, <3>1, <3>2, <3>3, <3>4 DEF ReaderStep
  <2>5. QED
    BY <2>1, <2>2, <2>4
<1>2. ASSUME NEW s \in Senders, SenderStep(s)
      PROVE  reader' = reader
  BY <1>2 DEF SenderStep, HandleEncrypt, Share, NewSecret, LoseCreate
<1>3. ASSUME CrashServer
      PROVE  reader'[r] = reader[r]
  BY <1>0, <1>3 DEF CrashServer
<1>4. ASSUME NEW h \in Handlers, Serve(h)
      PROVE  reader'[r] = reader[r]
  BY <1>0, <1>4 DEF Serve, Reply, FinishDecrypt, ScreensTypeOK
<1>5. QED
  BY <1>1, <1>2, <1>3, <1>4
     DEF ScreensNext, Discard, Background, screenVars, screens

(* A link that a screen shows was issued, and its text has a key. *)
LEMMA ShownIssued ==
  ASSUME ScreensInv, NEW r \in Readers, NEW id \in Links, Shows(r, id)
  PROVE  id \in issued /\ sealed[id] \in AesKeys
<1>1. ReaderInv(r) /\ KeyInv /\ IInv /\ ScreensTypeOK
  BY DEF ScreensInv
<1>2. reader[r] # NoPage
  BY PageSlug DEF Shows, NoPage
<1>3. id \in published
  BY <1>1, <1>2 DEF ReaderInv, Shows
<1>4. id \in issued
  BY <1>1, <1>3 DEF IInv, BornOnce
<1>5. QED
  BY <1>1, <1>4 DEF KeyInv, ScreensTypeOK

LEMMA ShownDecryptsNext ==
  ASSUME ScreensInv, ShownDecrypts, [ScreensNext]_screenVars
  PROVE  ShownDecrypts'
<1> SUFFICES ASSUME NEW r \in Readers, NEW id \in Links, Shows(r, id)'
             PROVE  Decrypts(id, reader[r].key)'
  BY DEF ShownDecrypts
<1>1. CASE Shows(r, id)
  <2>1. sealed'[id] = sealed[id]
    BY <1>1, ShownIssued, SealedKept
  <2>2. reader'[r].key = reader[r].key
    BY <1>1, ShownKeepsKey
  <2>3. reader[r].key = sealed[id]
    BY <1>1 DEF ShownDecrypts, Decrypts
  <2>4. QED
    BY <2>1, <2>2, <2>3 DEF Decrypts
<1>2. CASE ~Shows(r, id)
  BY <1>2, ViewerOrigin
<1>3. QED
  BY <1>1, <1>2

(* Channel 2, pasted as the sender's button copied it, opens nothing: no   *)
(* request with it gets past the comparison, and no screen that holds it   *)
(* shows a text.                                                           *)
FragmentOpensNothing ==
    /\ \A r \in Readers : \A id \in Links :
          (reader[r].slug = id /\ reader[r].key = Fragment(sealed[id])) =>
              ~Shows(r, id)
    /\ \A h \in Handlers :
          (pc[h] # Idle /\ req[h].key = Fragment(sealed[req[h].slug])) =>
              pc[h] \notin {"Open", "UpdateOpened", "Respond"}

(* TwoChannelsOpen does not fail by an accident of timing: for every link, *)
(* on every screen and however often it is tried, the pasted fragment is   *)
(* compared as another key (clipboard of CreateScreen.tsx, key field of    *)
(* ViewSecretScreen.tsx).                                                  *)
THEOREM PastedFragmentNeverOpens == ScreensSpec => []FragmentOpensNothing
<1>1. ScreensInit => ShownDecrypts
  <2> SUFFICES ASSUME ScreensInit, NEW r \in Readers
               PROVE  reader[r].step = "enter"
    BY DEF ShownDecrypts, Shows
  <2>1. reader[r] = NoPage
    BY DEF ScreensInit
  <2>2. QED
    BY <2>1, PageSlug DEF NoPage
<1>2. ScreensInv /\ ShownDecrypts /\ [ScreensNext]_screenVars => ShownDecrypts'
  BY ShownDecryptsNext
<1>3. ScreensInv /\ ShownDecrypts => FragmentOpensNothing
  <2> SUFFICES ASSUME ScreensInv, ShownDecrypts
               PROVE  FragmentOpensNothing
    OBVIOUS
  <2>1. ASSUME NEW r \in Readers, NEW id \in Links, Shows(r, id)
        PROVE  reader[r].key # Fragment(sealed[id])
    <3>1. sealed[id] \in AesKeys /\ reader[r].key = sealed[id]
      BY <2>1, ShownIssued DEF ShownDecrypts, Decrypts
    <3>2. QED
      BY <3>1, FragmentAssumption
  <2>2. ASSUME NEW h \in Handlers, pc[h] \in {"Open", "UpdateOpened", "Respond"}
        PROVE  req[h].key # Fragment(sealed[req[h].slug])
    <3>1. req[h].key = sealed[req[h].slug]
      BY <2>2 DEF ScreensInv, KeyInv, KeyCompared
    <3>2. req[h].slug \in issued /\ req[h].slug \in Links
      BY <2>2 DEF ScreensInv, CopyInv, IInv, BornOnce, TypeOK
    <3>3. sealed[req[h].slug] \in AesKeys
      BY <3>2 DEF ScreensInv, KeyInv, ScreensTypeOK
    <3>4. QED
      BY <3>1, <3>3, FragmentAssumption
  <2>3. QED
    BY <2>1, <2>2 DEF FragmentOpensNothing
<1>4. QED
  BY <1>1, <1>2, <1>3, ScreensInvariant, PTL DEF ScreensSpec
==========================================================================
