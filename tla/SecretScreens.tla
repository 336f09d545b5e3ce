--------------------------- MODULE SecretScreens ---------------------------
(* The create and the view screen (frontend/src/screens/CreateScreen.tsx   *)
(* and ViewSecretScreen.tsx) in front of the link service: what a sender   *)
(* passes on, what a reader types, and what calls that overlap, fail or    *)
(* are abandoned show to both.  A click and the arrival of its request are *)
(* one step, and so are a response and what the screen makes of it: in     *)
(* between, the screens only use constants of the handler function.        *)
EXTENDS LinkService

CONSTANTS
    Senders,    \* tabs with the create screen
    Readers,    \* tabs that view secrets
    AesKeys,    \* generated keys, as text (base64url is injective)
    MaxShared   \* bound on the links passed on

(* The fragment of a URL, '#' included: another text than the key. *)
Fragment(key) == <<"#", key>>

ASSUME AesKeysAssumption == Nil \notin AesKeys
(* '#' is no character of base64url. *)
ASSUME FragmentAssumption == \A key \in AesKeys : Fragment(key) \notin AesKeys
ASSUME KeysAssumption == Keys = AesKeys \cup {Fragment(key) : key \in AesKeys}
ASSUME MaxSharedAssumption == MaxShared \in Nat
ASSUME ScreensAssumption ==
    Senders \cap Readers = {} /\ Nil \notin Senders \cup Readers

VARIABLES
    sender,     \* sender[s]: state of the create screen
    reader,     \* reader[r]: state of the view screen
    caller,     \* caller[h]: the screen whose fetch handler h serves, or Nil
    sealed,     \* sealed[id]: the key that decrypts the link's ciphertext
    shared      \* links whose sender passed on what the done screen shows

screens    == <<sender, reader, caller, sealed, shared>>
screenVars == <<vars, screens>>

CreateScreen == [step : {"form", "encrypting", "done"},
                 key : AesKeys \cup {Nil}, slug : Links \cup {Nil}]
EmptyForm == [step |-> "form", key |-> Nil, slug |-> Nil]

(* errMsg: the server's "link not found or expired", the screen's own      *)
(* sentence for an answer that gives no reason, or anything else.          *)
Lapses == {"no reason", "failed"}
ViewScreen == [step : {"enter", "decrypting", "reveal", "burned", "error"},
               key : Keys \cup {Nil}, slug : Links \cup {Nil},
               errMsg : {"", "not found"} \cup Lapses]

(* A tab that shows no link has slug Nil. *)
Page(id, key) == [step |-> "enter", key |-> key, slug |-> id, errMsg |-> ""]
NoPage == Page(Nil, Nil)

ScreensTypeOK ==
    /\ sender \in [Senders -> CreateScreen]
    /\ reader \in [Readers -> ViewScreen]
    /\ caller \in [Handlers -> Senders \cup Readers \cup {Nil}]
    /\ sealed \in [Links -> AesKeys \cup {Nil}]
    /\ shared \subseteq Links

ScreensInit ==
    /\ Init
    /\ sender = [s \in Senders |-> EmptyForm]
    /\ reader = [r \in Readers |-> NoPage]
    /\ caller = [h \in Handlers |-> Nil]
    /\ sealed = [id \in Links |-> Nil]
    /\ shared = {}

(* Faulty variant: an answer reaches the screen that the tab shows by then.*)
HangUpNot(x) == UNCHANGED caller

(* The answer to screen x is no longer waited for. *)
HangUp(x) ==
    caller' = [h \in Handlers |-> IF caller[h] = x THEN Nil ELSE caller[h]]

-----------------------------------------------------------------------------
(* Create screen *)

(* A key that no other text was encrypted with. *)
FreshKeys == AesKeys \ ({sealed[id] : id \in Links}
                        \cup {sender[s].key : s \in Senders})

(* The text is encrypted with a fresh key, which the request carries; an   *)
(* expiry is always chosen.  What a lapsed session does to the creator is  *)
(* the subject of BrowserSession.                                          *)
HandleEncrypt(s, h) ==
    /\ sender[s].step = "form"
    /\ \E key \in FreshKeys, id \in Links, expiresIn \in ExpiresIn \ {Nil},
          user \in Users :
          /\ BeginCreate(h, id, key, expiresIn, user)
          /\ sealed' = [sealed EXCEPT ![id] = key]
          /\ sender' = [sender EXCEPT ![s] = [@ EXCEPT !.step = "encrypting",
                                                       !.key = key]]
    /\ caller' = [caller EXCEPT ![h] = s]
    /\ UNCHANGED <<reader, shared>>

(* Faulty variant: any answer ends at the done screen. *)
FinishCreateUnchecked(s, ok, id) ==
    sender' = [sender EXCEPT ![s] = [@ EXCEPT !.step = "done", !.slug = id]]

(* An error brings the form back and drops the key, although the link may  *)
(* have been stored.                                                       *)
FinishCreate(s, ok, id) ==
    sender' = [sender EXCEPT ![s] =
                  IF ok THEN [@ EXCEPT !.step = "done", !.slug = id]
                        ELSE EmptyForm]

(* The bound: once MaxShared links were passed on, the others are neither  *)
(* passed on nor invalidated.                                              *)
InPlay == IF Cardinality(shared) < MaxShared THEN published ELSE shared

(* The copy buttons: the full link, its URL (channel 1), the fragment      *)
(* (channel 2).                                                            *)
Share(s) ==
    /\ sender[s].step = "done"
    /\ sender[s].slug \in InPlay \ shared
    /\ shared' = shared \cup {sender[s].slug}
    /\ UNCHANGED <<vars, sender, reader, caller, sealed>>

NewSecret(s) ==
    /\ sender[s].step = "done"
    /\ sender' = [sender EXCEPT ![s] = EmptyForm]
    /\ UNCHANGED <<vars, reader, caller, sealed, shared>>

-----------------------------------------------------------------------------
(* View screen *)

(* A received URL is opened; the fragment of a full link, without its '#', *)
(* fills in the key.                                                       *)
Visit(r, id) ==
    /\ reader[r].slug = Nil
    /\ \E key \in {sealed[id], Nil} :
          reader' = [reader EXCEPT ![r] = Page(id, key)]
    /\ UNCHANGED <<vars, sender, caller, sealed, shared>>

(* Channel 2 of a link is pasted into the key field as it was received. *)
Paste(r, id) ==
    /\ reader[r].slug # Nil
    /\ reader[r].step = "enter"
    /\ reader' = [reader EXCEPT ![r].key = Fragment(sealed[id])]
    /\ UNCHANGED <<vars, sender, caller, sealed, shared>>

HandleDecrypt(r, h) ==
    /\ reader[r].step = "enter"
    /\ reader[r].key # Nil
    /\ BeginAccess(h, reader[r].slug, reader[r].key)
    /\ reader' = [reader EXCEPT ![r].step = "decrypting"]
    /\ caller' = [caller EXCEPT ![h] = r]
    /\ UNCHANGED <<sender, sealed, shared>>

(* AES-GCM only decrypts with the key that encrypted. *)
Decrypts(id, key) == key = sealed[id]

FinishDecrypt(r, status) ==
    reader' = [reader EXCEPT ![r] =
                  IF status = "ok" /\ Decrypts(@.slug, @.key)
                  THEN [@ EXCEPT !.step = "reveal"]
                  ELSE [@ EXCEPT !.step = "error",
                                 !.errMsg = IF status = "ok"
                                            THEN "failed" ELSE status]]

(* "Tentar novamente" keeps the slug and the key. *)
TryAgain(r) ==
    /\ reader[r].step = "error"
    /\ reader' = [reader EXCEPT ![r] = Page(@.slug, @.key)]
    /\ UNCHANGED <<vars, sender, caller, sealed, shared>>

ConfirmAndLeave(r) ==
    /\ reader[r].step = "reveal"
    /\ reader' = [reader EXCEPT ![r].step = "burned"]
    /\ UNCHANGED <<vars, sender, caller, sealed, shared>>

(* The tab goes elsewhere: the key, which left the address bar, and any    *)
(* text are gone; a call in flight is not waited for.                      *)
Leave(r) ==
    /\ reader[r].slug # Nil
    /\ reader[r].step = "decrypting" => Failures
    /\ reader' = [reader EXCEPT ![r] = NoPage]
    /\ HangUp(r)
    /\ UNCHANGED <<vars, sender, sealed, shared>>

-----------------------------------------------------------------------------
(* The wire between screens and handlers *)

(* A fetch rejects, or a proxy answers with a page of its own, while the   *)
(* server works on the request, or instead of reaching it (the last case   *)
(* changes no link: TryAgain repeats the call).                            *)
LoseCreate(s) ==
    /\ Failures
    /\ sender[s].step = "encrypting"
    /\ FinishCreate(s, FALSE, Nil)
    /\ HangUp(s)
    /\ UNCHANGED <<vars, reader, sealed, shared>>

LoseAccess(r) ==
    /\ Failures
    /\ reader[r].step = "decrypting"
    /\ \E status \in Lapses : FinishDecrypt(r, status)
    /\ HangUp(r)
    /\ UNCHANGED <<vars, sender, sealed, shared>>

(* Faulty variant: the handler answers 404 to any error of AccessLink. *)
StatusNotFound(h) ==
    CASE pc[h] = "Create"  -> IF published' # published THEN "ok" ELSE "failed"
      [] pc[h] = "Respond" -> IF delivered' # delivered THEN "ok" ELSE "failed"
      [] OTHER -> "not found"

(* What a handler that returns in this step answers: 201, 200, 404 or 500; *)
(* 500 also when Open finds expired what CanAccess found good.             *)
Status(h) ==
    CASE pc[h] = "Create"  -> IF published' # published THEN "ok" ELSE "failed"
      [] pc[h] = "Respond" -> IF delivered' # delivered THEN "ok" ELSE "failed"
      [] pc[h] \in {"CanAccess", "UpdateExpired"} -> "not found"
      [] OTHER -> "failed"

Reply(h) ==
    LET x == caller[h] IN
    /\ caller' = [caller EXCEPT ![h] = Nil]
    /\ IF x \in Senders THEN FinishCreate(x, Status(h) = "ok", req[h].slug)
                        ELSE UNCHANGED sender
    /\ IF x \in Readers THEN FinishDecrypt(x, Status(h)) ELSE UNCHANGED reader

(* A response that nobody waits for is not delivered. *)
Serve(h) ==
    /\ HandlerStep(h)
    /\ caller[h] = Nil => delivered' = delivered
    /\ IF pc'[h] = Idle THEN Reply(h) ELSE UNCHANGED <<sender, reader, caller>>
    /\ UNCHANGED <<sealed, shared>>

(* The list screen's invalidation, by whoever knows of the link: DeleteLink*)
(* refuses strangers.                                                      *)
Discard(h, id, user) ==
    /\ id \in InPlay
    /\ BeginDelete(h, id, user)
    /\ UNCHANGED screens

(* The server's own steps. *)
Background ==
    /\ \/ \E g \in Handlers \X Links : WriteAccessLog(g)
       \/ Janitor
       \/ Tick
    /\ UNCHANGED screens

(* The connections break with the process (a proxy's page in their place:  *)
(* LoseAccess just before).                                                *)
CrashServer ==
    LET Called(x) == \E h \in Handlers : caller[h] = x IN
    /\ Crash
    /\ sender' = [s \in Senders |-> IF Called(s) THEN EmptyForm ELSE sender[s]]
    /\ reader' = [r \in Readers |->
          IF Called(r) THEN [reader[r] EXCEPT !.step = "error", !.errMsg = "failed"]
          ELSE reader[r]]
    /\ caller' = [h \in Handlers |-> Nil]
    /\ UNCHANGED <<sealed, shared>>

-----------------------------------------------------------------------------
SenderStep(s) ==
    \/ \E h \in Handlers : HandleEncrypt(s, h)
    \/ Share(s)
    \/ NewSecret(s)
    \/ LoseCreate(s)

ReaderStep(r) ==
    \/ \E id \in shared : Visit(r, id) \/ Paste(r, id)
    \/ \E h \in Handlers : HandleDecrypt(r, h)
    \/ TryAgain(r)
    \/ ConfirmAndLeave(r)
    \/ Leave(r)
    \/ LoseAccess(r)

ScreensNext ==
    \/ \E s \in Senders : SenderStep(s)
    \/ \E r \in Readers : ReaderStep(r)
    \/ \E h \in Handlers :
          Serve(h) \/ \E id \in Links, user \in Users : Discard(h, id, user)
    \/ Background
    \/ CrashServer

ScreensSpec == ScreensInit /\ [][ScreensNext]_screenVars
-----------------------------------------------------------------------------
(* No opening is wasted on a wrong key: the server only uses a link up for *)
(* a request whose key decrypts the text, although it compares hashes and  *)
(* the browser decrypts afterwards.                                        *)
OnlyTheKeyOpens ==
    \A h \in Handlers : pc[h] \in {"UpdateOpened", "Respond"} =>
        Decrypts(req[h].slug, req[h].key)

(* ViewSecretScreen.tsx:229-230 and :250: once a screen shows the text, or *)
(* says that the secret is destroyed, no request that begins to read the   *)
(* row finds it accessible again; a request that holds a copy from before  *)
(* may still deliver it (DeliveriesOverlap).                               *)
RevealedIsGone ==
    \A r \in Readers : reader[r].step \in {"reveal", "burned"} =>
        ~Accessible(reader[r].slug)

(* domain/errors.go:6, which ViewSecretScreen.tsx:59 shows: the 404 "link  *)
(* not found or expired" is true, and for good, when the reader's key is   *)
(* the right one: it never comes from a stale copy or another reader's     *)
(* failed call.                                                            *)
RefusalIsTrue ==
    \A r \in Readers :
        (reader[r].errMsg = "not found" /\ Decrypts(reader[r].slug, reader[r].key))
            => ~Accessible(reader[r].slug)

(* CreateScreen.tsx:71: an error drops the key and the next attempt makes  *)
(* another, while the lost call may still store its link, and answer.  The *)
(* key on the done screen is none the less the one that the row of the     *)
(* shown slug is compared with, as long as it exists.                      *)
DoneShowsItsKey ==
    \A s \in Senders : sender[s].step = "done" =>
        /\ sender[s].slug \in published
        /\ Exists(sender[s].slug) =>
              links[sender[s].slug].hashed_key = sender[s].key

-----------------------------------------------------------------------------
(* The inductive invariant behind these four *)

(* The key whose hash a row, or a copy of it, carries decrypts its text;   *)
(* past the comparison of AccessLink that is also the request's key.       *)
RowSealed(id) == Exists(id) => links[id].hashed_key = sealed[id]
CopySealed(h) ==
    (pc[h] # Idle /\ req[h].link # Nil) =>
        req[h].link.hashed_key = sealed[req[h].slug]
KeyCompared(h) ==
    pc[h] \in {"Open", "UpdateOpened", "Respond"} =>
        req[h].key = sealed[req[h].slug]

KeyInv ==
    /\ \A id \in issued : sealed[id] # Nil
    /\ \A id \in Links : RowSealed(id)
    /\ \A h \in Handlers : CopySealed(h) /\ KeyCompared(h)

(* A screen waits for at most one handler, which serves what it asked for. *)
ServesSender(h, s) ==
    /\ pc[h] = "Create"
    /\ sender[s].step = "encrypting"
    /\ sender[s].key = sealed[req[h].slug]
ServesReader(h, r) ==
    /\ pc[h] \in AccessPCs
    /\ reader[r].step = "decrypting"
    /\ reader[r].slug = req[h].slug
    /\ reader[r].key = req[h].key
CallInv(h) ==
    /\ caller[h] \in Senders => ServesSender(h, caller[h])
    /\ caller[h] \in Readers => ServesReader(h, caller[h])
    /\ \A other \in Handlers \ {h} : caller[h] = Nil \/ caller[other] # caller[h]

(* Readers ask for published links; a copy that was not there, or no longer*)
(* waited, is one of a link that is gone for good.                         *)
CopyInv(h) ==
    pc[h] \in AccessPCs =>
        /\ req[h].slug \in published
        /\ (pc[h] = "CanAccess" /\ req[h].link = Nil) => ~Exists(req[h].slug)
        /\ (pc[h] = "CanAccess" /\ req[h].link # Nil
              /\ req[h].link.status # StatusWaiting) => Closed(req[h].slug)
        /\ pc[h] = "UpdateExpired" => Dead(req[h].slug)

SenderInv(s) ==
    sender[s].step = "done" =>
        /\ sender[s].slug \in published
        /\ sender[s].key = sealed[sender[s].slug]

ReaderInv(r) ==
    /\ reader[r].slug # Nil => reader[r].slug \in published
    /\ reader[r].slug = Nil => reader[r] = NoPage
    /\ reader[r].step = "enter" => reader[r].errMsg = ""
    /\ reader[r].step \in {"reveal", "burned"} => Closed(reader[r].slug)
    /\ (reader[r].errMsg = "not found" /\ Decrypts(reader[r].slug, reader[r].key))
          => Dead(reader[r].slug)

ScreensInv ==
    /\ IInv
    /\ ScreensTypeOK
    /\ KeyInv
    /\ shared \subseteq published
    /\ \A h \in Handlers : CallInv(h) /\ CopyInv(h)
    /\ \A s \in Senders : SenderInv(s)
    /\ \A r \in Readers : ReaderInv(r)

-----------------------------------------------------------------------------
(* What the documentation says of the channels *)

(* README.md:16-18: the URL is split across two channels, and channel 2 is *)
(* "#<decryption-key>".  A reader with both channels of one link is only   *)
(* refused when the link is spent.                                         *)
TwoChannelsOpen ==
    \A r \in Readers :
        (/\ reader[r].errMsg = "not found"
         /\ reader[r].key = Fragment(sealed[reader[r].slug]))
            => ~Accessible(reader[r].slug)
============================================================================
