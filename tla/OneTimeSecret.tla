-------------------------- MODULE OneTimeSecret --------------------------
(* What the link service promises about a secret, with no table, clock or  *)
(* status: a secret is published once, is open to readers for a while, and *)
(* is closed for good.  Only a reader that took it while it was open can   *)
(* deliver it, once, and only after the secret was closed to all others.   *)
EXTENDS Naturals

CONSTANTS Links, Handlers

VARIABLES
    phase,      \* phase[id]: unborn, open or closed
    readers,    \* readers[id]: handlers that hold the secret, undelivered
    delivered   \* delivered[id]: how often the secret was handed out

avars == <<phase, readers, delivered>>

AInit ==
    /\ phase = [id \in Links |-> "unborn"]
    /\ readers = [id \in Links |-> {}]
    /\ delivered = [id \in Links |-> 0]

(* Readers may give up at any time: a refused key, an error, a crash. *)
ReadersDrop == \A id \in Links : readers'[id] \subseteq readers[id]

Publish(id) ==
    /\ phase[id] = "unborn"
    /\ phase' = [phase EXCEPT ![id] = "open"]
    /\ UNCHANGED <<readers, delivered>>

Take(id, h) ==
    /\ phase[id] = "open"
    /\ readers' = [readers EXCEPT ![id] = @ \cup {h}]
    /\ UNCHANGED <<phase, delivered>>

(* Opened, expired or deleted; the janitor closes several at a time. *)
Close ==
    /\ phase' \in [Links -> {"unborn", "open", "closed"}]
    /\ \A id \in Links : \/ phase'[id] = phase[id]
                         \/ phase[id] = "open" /\ phase'[id] = "closed"
    /\ readers' \in [Links -> SUBSET Handlers]
    /\ ReadersDrop
    /\ UNCHANGED delivered

Deliver(id, h) ==
    /\ phase[id] = "closed"
    /\ h \in readers[id]
    /\ readers' = [readers EXCEPT ![id] = @ \ {h}]
    /\ delivered' = [delivered EXCEPT ![id] = @ + 1]
    /\ UNCHANGED phase

ANext ==
    \/ \E id \in Links : Publish(id)
    \/ \E id \in Links, h \in Handlers : Take(id, h) \/ Deliver(id, h)
    \/ Close

ASpec == AInit /\ [][ANext]_avars
===========================================================================
