--------------------------- MODULE TokenLineage ---------------------------
(* What the auth service promises about refresh tokens, with no table,     *)
(* lock or clock: a token is issued once, is good for a while and ends for *)
(* good.  A replacement is only issued to a request that saw its token     *)
(* good, one for each such request, and it ends the token it replaces.     *)
(* The promise is not that a token is replaced once: requests that see it  *)
(* good together are all served.                                           *)
EXTENDS Naturals

CONSTANTS
    Tokens,
    Requests    \* requests the service handles at a time

VARIABLES
    phase,      \* phase[t]: unborn, good or ended
    claims      \* claims[t]: requests that saw t good and may still replace it

lvars == <<phase, claims>>

Phases == {"unborn", "good", "ended"}

LInit ==
    /\ phase = [t \in Tokens |-> "unborn"]
    /\ claims = [t \in Tokens |-> {}]

(* SignUp and Login. *)
Issue(t) ==
    /\ phase[t] = "unborn"
    /\ phase' = [phase EXCEPT ![t] = "good"]
    /\ UNCHANGED claims

Claim(t, r) ==
    /\ phase[t] = "good"
    /\ claims' = [claims EXCEPT ![t] = @ \cup {r}]
    /\ UNCHANGED phase

(* A replacement that is stored very late may be born expired. *)
Rotate(t, r, child) ==
    /\ r \in claims[t]
    /\ phase[child] = "unborn"
    /\ \E p \in {"good", "ended"} :
          phase' = [phase EXCEPT ![t] = "ended", ![child] = p]
    /\ claims' = [claims EXCEPT ![t] = @ \ {r}]

(* Logout, expiry and the purge end tokens, the last two several at a      *)
(* time; requests give up.                                                 *)
End ==
    /\ phase' \in [Tokens -> Phases]
    /\ \A t \in Tokens : \/ phase'[t] = phase[t]
                         \/ phase[t] = "good" /\ phase'[t] = "ended"
    /\ claims' \in [Tokens -> SUBSET Requests]
    /\ \A t \in Tokens : claims'[t] \subseteq claims[t]

LNext ==
    \/ \E t \in Tokens : Issue(t)
    \/ \E t \in Tokens, r \in Requests : Claim(t, r)
    \/ \E t, child \in Tokens, r \in Requests : Rotate(t, r, child)
    \/ End

LSpec == LInit /\ [][LNext]_lvars
===========================================================================
