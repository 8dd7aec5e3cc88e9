---------------------------- MODULE TokenFamilies ----------------------------
(***************************************************************************)
(* What a RefreshTokenStore promises (backend/pkg/store): refresh tokens   *)
(* come in families, one per login. A family is live while it has a        *)
(* current token; redeeming the current token replaces it by a fresh one;  *)
(* a revoked or expired family never comes back; and no token is ever      *)
(* redeemed twice. Every operation is one step, as under the mutex of the  *)
(* MemoryRefreshTokenStore.                                                *)
(***************************************************************************)
CONSTANTS Tokens, Families, Users, NoToken, NoUser

VARIABLES
    owner,     \* family -> the user who logged in, NoUser before
    current,   \* family -> its current token, NoToken when it is not live
    issued,    \* tokens handed out
    redeemed   \* tokens exchanged for a successor

vars == <<owner, current, issued, redeemed>>

Init ==
    /\ owner = [f \in Families |-> NoUser]
    /\ current = [f \in Families |-> NoToken]
    /\ issued = {}
    /\ redeemed = {}

Issue(f, u, t) ==
    /\ owner[f] = NoUser
    /\ t \notin issued
    /\ owner' = [owner EXCEPT ![f] = u]
    /\ current' = [current EXCEPT ![f] = t]
    /\ issued' = issued \cup {t}
    /\ UNCHANGED redeemed

Redeem(f, t) ==
    /\ current[f] # NoToken
    /\ current[f] \notin redeemed
    /\ t \notin issued
    /\ current' = [current EXCEPT ![f] = t]
    /\ issued' = issued \cup {t}
    /\ redeemed' = redeemed \cup {current[f]}
    /\ UNCHANGED owner

Revoke(f) ==
    /\ current[f] # NoToken
    /\ current' = [current EXCEPT ![f] = NoToken]
    /\ UNCHANGED <<owner, issued, redeemed>>

Next ==
    \E f \in Families :
        \/ \E u \in Users, t \in Tokens : Issue(f, u, t)
        \/ \E t \in Tokens : Redeem(f, t)
        \/ Revoke(f)

Spec == Init /\ [][Next]_vars
=============================================================================
