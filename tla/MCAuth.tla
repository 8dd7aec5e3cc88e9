------------------------------- MODULE MCAuth -------------------------------
(***************************************************************************)
(* Accounts, codes, OAuth logins, sessions and administration for TLC.     *)
(* Each behaviour follows one of them, the scenario; the others stay in    *)
(* their initial states, so that the run is the sum of the components'     *)
(* state spaces.  What a scenario bounds more tightly than its constants   *)
(* do is said with it.                                                     *)
(***************************************************************************)
EXTENDS Accounts, Verification, OAuthLogin, GatewaySessions, AdminActions, TLC

CONSTANTS a1, a2, b1, b2, e1, e2, p1

\* Two of what acts, two of what is acted on.  The components share the values, so that
\* one permutation serves them all.
Actors == {a1, a2}
Things == {b1, b2}
Symmetry == Permutations(Actors) \cup Permutations(Things)

VARIABLE scenario
Scenarios == {"accounts", "revocations", "codes", "oauth", "sessions", "admin"}

authVars == <<accountVars, otpVars, oauthVars, sessionVars, adminVars, scenario>>

Init ==
    /\ scenario \in Scenarios
    /\ AccountsInit /\ VerificationInit /\ OAuthLoginInit
    /\ GatewaySessionsInit /\ AdminActionsInit
    \* Which email addresses and which password they are makes no difference.
    /\ users[Admin].email = e1 /\ users[Member].email = e2 /\ users[Admin].pw = p1
    \* A component that stays as it is begins in one state.
    /\ scenario \notin {"accounts", "revocations"} =>
        users[Admin].pw = users[Member].pw /\ \A s \in Subjects : identities[s] = NoUser
    /\ Cardinality(registered) <= (IF scenario = "codes" THEN 1 ELSE 0)

\* Two requests of every kind, or three by which the member logs in and changes passwords.
AccountsStep ==
    /\ scenario \in {"accounts", "revocations"}
    /\ AccountsNext
    /\ \/ scenario = "accounts" /\ requests' <= 2 /\ now' <= 2
       \/ scenario = "revocations" /\ \A c \in Calls : call'[c].op \in {"none", "login", "password"}
                                      /\ call'[c].user \in {NoUser, Member}
    /\ UNCHANGED <<otpVars, oauthVars, sessionVars, adminVars, scenario>>

\* One code is sent at a time.
CodesStep ==
    /\ scenario = "codes"
    /\ VerificationNext
    /\ Cardinality(resend') <= 1
    /\ Cardinality({r \in Requests : request'[r].pc \in {"resend", "challenge"}}) <= 1
    /\ UNCHANGED <<accountVars, oauthVars, sessionVars, adminVars, scenario>>

OAuthStep ==
    /\ scenario = "oauth"
    /\ OAuthLoginNext
    /\ UNCHANGED <<accountVars, otpVars, sessionVars, adminVars, scenario>>

\* One login, whose session ends the behaviour; one access token that ends while no
\* answer has been lost; one login or logout at a time.
SessionsStep ==
    /\ scenario = "sessions"
    /\ GatewaySessionsNext
    /\ Cardinality({n \in WebTokens : loginOf'[n] = n}) <= 1
    /\ issued > 0 => current[1] # 0
    /\ Cardinality(dead') <= 1 /\ (unsettled' # {} => dead' = {})
    /\ Cardinality({r \in WebRequests : web'[r].kind \in {"login", "logout"}}) <= 1
    /\ UNCHANGED <<accountVars, otpVars, oauthVars, adminVars, scenario>>

\* At most one request is something other than the deletion of a user.
AdminStep ==
    /\ scenario = "admin"
    /\ AdminActionsNext
    /\ Cardinality({c \in Consoles : console'[c].op \notin {"none", "delete"}})
       + Cardinality({e \in Edits : edit'[e] # NoEdit}) <= 1
    /\ UNCHANGED <<accountVars, otpVars, oauthVars, sessionVars, scenario>>

Next == AccountsStep \/ CodesStep \/ OAuthStep \/ SessionsStep \/ AdminStep
Spec == Init /\ [][Next]_authVars
=============================================================================
