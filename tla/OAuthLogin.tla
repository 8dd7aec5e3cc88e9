----------------------------- MODULE OAuthLogin -----------------------------
(***************************************************************************)
(* Login through Google or Microsoft.  The start of a login saves a state  *)
(* in Redis: the provider, a nonce and a PKCE verifier, all random.  The   *)
(* provider sends the browser back with the state and a code.  The         *)
(* callback takes the state out of Redis, has the provider exchange the    *)
(* code for an ID token and completes the login at the auth service.       *)
(*                                                                         *)
(* Random values are told apart by the state they were made with.  The     *)
(* browser may come back twice, late, to the callback of the other         *)
(* provider, or with the code of another login.  The provider is outside   *)
(* the program: a code stands for the login it was asked for and for the   *)
(* account the user chose there.                                           *)
(***************************************************************************)
EXTENDS Naturals, FiniteSets

CONSTANTS
    Providers,       \* oauthConfig.providers
    OAuthStates,     \* states, each used for one start
    OAuthSubjects,   \* accounts at the providers
    Callbacks        \* callbacks in progress

ASSUME OAuthLoginAssumption == "none" \notin Providers

VARIABLES
    saved,           \* Redis: the states kept, with their provider
    started,         \* the provider each state was made for; none before its start
    codes,           \* codes the providers gave out
    callback,        \* the callbacks
    logins           \* history: the logins completed

oauthVars == <<saved, started, codes, callback, logins>>

IdleCallback == [pc |-> "idle", provider |-> "none", state |-> "none", code |-> "none", subject |-> "none"]
Codes == [provider: Providers, state: OAuthStates, subject: OAuthSubjects]

OAuthLoginTypeOK ==
    /\ saved \subseteq {s \in OAuthStates : started[s] # "none"}
    /\ started \in [OAuthStates -> Providers \cup {"none"}]
    /\ codes \subseteq Codes
    /\ \A c \in Callbacks : callback[c].pc \in {"idle", "consume", "exchange", "verify", "complete"}
    /\ \A l \in logins : l.times \in Nat

CallbackAt(c, pc) == callback[c].pc = pc
CallbackGo(c, pc) == callback' = [callback EXCEPT ![c].pc = pc]
redirectOAuthFailure(c) == callback' = [callback EXCEPT ![c] = IdleCallback]

-----------------------------------------------------------------------------
\* A fresh state is saved and the browser is sent to the provider, where the user picks
\* an account: the code is bound to the login that asked for it.
handleOAuthStart ==
    \E s \in OAuthStates, p \in Providers :
        /\ started[s] = "none"
        /\ started' = [started EXCEPT ![s] = p]
        /\ saved' = saved \cup {s}
        /\ UNCHANGED <<codes, callback, logins>>

GrantCode ==
    \E s \in OAuthStates, x \in OAuthSubjects :
        /\ started[s] # "none"
        /\ \A q \in codes : q.state # s
        /\ codes' = codes \cup {[provider |-> started[s], state |-> s, subject |-> x]}
        /\ UNCHANGED <<saved, started, callback, logins>>

StateExpires ==
    /\ \E s \in saved : saved' = saved \ {s}
    /\ UNCHANGED <<started, codes, callback, logins>>

\* Any state and any code may come to the callback of any provider.
handleOAuthCallback(c) ==
    \E p \in Providers, s \in OAuthStates, q \in codes :
        /\ CallbackAt(c, "idle")
        /\ callback' = [callback EXCEPT ![c] = [pc |-> "consume", provider |-> p, state |-> s,
                                                code |-> q, subject |-> "none"]]
        /\ UNCHANGED <<saved, started, codes, logins>>

\* As it would be with a GET that leaves the state where it is.
PeekState(c) ==
    /\ CallbackAt(c, "consume")
    /\ IF callback[c].state \in saved /\ started[callback[c].state] = callback[c].provider
       THEN CallbackGo(c, "exchange") ELSE redirectOAuthFailure(c)
    /\ UNCHANGED <<saved, started, codes, logins>>

\* GETDEL: a state is taken once, and it must be one of the callback's provider.
Consume(c) ==
    /\ CallbackAt(c, "consume")
    /\ saved' = saved \ {callback[c].state}
    /\ IF callback[c].state \in saved /\ started[callback[c].state] = callback[c].provider
       THEN CallbackGo(c, "exchange") ELSE redirectOAuthFailure(c)
    /\ UNCHANGED <<started, codes, logins>>

\* The provider exchanges a code for the verifier of the login it was asked for (PKCE):
\* only the code of this very state passes.  That a provider exchanges a code only once
\* is not relied on.
ExchangeCode(c) ==
    LET q == callback[c].code
    IN  /\ CallbackAt(c, "exchange")
        /\ IF q.provider = callback[c].provider /\ q.state = callback[c].state
           THEN CallbackGo(c, "verify") ELSE redirectOAuthFailure(c)
        /\ UNCHANGED <<saved, started, codes, logins>>

\* The ID token carries the nonce of the login the code was asked for.
VerifyIDToken(c) ==
    LET q == callback[c].code
    IN  /\ CallbackAt(c, "verify")
        /\ IF q.state = callback[c].state
           THEN callback' = [callback EXCEPT ![c].pc = "complete", ![c].subject = q.subject]
           ELSE redirectOAuthFailure(c)
        /\ UNCHANGED <<saved, started, codes, logins>>

\* The auth service finds or makes the account (module Accounts) and the cookies are set.
OAuthComplete(c) ==
    LET mine == {l \in logins : l.state = callback[c].state}
        times == IF mine = {} THEN 1 ELSE 1 + (CHOOSE l \in mine : TRUE).times
    IN  /\ CallbackAt(c, "complete")
        /\ logins' = (logins \ mine) \cup {[state |-> callback[c].state, provider |-> callback[c].provider,
                                            subject |-> callback[c].subject, times |-> times]}
        /\ redirectOAuthFailure(c)
        /\ UNCHANGED <<saved, started, codes>>

\* The provider refuses, a call fails, or the twelve seconds are over.
CallbackFails(c) ==
    /\ ~ CallbackAt(c, "idle")
    /\ redirectOAuthFailure(c)
    /\ UNCHANGED <<saved, started, codes, logins>>

-----------------------------------------------------------------------------
OAuthLoginInit ==
    /\ saved = {} /\ codes = {} /\ logins = {}
    /\ started = [s \in OAuthStates |-> "none"]
    /\ callback = [c \in Callbacks |-> IdleCallback]

OAuthLoginNext ==
    \/ handleOAuthStart \/ GrantCode \/ StateExpires
    \/ \E c \in Callbacks :
        \/ handleOAuthCallback(c) \/ Consume(c) \/ ExchangeCode(c) \/ VerifyIDToken(c)
        \/ OAuthComplete(c) \/ CallbackFails(c)

OAuthLoginSpec == OAuthLoginInit /\ [][OAuthLoginNext]_oauthVars

-----------------------------------------------------------------------------
(* What a login promises *)

\* A login that was started is completed at most once, at the provider it was started at
\* and for the account chosen there, whatever states and codes the browser mixes.
LoginMatchesStart ==
    \A l \in logins :
        /\ l.times = 1 /\ l.provider = started[l.state]
        /\ \E q \in codes : q.state = l.state /\ q.subject = l.subject /\ q.provider = l.provider
=============================================================================
