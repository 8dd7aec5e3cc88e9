-------------------------- MODULE GatewaySessions ---------------------------
(***************************************************************************)
(* The browser sessions of the gateway.  A session is two cookies, an      *)
(* access token and a refresh token.  The browser sends several requests   *)
(* at a time, each with the cookies it has when it sends it; the gateway   *)
(* lets those that come with the same refresh token share one refresh      *)
(* (singleflight, per gateway instance), and the answers reach the browser *)
(* in any order, or not at all.                                            *)
(*                                                                         *)
(* The auth service appears as its answers: a token family (module         *)
(* TokenFamilies) per login, whose current token alone can be rotated.  A  *)
(* token is a number, given to the access and the refresh token that are   *)
(* issued together.                                                        *)
(***************************************************************************)
EXTENDS Naturals, FiniteSets

CONSTANTS
    Gateways,        \* gateway instances
    WebRequests,     \* requests of the browser in progress
    MaxTokens        \* bound: tokens issued

ASSUME GatewaySessionsAssumption == MaxTokens \in Nat \ {0} /\ "none" \notin Gateways

WebTokens == 1 .. MaxTokens

VARIABLES
    cookie,          \* the browser's cookies; 0 when a cookie is not set
    web,             \* the requests: the cookies they came with, what they wait for, the answer
    issued,          \* tokens issued so far
    loginOf,         \* the family of each token: the token of its login
    current,         \* refresh:family: the current token of each family, 0 when revoked
    dead,            \* access tokens that expired or were revoked
    flight,          \* refreshSingle: the refreshes running, with their result
    rotatedAt,       \* history: the instance that had each token rotated
    unsettled,       \* history: families that lost an answer, or got one after a newer one
    replays,         \* history: refreshes that were taken for replays
    logouts          \* history: families whose logout reached the auth service

sessionVars == <<cookie, web, issued, loginOf, current, dead, flight, rotatedAt,
                 unsettled, replays, logouts>>

NoCookie == [access |-> 0, refresh |-> 0]
IdleWeb == [pc |-> "idle", kind |-> "none", gateway |-> "none", access |-> 0, refresh |-> 0,
            set |-> "keep", new |-> 0]
Kinds == {"login", "api", "refresh", "logout"}

GatewaySessionsTypeOK ==
    /\ cookie \in [access: 0 .. MaxTokens, refresh: 0 .. MaxTokens]
    /\ \A r \in WebRequests :
        /\ web[r].pc \in {"idle", "arrived", "refresh", "flight", "answer"}
        /\ web[r].set \in {"keep", "set", "clearAccess", "clear"}
        /\ web[r].access <= issued /\ web[r].refresh <= issued /\ web[r].new <= issued
    /\ issued \in 0 .. MaxTokens
    /\ \A n \in WebTokens : loginOf[n] # 0 <=> n <= issued
    /\ \A n \in WebTokens : current[n] # 0 => loginOf[current[n]] = n
    /\ dead \subseteq 1 .. issued /\ logouts \subseteq 1 .. issued
    /\ \A f, g \in flight : f.gateway = g.gateway /\ f.token = g.token => f = g

-----------------------------------------------------------------------------
(* The auth service *)

\* A new family, or a new token in family f.
Issue(f) ==
    LET n == issued + 1
    IN  /\ n <= MaxTokens
        /\ issued' = n
        /\ loginOf' = [loginOf EXCEPT ![n] = IF f = 0 THEN n ELSE f]
        /\ current' = [current EXCEPT ![IF f = 0 THEN n ELSE f] = n]

IssueNothing == UNCHANGED <<issued, loginOf, current>>
Revoke(n) == current' = [current EXCEPT ![loginOf[n]] = 0] /\ UNCHANGED <<issued, loginOf>>
AcceptsAccess(n) == n # 0 /\ n \notin dead

-----------------------------------------------------------------------------
(* The browser *)

\* A request goes out with the cookies of the moment, to any instance.
Send(r, kind) ==
    /\ web[r].pc = "idle"
    /\ \E g \in Gateways :
        web' = [web EXCEPT ![r] = [IdleWeb EXCEPT !.pc = "arrived", !.kind = kind, !.gateway = g,
                                                  !.access = cookie.access, !.refresh = cookie.refresh]]
    /\ UNCHANGED <<cookie, issued, loginOf, current, dead, flight, rotatedAt, unsettled, replays, logouts>>

\* As it would be if a refresh cookie were kept once it is set.
RefreshKept(r) ==
    CASE web[r].set = "keep"        -> cookie
      [] web[r].set = "set"         -> [access |-> web[r].new,
                                        refresh |-> IF cookie.refresh = 0 THEN web[r].new ELSE cookie.refresh]
      [] web[r].set = "clearAccess" -> [cookie EXCEPT !.access = 0]
      [] web[r].set = "clear"       -> NoCookie

\* What Set-Cookie headers of an answer do to the cookies.
Applied(r) ==
    CASE web[r].set = "keep"        -> cookie
      [] web[r].set = "set"         -> [access |-> web[r].new, refresh |-> web[r].new]
      [] web[r].set = "clearAccess" -> [cookie EXCEPT !.access = 0]
      [] web[r].set = "clear"       -> NoCookie

\* An answer that comes when the token it carries was rotated already, for a request that
\* got the same token sooner, disturbs the session.
ReceiveAnswer(r) ==
    /\ web[r].pc = "answer"
    /\ cookie' = Applied(r)
    /\ unsettled' = IF web[r].set = "set" /\ web[r].new # current[loginOf[web[r].new]]
                    THEN unsettled \cup {loginOf[web[r].new]} ELSE unsettled
    /\ web' = [web EXCEPT ![r] = IdleWeb]
    /\ UNCHANGED <<issued, loginOf, current, dead, flight, rotatedAt, replays, logouts>>

\* A connection breaks, or the page that asked is closed.
LoseAnswer(r) ==
    /\ web[r].pc = "answer"
    /\ unsettled' = IF web[r].set = "set" THEN unsettled \cup {loginOf[web[r].new]} ELSE unsettled
    /\ web' = [web EXCEPT ![r] = IdleWeb]
    /\ UNCHANGED <<cookie, issued, loginOf, current, dead, flight, rotatedAt, replays, logouts>>

\* The access cookie has a lifetime of its own (accessCookieCfg.MaxAge), far shorter than
\* that of the refresh cookie.
AccessCookieExpires ==
    /\ cookie.access # 0
    /\ cookie' = [cookie EXCEPT !.access = 0]
    /\ UNCHANGED <<web, issued, loginOf, current, dead, flight, rotatedAt, unsettled, replays, logouts>>

\* All access tokens live equally long: the oldest expires first.
AccessTokenExpires ==
    /\ \E n \in (1 .. issued) \ dead :
        (\A m \in (1 .. issued) \ dead : n <= m) /\ dead' = dead \cup {n}
    /\ UNCHANGED <<cookie, web, issued, loginOf, current, flight, rotatedAt, unsettled, replays, logouts>>

-----------------------------------------------------------------------------
(* The gateway *)

Answered(set, new) == [IdleWeb EXCEPT !.pc = "answer", !.set = set, !.new = new]
Reply(r, set, new) == web' = [web EXCEPT ![r] = Answered(set, new)]
GoRefresh(r) == web' = [web EXCEPT ![r].pc = "refresh", ![r].access = 0]
Arrived(r, kind) == web[r].pc = "arrived" /\ web[r].kind = kind

\* Password, code, sign-up and OAuth logins end alike: a new pair of tokens in both cookies.
GatewayLogin(r) ==
    /\ Arrived(r, "login")
    /\ Issue(0)
    /\ Reply(r, "set", issued + 1)
    /\ UNCHANGED <<cookie, dead, flight, rotatedAt, unsettled, replays, logouts>>

\* An error of the auth service, at any point before it changed anything: the cookies stay.
AuthServiceFails(r) ==
    /\ web[r].pc = "arrived" /\ web[r].kind \in {"login", "api"}
    /\ Reply(r, "keep", 0)
    /\ UNCHANGED <<cookie, issued, loginOf, current, dead, flight, rotatedAt, unsettled, replays, logouts>>

\* resolveSession: the access token if it is accepted, else a refresh.
resolveSession(r) ==
    /\ Arrived(r, "api")
    /\ IF AcceptsAccess(web[r].access) THEN Reply(r, "keep", 0)
       ELSE GoRefresh(r)
    /\ UNCHANGED <<cookie, issued, loginOf, current, dead, flight, rotatedAt, unsettled, replays, logouts>>

GatewayRefresh(r) ==
    /\ Arrived(r, "refresh")
    /\ GoRefresh(r)
    /\ UNCHANGED <<cookie, issued, loginOf, current, dead, flight, rotatedAt, unsettled, replays, logouts>>

\* An unauthorized refresh clears the access cookie of an authenticated request, and both
\* cookies of a refresh request.
Unauthorized(r) == IF web[r].kind = "refresh" THEN "clear" ELSE "clearAccess"

FlightsOf(r) == {f \in flight : f.gateway = web[r].gateway /\ f.token = web[r].refresh}

\* refreshSingle.Do: the first request with a token starts its refresh; one that comes
\* while it runs waits for its result.
NewFlight(r) == [gateway |-> web[r].gateway, token |-> web[r].refresh, state |-> "running",
                 new |-> 0, again |-> FlightsOf(r) = {} /\ rotatedAt[web[r].refresh] = web[r].gateway]

\* As it would be without singleflight: each request has a refresh of its own.
DoAlone(r) == flight' = (flight \ FlightsOf(r)) \cup {NewFlight(r)}
DoOnce(r) == flight' = IF FlightsOf(r) = {} THEN flight \cup {NewFlight(r)} ELSE flight

refreshViaCookie(r) ==
    /\ web[r].pc = "refresh"
    /\ \/ web[r].refresh = 0 /\ Reply(r, Unauthorized(r), 0) /\ UNCHANGED flight
       \/ web[r].refresh # 0 /\ DoOnce(r) /\ web' = [web EXCEPT ![r].pc = "flight"]
    /\ UNCHANGED <<cookie, issued, loginOf, current, dead, rotatedAt, unsettled, replays, logouts>>

\* As it would be if the store did not compare the token with the current one.
RotateAnyToken(f) ==
    LET fam == loginOf[f.token]
    IN  /\ f \in flight /\ f.state = "running"
        /\ current[fam] # 0 /\ Issue(fam)
        /\ flight' = (flight \ {f}) \cup {[f EXCEPT !.state = "done", !.new = issued + 1]}
        /\ rotatedAt' = [rotatedAt EXCEPT ![f.token] = f.gateway]
        /\ UNCHANGED <<cookie, web, dead, unsettled, replays, logouts>>

\* The auth service rotates the token: the current token of a family gives a new one, any
\* other token of the family revokes it.  The user may then fail to load: a disabled user
\* loses the family, an error leaves the new token unused.
AuthRefresh(f) ==
    LET fam == loginOf[f.token]
        End(state, new) == flight' = (flight \ {f}) \cup {[f EXCEPT !.state = state, !.new = new]}
    IN  /\ f \in flight /\ f.state = "running"
        /\ \/ /\ current[fam] = f.token /\ Issue(fam)
              /\ End("done", issued + 1) /\ UNCHANGED <<unsettled, replays>>
           \/ /\ current[fam] = f.token /\ Issue(fam)
              /\ End("error", 0) /\ unsettled' = unsettled \cup {fam} /\ UNCHANGED replays
           \/ /\ current[fam] = f.token /\ Revoke(f.token)
              /\ End("unauthorized", 0) /\ UNCHANGED <<unsettled, replays>>
           \/ /\ current[fam] \notin {0, f.token} /\ Revoke(f.token) /\ End("unauthorized", 0)
              /\ replays' = replays \cup {[again |-> f.again, elsewhere |-> rotatedAt[f.token] # f.gateway]}
              /\ UNCHANGED unsettled
           \/ current[fam] = 0 /\ IssueNothing /\ End("unauthorized", 0) /\ UNCHANGED <<unsettled, replays>>
           \/ IssueNothing /\ End("error", 0) /\ UNCHANGED <<unsettled, replays>>
        /\ rotatedAt' = IF issued' # issued THEN [rotatedAt EXCEPT ![f.token] = f.gateway] ELSE rotatedAt
        /\ UNCHANGED <<cookie, web, dead, logouts>>

\* Every request of the flight gets its result; the next one with the token starts anew.
EndFlight(f) ==
    LET waiting == {r \in WebRequests : /\ web[r].pc = "flight" /\ web[r].gateway = f.gateway
                                        /\ web[r].refresh = f.token}
        Result(r) == CASE f.state = "done"         -> Answered("set", f.new)
                       [] f.state = "unauthorized" -> Answered(Unauthorized(r), 0)
                       [] f.state = "error"        -> Answered("keep", 0)
    IN  /\ f \in flight /\ f.state # "running"
        /\ flight' = flight \ {f}
        /\ web' = [r \in WebRequests |-> IF r \in waiting THEN Result(r) ELSE web[r]]
        /\ UNCHANGED <<cookie, issued, loginOf, current, dead, rotatedAt, unsettled, replays, logouts>>

\* The auth service wants an access token with a logout, expired or not, and refuses one
\* without; then it revokes the access token and the family.  The cookies go in any case.
GatewayLogout(r) ==
    LET a == web[r].access
        n == web[r].refresh
    IN  /\ Arrived(r, "logout")
        /\ Reply(r, "clear", 0)
        /\ dead' = IF a # 0 THEN dead \cup {a} ELSE dead
        /\ IF a # 0 /\ n # 0 THEN Revoke(n) ELSE IssueNothing
        /\ logouts' = IF n # 0 THEN logouts \cup {loginOf[n]} ELSE logouts
        /\ UNCHANGED <<cookie, flight, rotatedAt, unsettled, replays>>

\* The call fails on the way, or the store fails after the access token is revoked.
LogoutFails(r) ==
    /\ Arrived(r, "logout") /\ web[r].access # 0
    /\ Reply(r, "clear", 0)
    /\ dead' \in {dead, dead \cup {web[r].access}}
    /\ UNCHANGED <<cookie, issued, loginOf, current, flight, rotatedAt, unsettled, replays, logouts>>

-----------------------------------------------------------------------------
GatewaySessionsInit ==
    /\ cookie = NoCookie
    /\ web = [r \in WebRequests |-> IdleWeb]
    /\ issued = 0 /\ dead = {} /\ flight = {} /\ unsettled = {}
    /\ replays = {} /\ logouts = {}
    /\ rotatedAt = [n \in WebTokens |-> "none"]
    /\ loginOf = [n \in WebTokens |-> 0]
    /\ current = [n \in WebTokens |-> 0]

GatewaySessionsNext ==
    \/ \E r \in WebRequests :
        \/ \E kind \in Kinds : Send(r, kind)
        \/ ReceiveAnswer(r) \/ LoseAnswer(r)
        \/ GatewayLogin(r) \/ AuthServiceFails(r) \/ resolveSession(r) \/ GatewayRefresh(r)
        \/ refreshViaCookie(r) \/ GatewayLogout(r) \/ LogoutFails(r)
    \/ \E f \in flight : AuthRefresh(f) \/ EndFlight(f)
    \/ AccessCookieExpires \/ AccessTokenExpires

GatewaySessionsSpec == GatewaySessionsInit /\ [][GatewaySessionsNext]_sessionVars

-----------------------------------------------------------------------------
(* What the gateway promises *)

\* Requests that overlap do not log the user out: a family is revoked for a replay only if
\* the replayed token's refresh had ended before this one began, so that the request came
\* late with an old cookie, or it was rotated at another instance.
OverlapIsNoReplay == \A p \in replays : p.again \/ p.elsewhere

\* The browser can go on: as long as its session lives, its refresh cookie is the current
\* token of the session, or an answer that carries the current token is under way, unless
\* an answer was lost, a refresh failed after the rotation, or an answer came after a newer one.
CookieIsCurrent ==
    LET n == cookie.refresh
        c == current[loginOf[n]]
    IN  n # 0 /\ c # 0 /\ c # n /\ loginOf[n] \notin unsettled =>
            \/ \E r \in WebRequests : web[r].pc = "answer" /\ web[r].set = "set" /\ web[r].new = c
            \/ \E f \in flight : f.new = c

TokenStore == INSTANCE TokenFamilies
                WITH Tokens <- WebTokens, Families <- WebTokens, Users <- {"user"},
                     NoToken <- 0, NoUser <- "nobody",
                     owner <- [n \in WebTokens |-> IF loginOf[n] = n THEN "user" ELSE "nobody"],
                     current <- current,
                     issued <- 1 .. issued,
                     redeemed <- {n \in WebTokens : rotatedAt[n] # "none"}

\* What the gateway sees of the auth service is what its token store promises
\* (RefreshTokens implements the same specification): overlapping refreshes of two
\* instances redeem no token twice, and a revoked session never comes back.
SessionsAreFamilies == TokenStore!Spec

\* api/rest/openapi.yaml, POST /api/auth/logout: "Revoke current session and clear HttpOnly
\* auth cookies."  A logout that the gateway could pass on to the auth service ends the
\* session of its cookies.
LogoutRevokes == \A f \in logouts : current[f] = 0
=============================================================================
