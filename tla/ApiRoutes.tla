------------------------------ MODULE ApiRoutes -----------------------------
(***************************************************************************)
(* The way of an API request through the gateway: its mux and handlers,    *)
(* the calls its clients make of it, and the mux and handlers of the auth, *)
(* book and chat services that receive them.                               *)
(*                                                                         *)
(* A path is the tuple of its segments, without "api"; "id" stands for any *)
(* identifier.  A handler is the reply it gives: the calls it makes when   *)
(* each succeeds, and the status it refuses the request with.  Bodies,     *)
(* queries and limits are left out, except the idempotency key.  A cookie  *)
(* that a request has is valid: GatewaySessions has those that are not.    *)
(***************************************************************************)
EXTENDS Naturals, Sequences

CONSTANTS
    ApiPaths,        \* the paths that requests may have
    ApiMethods       \* the methods they may have

VARIABLES
    api,             \* the request
    reply,           \* what the gateway makes of it
    landed           \* the operations its calls ended in, in order

apiVars == <<api, reply, landed>>

Sessions == {"none", "user", "admin"}
ApiRequests ==
    {q \in [method: ApiMethods, path: ApiPaths, session: Sessions, access: BOOLEAN, refresh: BOOLEAN, key: BOOLEAN] :
        q.session = "none" <=> ~ q.access /\ ~ q.refresh}

Refused(status) == [status |-> status, calls |-> <<>>]
Forward(calls) == [status |-> 200, calls |-> calls]
Only(m, method, calls) == IF m = method THEN Forward(calls) ELSE Refused(405)

-----------------------------------------------------------------------------
(* The clients of the gateway *)

CallTo(service, method, path, token, key) ==
    [service |-> service, method |-> method, path |-> path, token |-> token, key |-> key]

AuthPublicClient ==
    LET Post(path) == CallTo("auth", "POST", path, FALSE, FALSE)
    IN  [SignUpComplete        |-> Post(<<"signup", "complete">>),
         Login                 |-> Post(<<"login">>),
         LoginMethods          |-> Post(<<"login", "methods">>),
         OAuthComplete         |-> Post(<<"oauth", "complete">>),
         VerificationSend      |-> Post(<<"verification", "send">>),
         VerificationVerify    |-> Post(<<"verification", "verify">>),
         PasswordResetVerify   |-> Post(<<"password", "reset", "verify">>),
         PasswordResetComplete |-> Post(<<"password", "reset", "complete">>),
         Refresh               |-> Post(<<"refresh">>)]

AuthUserClient ==
    LET With(method, path) == CallTo("auth", method, path, TRUE, FALSE)
    IN  [Me             |-> With("GET", <<"me">>),
         UpdateMe       |-> With("PATCH", <<"me">>),
         UploadAvatar   |-> With("POST", <<"me", "avatar">>),
         UserAvatar     |-> With("GET", <<"users", "id", "avatar">>),
         ChangePassword |-> With("POST", <<"me", "password">>),
         JWKS           |-> CallTo("auth", "GET", <<"jwks">>, FALSE, FALSE)]

\* Without an access cookie the gateway has no token to send (doBody).
Logout(token) == CallTo("auth", "POST", <<"logout">>, token, FALSE)

AuthAdminClient ==
    LET With(method, path) == CallTo("auth", method, path, TRUE, FALSE)
    IN  [ListUsers      |-> With("GET", <<"admin", "users">>),
         GetUser        |-> With("GET", <<"admin", "users", "id">>),
         UpdateUser     |-> With("PATCH", <<"admin", "users", "id">>),
         DeleteUser     |-> With("DELETE", <<"admin", "users", "id">>),
         DisableUser    |-> With("POST", <<"admin", "users", "id", "disable">>),
         EnableUser     |-> With("POST", <<"admin", "users", "id", "enable">>),
         CreateAuditLog |-> With("POST", <<"admin", "audit-logs">>),
         ListAuditLogs  |-> With("GET", <<"admin", "audit-logs">>),
         Overview       |-> With("GET", <<"admin", "overview">>)]

AuthEvalClient(key) ==
    LET With(method, path) == CallTo("auth", method, path, TRUE, FALSE)
    IN  [Overview      |-> With("GET", <<"admin", "evals", "overview">>),
         ListDatasets  |-> With("GET", <<"admin", "evals", "datasets">>),
         CreateDataset |-> With("POST", <<"admin", "evals", "datasets">>),
         GetDataset    |-> With("GET", <<"admin", "evals", "datasets", "id">>),
         UpdateDataset |-> With("PATCH", <<"admin", "evals", "datasets", "id">>),
         DeleteDataset |-> With("DELETE", <<"admin", "evals", "datasets", "id">>),
         ListRuns      |-> With("GET", <<"admin", "evals", "runs">>),
         CreateRun     |-> CallTo("auth", "POST", <<"admin", "evals", "runs">>, TRUE, key),
         GetRun        |-> With("GET", <<"admin", "evals", "runs", "id">>),
         CancelRun     |-> With("POST", <<"admin", "evals", "runs", "id", "cancel">>),
         PerQuery      |-> With("GET", <<"admin", "evals", "runs", "id", "per-query">>),
         Artifact      |-> With("GET", <<"admin", "evals", "runs", "id", "artifacts", "id">>)]

BookClient(key) ==
    LET With(method, path) == CallTo("book", method, path, TRUE, FALSE)
    IN  [UploadBook      |-> CallTo("book", "POST", <<"books">>, TRUE, key),
         ListBooks       |-> With("GET", <<"books">>),
         UpdateBook      |-> With("PATCH", <<"books", "id">>),
         GetBook         |-> With("GET", <<"books", "id">>),
         DeleteBook      |-> With("DELETE", <<"books", "id">>),
         ReprocessBook   |-> CallTo("book", "POST", <<"books", "id", "reprocess">>, TRUE, key),
         IndexStatus     |-> With("GET", <<"books", "id", "index-status">>),
         RepairBookIndex |-> CallTo("book", "POST", <<"books", "id", "repair-index">>, TRUE, key),
         GetDownloadURL  |-> With("GET", <<"books", "id", "download">>)]

ChatClient(key) ==
    LET With(method, path) == CallTo("chat", method, path, TRUE, FALSE)
    IN  [AskQuestion        |-> CallTo("chat", "POST", <<"chats">>, TRUE, key),
         ListConversations  |-> With("GET", <<"conversations">>),
         ListMessages       |-> With("GET", <<"conversations", "id", "messages">>),
         RenameConversation |-> With("PATCH", <<"conversations", "id">>),
         DeleteConversation |-> With("DELETE", <<"conversations", "id">>)]

-----------------------------------------------------------------------------
(* The handlers of the gateway; p is what follows the prefix of the route *)

GatewayAuth(q, p) ==
    LET C == AuthPublicClient
        m == q.method
    IN  CASE p \in {<<"signup">>, <<"signup", "complete">>} -> Only(m, "POST", <<C.SignUpComplete>>)
          [] p \in {<<"login">>, <<"login", "password">>}   -> Only(m, "POST", <<C.Login>>)
          [] p = <<"login", "methods">>                     -> Only(m, "POST", <<C.LoginMethods>>)
          [] p \in {<<"verification", "send">>, <<"otp", "send">>} -> Only(m, "POST", <<C.VerificationSend>>)
          [] p \in {<<"verification", "verify">>, <<"otp", "verify">>} -> Only(m, "POST", <<C.VerificationVerify>>)
          [] p = <<"password", "reset", "verify">>          -> Only(m, "POST", <<C.PasswordResetVerify>>)
          [] p = <<"password", "reset", "complete">>        -> Only(m, "POST", <<C.PasswordResetComplete>>)
          [] p = <<"refresh">> /\ m = "POST" /\ ~ q.refresh -> Refused(401)
          [] p = <<"refresh">> /\ (m = "POST" => q.refresh) -> Only(m, "POST", <<C.Refresh>>)
          [] p = <<"logout">> /\ q.session = "none"         -> Only(m, "POST", <<>>)
          [] p = <<"logout">> /\ q.session # "none"         -> Only(m, "POST", <<Logout(q.access)>>)
          [] p = <<"jwks">>                                 -> Only(m, "GET", <<AuthUserClient.JWKS>>)
          [] p = <<"oauth", "id", "start">>                 -> Only(m, "GET", <<>>)
          [] p = <<"oauth", "id", "callback">>              -> Only(m, "GET", <<C.OAuthComplete>>)
          [] OTHER                                          -> Refused(404)

GatewayUsers(m, p) ==
    LET C == AuthUserClient
    IN  CASE p = <<"me">> /\ m = "GET"      -> Forward(<<>>)
          [] p = <<"me">> /\ m # "GET"      -> Only(m, "PATCH", <<C.UpdateMe>>)
          [] p = <<"me", "avatar">>         -> Only(m, "POST", <<C.UploadAvatar>>)
          [] p = <<"me", "password">>       -> Only(m, "POST", <<C.ChangePassword>>)
          [] p = <<"id", "avatar">>         -> Only(m, "GET", <<C.UserAvatar>>)
          [] OTHER                          -> Refused(IF m = "GET" THEN 404 ELSE 405)

GatewayBooks(m, p, key) ==
    LET C == BookClient(key)
    IN  CASE p = <<>> /\ m = "POST"           -> IF key THEN Forward(<<C.UploadBook>>) ELSE Refused(400)
          [] p = <<>> /\ m # "POST"           -> Only(m, "GET", <<C.ListBooks>>)
          [] p = <<"id">> /\ m = "GET"        -> Forward(<<C.GetBook>>)
          [] p = <<"id">> /\ m = "DELETE"     -> Forward(<<C.DeleteBook>>)
          [] p = <<"id">> /\ m \notin {"GET", "DELETE"} -> Only(m, "PATCH", <<C.UpdateBook>>)
          [] p = <<"id", "download">>         -> Only(m, "GET", <<C.GetDownloadURL>>)
          [] p = <<"id", "content">>          -> IF m \in {"GET", "HEAD"} THEN Forward(<<C.GetDownloadURL>>)
                                                 ELSE Refused(405)
          [] OTHER                            -> Refused(404)

GatewayChats(m, p, key) == IF p = <<>> THEN Only(m, "POST", <<ChatClient(key).AskQuestion>>) ELSE Refused(404)

GatewayConversations(m, p) ==
    LET C == ChatClient(FALSE)
    IN  CASE p = <<>>                      -> Only(m, "GET", <<C.ListConversations>>)
          [] p = <<"id">> /\ m = "PATCH"   -> Forward(<<C.RenameConversation>>)
          [] p = <<"id">> /\ m # "PATCH"   -> Only(m, "DELETE", <<C.DeleteConversation>>)
          [] p = <<"id", "messages">>      -> Only(m, "GET", <<C.ListMessages>>)
          [] OTHER                         -> Refused(404)

\* Admin operations end with the audit log.
Logged(calls) == Append(calls, AuthAdminClient.CreateAuditLog)

GatewayAdminUsers(m, p) ==
    LET C == AuthAdminClient
        B == BookClient(FALSE)
    IN  CASE p = <<>>                     -> Only(m, "GET", <<C.ListUsers>>)
          [] p = <<"id">> /\ m = "GET"    -> Forward(<<C.GetUser>>)
          [] p = <<"id">> /\ m = "DELETE" -> Forward(Logged(<<C.GetUser, B.ListBooks, B.DeleteBook, C.DeleteUser>>))
          [] p = <<"id">> /\ m \notin {"GET", "DELETE"} -> Only(m, "PATCH", Logged(<<C.GetUser, C.UpdateUser>>))
          [] p = <<"id", "disable">>      -> Only(m, "POST", Logged(<<C.GetUser, C.DisableUser>>))
          [] p = <<"id", "enable">>       -> Only(m, "POST", Logged(<<C.GetUser, C.EnableUser>>))
          [] OTHER                        -> Refused(IF Len(p) > 2 THEN 404 ELSE 405)

GatewayAdminBooks(m, p, key) ==
    LET C == BookClient(key)
        \* The book is looked up before the key.
        Keyed(calls) == IF key THEN Forward(calls) ELSE [Refused(400) EXCEPT !.calls = <<C.GetBook>>]
    IN  CASE p = <<>>                                -> Only(m, "GET", <<C.ListBooks>>)
          [] p = <<"id">>                            -> Only(m, "DELETE", Logged(<<C.GetBook, C.DeleteBook>>))
          [] p = <<"id", "index-status">>            -> Only(m, "GET", <<C.IndexStatus>>)
          [] p = <<"id", "reprocess">> /\ m = "POST" -> Keyed(Logged(<<C.GetBook, C.ReprocessBook>>))
          [] p = <<"id", "repair-index">> /\ m = "POST" -> Keyed(Logged(<<C.GetBook, C.RepairBookIndex>>))
          [] OTHER                                   -> Refused(IF Len(p) > 2 THEN 404 ELSE 405)

GatewayEvals(m, p, key) ==
    LET C == AuthEvalClient(key)
    IN  CASE p = <<"overview">>                       -> Only(m, "GET", <<C.Overview>>)
          [] p = <<"datasets">> /\ m = "GET"          -> Forward(<<C.ListDatasets>>)
          [] p = <<"datasets">> /\ m # "GET"          -> Only(m, "POST", Logged(<<C.CreateDataset>>))
          [] p = <<"datasets", "id">> /\ m = "GET"    -> Forward(<<C.GetDataset>>)
          [] p = <<"datasets", "id">> /\ m = "DELETE" -> Forward(Logged(<<C.DeleteDataset>>))
          [] p = <<"datasets", "id">> /\ m \notin {"GET", "DELETE"} -> Only(m, "PATCH", Logged(<<C.UpdateDataset>>))
          [] p = <<"runs">> /\ m = "POST"             -> IF key THEN Forward(Logged(<<C.CreateRun>>)) ELSE Refused(400)
          [] p = <<"runs">> /\ m # "POST"             -> Only(m, "GET", <<C.ListRuns>>)
          [] p = <<"runs", "id">>                     -> Only(m, "GET", <<C.GetRun>>)
          [] p = <<"runs", "id", "cancel">>           -> Only(m, "POST", Logged(<<C.CancelRun>>))
          [] p = <<"runs", "id", "per-query">>        -> Only(m, "GET", <<C.PerQuery>>)
          [] p = <<"runs", "id", "artifacts", "id">>  -> Only(m, "GET", Logged(<<C.Artifact>>))
          [] OTHER                                    -> Refused(404)

GatewayAdmin(m, p, key) ==
    CASE p # <<>> /\ Head(p) = "users" -> GatewayAdminUsers(m, Tail(p))
      [] p # <<>> /\ Head(p) = "books" -> GatewayAdminBooks(m, Tail(p), key)
      [] p # <<>> /\ Head(p) = "evals" -> GatewayEvals(m, Tail(p), key)
      [] p = <<"audit-logs">>          -> Only(m, "GET", <<AuthAdminClient.ListAuditLogs>>)
      [] p = <<"overview">>            -> Only(m, "GET", <<AuthAdminClient.Overview>>)
      [] OTHER                         -> Refused(404)

\* authenticated and adminOnly: a session first, then the role, then the handler.
SessionCall(q) == IF q.access THEN AuthUserClient.Me ELSE AuthPublicClient.Refresh

authenticated(q, r) ==
    IF q.session = "none" THEN Refused(401)
    ELSE [r EXCEPT !.calls = <<SessionCall(q)>> \o @]

\* As it would be if the role were not checked.
AnyRole(q, r) == authenticated(q, r)

adminRoute(q, r) == authenticated(q, IF q.session = "user" THEN Refused(403) ELSE r)

GatewayRoutes(q) ==
    LET m == q.method
        p == q.path
        top == IF p = <<>> THEN "none" ELSE Head(p)
        rest == IF p = <<>> THEN <<>> ELSE Tail(p)
        user(r) == authenticated(q, r)
    IN  CASE top = "auth"          -> GatewayAuth(q, rest)
          [] top = "users"         -> IF rest = <<>> THEN Refused(404) ELSE user(GatewayUsers(m, rest))
          [] top = "books"         -> user(GatewayBooks(m, rest, q.key))
          [] top = "chats"         -> IF rest = <<>> THEN user(GatewayChats(m, rest, q.key)) ELSE Refused(404)
          [] top = "conversations" -> user(GatewayConversations(m, rest))
          [] top = "admin"         -> adminRoute(q, GatewayAdmin(m, rest, q.key))
          [] OTHER                 -> Refused(404)

-----------------------------------------------------------------------------
(* The services: the operation a call ends in, or why it is refused *)

\* The methods of a route and their operations.
Route(m, ops) == IF m \in DOMAIN ops THEN ops[m] ELSE "405"

AuthPublicRoutes(m, p) ==
    CASE p \in {<<"signup">>, <<"signup", "complete">>} -> Route(m, [POST |-> "signup"])
      [] p \in {<<"login">>, <<"login", "password">>}   -> Route(m, [POST |-> "login"])
      [] p = <<"login", "methods">>                     -> Route(m, [POST |-> "login methods"])
      [] p = <<"oauth", "complete">>                    -> Route(m, [POST |-> "oauth login"])
      [] p \in {<<"verification", "send">>, <<"otp", "send">>} -> Route(m, [POST |-> "send code"])
      [] p \in {<<"verification", "verify">>, <<"otp", "verify">>} -> Route(m, [POST |-> "verify code"])
      [] p = <<"password", "reset", "verify">>          -> Route(m, [POST |-> "verify reset code"])
      [] p = <<"password", "reset", "complete">>        -> Route(m, [POST |-> "reset password"])
      [] p = <<"refresh">>                              -> Route(m, [POST |-> "refresh"])
      [] p = <<"logout">>                               -> Route(m, [POST |-> "logout"])
      [] p = <<"jwks">>                                 -> Route(m, [GET |-> "keys"])
      [] OTHER                                          -> "404"

AuthUserRoutes(m, p) ==
    CASE p = <<"me">>                   -> Route(m, [GET |-> "me", PATCH |-> "update me"])
      [] p = <<"me", "avatar">>         -> Route(m, [POST |-> "upload avatar"])
      [] p = <<"me", "password">>       -> Route(m, [POST |-> "change password"])
      [] p = <<"users", "id", "avatar">> -> Route(m, [GET |-> "avatar"])
      [] OTHER                          -> "404"

AuthAdminRoutes(m, p) ==
    CASE p = <<"users">>                  -> Route(m, [GET |-> "list users"])
      [] p = <<"users", "id">>            -> Route(m, [GET |-> "get user", DELETE |-> "delete user", PATCH |-> "update user"])
      [] p = <<"users", "id", "disable">> -> Route(m, [POST |-> "disable user"])
      [] p = <<"users", "id", "enable">>  -> Route(m, [POST |-> "enable user"])
      [] p = <<"audit-logs">>             -> Route(m, [GET |-> "list audit log", POST |-> "write audit log"])
      [] p = <<"overview">>               -> Route(m, [GET |-> "overview"])
      [] OTHER                            -> "404"

AuthEvalRoutes(m, p) ==
    CASE p = <<"overview">>              -> Route(m, [GET |-> "eval overview"])
      [] p = <<"datasets">>              -> Route(m, [GET |-> "list datasets", POST |-> "create dataset"])
      [] p = <<"datasets", "id">>        -> Route(m, [GET |-> "get dataset", PATCH |-> "update dataset", DELETE |-> "delete dataset"])
      [] p = <<"runs">>                  -> Route(m, [GET |-> "list runs", POST |-> "create run"])
      [] p = <<"runs", "id">>            -> Route(m, [GET |-> "get run"])
      [] p = <<"runs", "id", "cancel">>  -> Route(m, [POST |-> "cancel run"])
      [] p = <<"runs", "id", "per-query">> -> Route(m, [GET |-> "per query"])
      [] p = <<"runs", "id", "artifacts", "id">> -> Route(m, [GET |-> "artifact"])
      [] OTHER                           -> "404"

BookRoutes(m, p) ==
    CASE p = <<"books">>                       -> Route(m, [POST |-> "upload book", GET |-> "list books"])
      [] p = <<"books", "id">>                 -> Route(m, [GET |-> "get book", DELETE |-> "delete book", PATCH |-> "update book"])
      [] p = <<"books", "id", "download">>     -> Route(m, [GET |-> "download url"])
      [] p = <<"books", "id", "reprocess">>    -> Route(m, [POST |-> "reprocess book"])
      [] p = <<"books", "id", "index-status">> -> Route(m, [GET |-> "index status"])
      [] p = <<"books", "id", "repair-index">> -> Route(m, [POST |-> "repair index"])
      [] OTHER                                 -> "404"

ChatRoutes(m, p) ==
    CASE p = <<"chats">>                          -> Route(m, [POST |-> "ask question"])
      [] p = <<"conversations">>                  -> Route(m, [GET |-> "list conversations"])
      [] p = <<"conversations", "id">>            -> Route(m, [PATCH |-> "rename conversation", DELETE |-> "delete conversation"])
      [] p = <<"conversations", "id", "messages">> -> Route(m, [GET |-> "list messages"])
      [] OTHER                                    -> "404"

\* withUser and adminOnly of the services, from the token the gateway passes on.
UserOnly(c, session, op) == IF c.token /\ session # "none" THEN op ELSE "401"
AdminOnly(c, session, op) == IF session = "user" THEN "403" ELSE UserOnly(c, session, op)

\* Operations that are done once per idempotency key; all but a question are refused without.
KeyedOperations == {"upload book", "reprocess book", "repair index", "ask question", "create run"}

ServiceRoutes(c, session) ==
    LET p == c.path
        admin == Head(p) = "admin"
        op == CASE c.service = "book" -> UserOnly(c, session, BookRoutes(c.method, p))
                [] c.service = "chat" -> UserOnly(c, session, ChatRoutes(c.method, p))
                [] c.service = "auth" /\ admin /\ p[2] = "evals"
                      -> AdminOnly(c, session, AuthEvalRoutes(c.method, Tail(Tail(p))))
                [] c.service = "auth" /\ admin /\ p[2] # "evals"
                      -> AdminOnly(c, session, AuthAdminRoutes(c.method, Tail(p)))
                [] c.service = "auth" /\ Head(p) \in {"me", "users"}
                      -> UserOnly(c, session, AuthUserRoutes(c.method, p))
                [] OTHER -> AuthPublicRoutes(c.method, p)
    IN  CASE op = "logout" /\ ~ c.token                              -> "401"
          [] c.service # "chat" /\ op \in KeyedOperations /\ ~ c.key -> "400"
          [] OTHER                                                     -> op

-----------------------------------------------------------------------------
ApiRoutesInit ==
    /\ api \in ApiRequests
    /\ reply = Refused(0)
    /\ landed = <<>>

HandleAtGateway ==
    /\ reply.status = 0
    /\ reply' = GatewayRoutes(api)
    /\ UNCHANGED <<api, landed>>

HandleAtService ==
    /\ reply.calls # <<>>
    /\ landed' = Append(landed, [call |-> Head(reply.calls), op |-> ServiceRoutes(Head(reply.calls), api.session)])
    /\ reply' = [reply EXCEPT !.calls = Tail(@)]
    /\ UNCHANGED api

ApiRoutesNext == HandleAtGateway \/ HandleAtService

ApiRoutesSpec == ApiRoutesInit /\ [][ApiRoutesNext]_apiVars

-----------------------------------------------------------------------------
(* What the gateway promises *)

\* No call of the gateway is refused by the route, the method, the role or the key it needs
\* at the service: a session that the gateway lets through is one the service lets through,
\* and each path a client builds is one a service has.  The one exception is a logout with
\* the refresh cookie alone, which the auth service refuses.  The audit log is written last.
RoutesAgree ==
    \A i \in DOMAIN landed :
        /\ landed[i].op \in {"400", "401", "403", "404", "405"} => landed[i].call = Logout(FALSE)
        /\ landed[i].op = "write audit log" => i = Len(landed) /\ reply.calls = <<>>

\* The idempotency key of a request reaches every operation that is done once per key.
KeyReachesService ==
    \A i \in DOMAIN landed : landed[i].op \in KeyedOperations => landed[i].call.key = api.key

\* The gateway and the services agree: what a client of the gateway calls lands, but for a
\* logout without an access token, in the order of the handler and with the key of the
\* request (gateway server.go and the clients).
CallsLand == RoutesAgree /\ KeyReachesService
=============================================================================
