---------------------------- MODULE AdminActions ----------------------------
(***************************************************************************)
(* Administration through the gateway: an admin's request becomes a series *)
(* of calls to the auth and book services, the last of which writes the    *)
(* audit log.  Each call is checked anew by the service it goes to, each   *)
(* may fail, and nothing takes back the calls before it.  A service checks *)
(* the caller and reads or changes a row in one step here (module Accounts *)
(* has them apart); a row that is saved whole is saved in a step of its    *)
(* own, beside the administrators and the users themselves.                *)
(***************************************************************************)
EXTENDS Naturals, FiniteSets

CONSTANTS
    Members,         \* users
    Admins,          \* those of them who are admins
    Titles,          \* books
    Consoles,        \* admin requests in progress
    Edits,           \* requests of users in progress: uploads and changes of a book's details
    MaxAdminFaults   \* bound: calls that fail

ASSUME AdminActionsAssumption ==
    Admins \subseteq Members /\ {"none", "deleted"} \cap Members = {} /\ MaxAdminFaults \in Nat

VARIABLES
    member,          \* user_models: active, disabled or gone
    owner,           \* book_models: the owner of each book, none before and deleted after its life
    console,         \* the admin requests
    edit,            \* the users' requests
    late,            \* history: books saved after the books of their owner were listed
    revived,         \* history: books deleted and, after that listing, brought back by a row read before
    faults           \* calls that failed

adminVars == <<member, owner, console, edit, late, revived, faults>>

IdleConsole == [pc |-> "idle", admin |-> "none", op |-> "none", target |-> "none",
                todo |-> {}, row |-> "none"]
NoEdit == [op |-> "none", user |-> "none", book |-> "none"]
UserOps == {"disable", "enable", "delete"}
BookOps == {"deleteBook", "reprocess", "repair"}
Absent == {"none", "deleted"}

AdminActionsTypeOK ==
    /\ member \in [Members -> {"active", "disabled", "gone"}]
    /\ owner \in [Titles -> Members \cup Absent]
    /\ \A c \in Consoles : /\ console[c].pc \in {"idle", "before", "list", "books", "call", "save", "audit"}
                           /\ console[c].todo \subseteq Titles /\ console[c].row \in Members \cup {"none"}
    /\ \A e \in Edits : edit[e] = NoEdit \/ edit[e] \in [op: {"upload", "update"}, user: Members, book: Titles]
    /\ late \subseteq Titles /\ revived \subseteq Titles
    /\ faults \in 0 .. MaxAdminFaults

ConsoleAt(c, pc) == console[c].pc = pc
ConsoleGo(c, pc) == console' = [console EXCEPT ![c].pc = pc]
ConsoleEnd(c) == console' = [console EXCEPT ![c] = IdleConsole]

\* What the book service keeps, and the users' requests it works on.
books == <<owner, edit, late, revived>>

\* The deletion of the user has listed the books already, or is done.
BooksListed(u) ==
    \/ member[u] = "gone"
    \/ \E c \in Consoles : console[c].op = "delete" /\ console[c].target = u /\ console[c].pc \in {"books", "call"}

\* SaveBook and SaveBookAndOutbox of a row read before: an upsert of every column, deleted_at
\* included, so that a book deleted meanwhile is back.
SaveRow(b, u) ==
    /\ owner' = [owner EXCEPT ![b] = u]
    /\ revived' = IF owner[b] = "deleted" /\ BooksListed(u) THEN revived \cup {b} ELSE revived

\* gatewayAdminOnly of the services: the caller's token resolves to an active admin.
Authorized(c) == member[console[c].admin] = "active"

-----------------------------------------------------------------------------
\* gatewayAdminOnly: the session of the request is an active admin's.
gatewayAdminOnly(c) ==
    \E a \in Admins, op \in UserOps \cup BookOps :
        \E x \in IF op \in UserOps THEN Members ELSE Titles :
            /\ ConsoleAt(c, "idle") /\ member[a] = "active"
            /\ console' = [console EXCEPT ![c] = [pc |-> "before", admin |-> a, op |-> op, target |-> x,
                                                  todo |-> {}, row |-> "none"]]
            /\ UNCHANGED <<member, books, faults>>

\* AdminGetUser and GetBook: the state before, for the log.  A book that is gone can still
\* be deleted, but not reprocessed or repaired.
ReadBefore(c) ==
    LET x == console[c].target
        there == IF console[c].op \in UserOps THEN member[x] # "gone"
                 ELSE console[c].op = "deleteBook" \/ owner[x] \notin Absent
    IN  /\ ConsoleAt(c, "before")
        /\ IF Authorized(c) /\ there
           THEN ConsoleGo(c, IF console[c].op = "delete" THEN "list" ELSE "call")
           ELSE ConsoleEnd(c)
        /\ UNCHANGED <<member, books, faults>>

\* The books of the user who is to be deleted.
BooksOf(c) == {b \in Titles : owner[b] = console[c].target}

\* As it would be if the owner were not passed on: the list is the caller's own.
BooksOfCaller(c) == {b \in Titles : owner[b] = console[c].admin}
ListBooks(c) == BooksOf(c)

ListUserBooks(c) ==
    /\ ConsoleAt(c, "list")
    /\ IF Authorized(c)
       THEN console' = [console EXCEPT ![c].pc = "books", ![c].todo = ListBooks(c)]
       ELSE ConsoleEnd(c)
    /\ UNCHANGED <<member, books, faults>>

\* One call per book.  A book another request deleted meanwhile is deleted again without
\* effect as long as its row is there; then it is an error that ends this request.
DeleteUserBook(c) ==
    /\ ConsoleAt(c, "books") /\ console[c].todo # {}
    /\ \E b \in console[c].todo :
        IF Authorized(c) /\ owner[b] \notin Absent
        THEN /\ owner' = [owner EXCEPT ![b] = "deleted"]
             /\ console' = [console EXCEPT ![c].todo = @ \ {b}]
        ELSE /\ \/ ConsoleEnd(c)
                \/ Authorized(c) /\ console' = [console EXCEPT ![c].todo = @ \ {b}]
             /\ UNCHANGED owner
    /\ UNCHANGED <<member, edit, late, revived, faults>>

UserBooksDeleted(c) ==
    /\ ConsoleAt(c, "books") /\ console[c].todo = {}
    /\ ConsoleGo(c, "call")
    /\ UNCHANGED <<member, books, faults>>

\* What the service makes of the call: an admin may not disable or delete the own account.
MemberAfter(op) == CASE op = "disable" -> "disabled" [] op = "enable" -> "active" [] op = "delete" -> "gone"
RefusesSelf(c) == console[c].target = console[c].admin /\ console[c].op \in {"disable", "delete"}

CallUserOp(c) ==
    LET x == console[c].target
    IN  /\ ConsoleAt(c, "call") /\ console[c].op \in UserOps
        /\ IF Authorized(c) /\ member[x] # "gone" /\ ~ RefusesSelf(c)
           THEN /\ member' = [member EXCEPT ![x] = MemberAfter(console[c].op)]
                /\ ConsoleGo(c, "audit")
           ELSE ConsoleEnd(c) /\ UNCHANGED member
        /\ UNCHANGED <<books, faults>>

\* DeleteBook marks the row; a book that is deleted stays so.
CallDeleteBook(c) ==
    LET b == console[c].target
    IN  /\ ConsoleAt(c, "call") /\ console[c].op = "deleteBook"
        /\ IF Authorized(c) /\ owner[b] \notin Absent
           THEN owner' = [owner EXCEPT ![b] = "deleted"] /\ ConsoleGo(c, "audit")
           ELSE /\ \/ ConsoleEnd(c)
                   \/ Authorized(c) /\ owner[b] = "deleted" /\ ConsoleGo(c, "audit")
                /\ UNCHANGED owner
        /\ UNCHANGED <<member, edit, late, revived, faults>>

\* ReprocessBook, also behind RepairBookIndex, reads the row; a book that is queued or
\* processing is left as it is, any other is saved whole later.
ReadForReprocess(c) ==
    LET b == console[c].target
    IN  /\ ConsoleAt(c, "call") /\ console[c].op \in {"reprocess", "repair"}
        /\ IF Authorized(c) /\ owner[b] \notin Absent
           THEN \/ ConsoleGo(c, "audit")
                \/ console' = [console EXCEPT ![c].pc = "save", ![c].row = owner[b]]
           ELSE ConsoleEnd(c)
        /\ UNCHANGED <<member, books, faults>>

SaveReprocessed(c) ==
    /\ ConsoleAt(c, "save")
    /\ SaveRow(console[c].target, console[c].row)
    /\ ConsoleGo(c, "audit")
    /\ UNCHANGED <<member, edit, late, faults>>

\* The last call; the auth service checks the admin once more.
writeAdminAuditLog(c) ==
    /\ ConsoleAt(c, "audit")
    /\ ConsoleEnd(c)
    /\ UNCHANGED <<member, books, faults>>

\* A call that fails ends the request; one that only lost its answer is the call before
\* the one that fails here.
CallFails(c) ==
    /\ ~ ConsoleAt(c, "idle") /\ faults < MaxAdminFaults
    /\ faults' = faults + 1
    /\ ConsoleEnd(c)
    /\ UNCHANGED <<member, books>>

\* A user uploads a book or changes its details: he is checked and the row is read; the
\* book is saved after further calls, the upload of the file among them.
UploadBook(e) ==
    \E u \in Members, b \in Titles :
        /\ edit[e] = NoEdit /\ member[u] = "active"
        /\ owner[b] = "none" /\ \A d \in Edits : edit[d].book # b
        /\ edit' = [edit EXCEPT ![e] = [op |-> "upload", user |-> u, book |-> b]]
        /\ UNCHANGED <<member, owner, console, late, revived, faults>>

UpdateBook(e) ==
    \E u \in Members, b \in Titles :
        /\ edit[e] = NoEdit /\ member[u] = "active" /\ owner[b] = u
        /\ edit' = [edit EXCEPT ![e] = [op |-> "update", user |-> u, book |-> b]]
        /\ UNCHANGED <<member, owner, console, late, revived, faults>>

SaveEdit(e) ==
    LET u == edit[e].user  b == edit[e].book
    IN  /\ edit[e] # NoEdit
        /\ SaveRow(b, u)
        /\ late' = IF edit[e].op = "upload" /\ BooksListed(u) THEN late \cup {b} ELSE late
        /\ edit' = [edit EXCEPT ![e] = NoEdit]
        /\ UNCHANGED <<member, console, faults>>

EditFails(e) ==
    /\ edit[e] # NoEdit
    /\ edit' = [edit EXCEPT ![e] = NoEdit]
    /\ UNCHANGED <<member, owner, console, late, revived, faults>>

-----------------------------------------------------------------------------
AdminActionsInit ==
    /\ member = [u \in Members |-> "active"]
    /\ owner = [b \in Titles |-> "none"]
    /\ console = [c \in Consoles |-> IdleConsole]
    /\ edit = [e \in Edits |-> NoEdit]
    /\ late = {} /\ revived = {} /\ faults = 0

AdminActionsNext ==
    \/ \E c \in Consoles :
        \/ gatewayAdminOnly(c) \/ ReadBefore(c) \/ ListUserBooks(c) \/ DeleteUserBook(c)
        \/ UserBooksDeleted(c) \/ CallUserOp(c)
        \/ CallDeleteBook(c) \/ ReadForReprocess(c) \/ SaveReprocessed(c)
        \/ writeAdminAuditLog(c) \/ CallFails(c)
    \/ \E e \in Edits : UploadBook(e) \/ UpdateBook(e) \/ SaveEdit(e) \/ EditFails(e)

AdminActionsSpec == AdminActionsInit /\ [][AdminActionsNext]_adminVars

-----------------------------------------------------------------------------
(* What administration promises *)

\* A user who is gone owns no book, whatever administrators and the user did meanwhile.
\* Excepted are the book whose upload began while the user was active and was saved after
\* his books were listed, and the deleted book that was brought back after that by a whole
\* row, read before by a change of its details or a reprocess.
DeletedUserOwnsNothing ==
    \A b \in Titles : owner[b] \notin Absent /\ member[owner[b]] = "gone" => b \in late \cup revived
=============================================================================
