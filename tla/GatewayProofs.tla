---------------------------- MODULE GatewayProofs ----------------------------
(* Proofs about the gateway, for any number of requests, tokens, users and    *)
(* books: OAuth logins, administration, the sessions of the browser, the      *)
(* calls made for an API request and the rate limit.                          *)
EXTENDS OAuthLogin, AdminActions, GatewaySessions, ApiRoutes, RateLimiter,
    FiniteSetTheorems, SequenceTheorems, TLAPS

-----------------------------------------------------------------------------
(* OAuth logins *)

CallbackPcs == {"idle", "consume", "exchange", "verify", "complete"}
CallbackRecords ==
    [pc: CallbackPcs, provider: Providers \cup {"none"}, state: OAuthStates \cup {"none"},
     code: Codes \cup {"none"}, subject: OAuthSubjects \cup {"none"}]

\* A callback that took its state out of Redis and has not ended.
Holds(c) == callback[c].pc \in {"exchange", "verify", "complete"}

OAuthTypes ==
    /\ saved \subseteq OAuthStates
    /\ started \in [OAuthStates -> Providers \cup {"none"}]
    /\ codes \subseteq Codes
    /\ callback \in [Callbacks -> CallbackRecords]
    /\ \A c \in Callbacks : callback[c].pc # "idle" =>
        callback[c].state \in OAuthStates /\ callback[c].code \in codes

\* A state is in Redis, or in the hands of one callback, or completed: never two of these.
StateInOnePlace ==
    /\ \A s \in saved : started[s] # "none" /\ \A l \in logins : l.state # s
    /\ \A c \in Callbacks : Holds(c) =>
        /\ callback[c].state \notin saved
        /\ \A l \in logins : l.state # callback[c].state
        /\ \A d \in Callbacks : Holds(d) /\ callback[d].state = callback[c].state => d = c

\* What a callback that holds a state has checked so far.
ChecksSoFar ==
    \A c \in Callbacks :
        /\ Holds(c) => started[callback[c].state] = callback[c].provider /\ callback[c].provider \in Providers
        /\ callback[c].pc \in {"verify", "complete"} =>
            callback[c].code.provider = callback[c].provider /\ callback[c].code.state = callback[c].state
        /\ callback[c].pc = "complete" => callback[c].subject = callback[c].code.subject

OAuthInv ==
    /\ OAuthTypes /\ StateInOnePlace /\ ChecksSoFar /\ LoginMatchesStart
    /\ \A l \in logins : l.state \in OAuthStates /\ l.provider \in Providers

\* Each step of a login keeps OAuthInv.
LEMMA OAuthStep ==
    ASSUME OAuthInv, [OAuthLoginNext]_oauthVars
    PROVE  OAuthInv'
<1> USE OAuthLoginAssumption DEF OAuthInv, OAuthTypes, StateInOnePlace, ChecksSoFar, LoginMatchesStart, Holds,
                                 CallbackAt, CallbackRecords, CallbackPcs
<1>1. CASE handleOAuthStart
  BY <1>1 DEF handleOAuthStart
<1>2. CASE GrantCode
  BY <1>2 DEF GrantCode, Codes
<1>3. CASE StateExpires
  BY <1>3 DEF StateExpires
<1>4. ASSUME NEW c \in Callbacks, handleOAuthCallback(c) PROVE OAuthInv'
  BY <1>4 DEF handleOAuthCallback
<1>5. ASSUME NEW c \in Callbacks, Consume(c) PROVE OAuthInv'
  BY <1>5 DEF Consume, CallbackGo, redirectOAuthFailure, IdleCallback
<1>6. ASSUME NEW c \in Callbacks, ExchangeCode(c) PROVE OAuthInv'
  BY <1>6 DEF ExchangeCode, CallbackGo, redirectOAuthFailure, IdleCallback
<1>7. ASSUME NEW c \in Callbacks, VerifyIDToken(c) PROVE OAuthInv'
  BY <1>7 DEF VerifyIDToken, CallbackGo, redirectOAuthFailure, IdleCallback
<1>8. ASSUME NEW c \in Callbacks, OAuthComplete(c) PROVE OAuthInv'
  BY <1>8 DEF OAuthComplete, redirectOAuthFailure, IdleCallback
<1>9. ASSUME NEW c \in Callbacks, CallbackFails(c) PROVE OAuthInv'
  BY <1>9 DEF CallbackFails, redirectOAuthFailure, IdleCallback
<1>10. CASE UNCHANGED oauthVars
  BY <1>10 DEF oauthVars
<1> QED
  BY <1>1, <1>2, <1>3, <1>4, <1>5, <1>6, <1>7, <1>8, <1>9, <1>10 DEF OAuthLoginNext

\* A login that was started through a provider is completed at most once, there, and for
\* the account chosen there, for any number of states, callbacks and providers.
THEOREM LoginMatchesStartCorrect == OAuthLoginSpec => []LoginMatchesStart
<1>1. OAuthLoginInit => OAuthInv
  BY OAuthLoginAssumption
  DEF OAuthLoginInit, OAuthInv, OAuthTypes, StateInOnePlace, ChecksSoFar, LoginMatchesStart, Holds,
      IdleCallback, CallbackRecords, CallbackPcs
<1>2. OAuthInv /\ [OAuthLoginNext]_oauthVars => OAuthInv'
  BY OAuthStep
<1>3. OAuthInv => LoginMatchesStart
  BY DEF OAuthInv
<1> QED BY <1>1, <1>2, <1>3, PTL DEF OAuthLoginSpec

-----------------------------------------------------------------------------
(* Administration *)

AdminTypes ==
    /\ member \in [Members -> {"active", "disabled", "gone"}]
    /\ owner \in [Titles -> Members \cup Absent]
    /\ DOMAIN console = Consoles
    /\ \A c \in Consoles :
        /\ console[c] = [pc |-> console[c].pc, admin |-> console[c].admin, op |-> console[c].op,
                         target |-> console[c].target, todo |-> console[c].todo, row |-> console[c].row]
        /\ console[c].op = "delete" => console[c].target \in Members /\ console[c].pc # "save"
        /\ console[c].op \in BookOps => console[c].target \in Titles
        /\ console[c].pc \in {"list", "books"} => console[c].op = "delete"
        /\ console[c].pc = "save" => console[c].op \in BookOps /\ console[c].row \in Members
    /\ edit \in [Edits -> {NoEdit} \cup [op: {"upload", "update"}, user: Members, book: Titles]]

\* A request that deletes a user has listed every book he owns and not yet deleted it, but
\* for the books saved late; when it turns to the user himself only those are left.
BooksAccountedFor ==
    \A c \in Consoles, b \in Titles :
        /\ console[c].op = "delete" /\ owner[b] = console[c].target /\ owner[b] \notin Absent
        /\ console[c].pc = "call" \/ (console[c].pc = "books" /\ b \notin console[c].todo)
        => b \in late \cup revived

\* The row of book b was read with owner u and is still to be saved whole.
RowToSave(b, u) ==
    \/ \E e \in Edits : edit[e] = [op |-> "update", user |-> u, book |-> b]
    \/ \E c \in Consoles : console[c].pc = "save" /\ console[c].target = b /\ console[c].row = u

\* A book never changes hands: such a row has the owner of the book as it is, or as it was
\* when it was deleted, so that a save changes nothing but a deleted book.
RowsAreCurrent ==
    \A b \in Titles, u \in Members : RowToSave(b, u) =>
        /\ owner[b] \in {u, "deleted"}
        /\ \A v \in Members : RowToSave(b, v) => v = u

\* The book of a pending upload is not there yet, and no other request has it.
UploadsAreNew ==
    \A e \in Edits : edit[e].op = "upload" =>
        /\ owner[edit[e].book] = "none"
        /\ \A d \in Edits : edit[d] # NoEdit /\ edit[d].book = edit[e].book => d = e

AdminInv == AdminTypes /\ BooksAccountedFor /\ RowsAreCurrent /\ UploadsAreNew /\ DeletedUserOwnsNothing

\* Each call of an administrator's request, and each step of a user's, keeps AdminInv.
LEMMA AdminStep ==
    ASSUME AdminInv, [AdminActionsNext]_adminVars
    PROVE  AdminInv'
<1> USE AdminActionsAssumption
    DEF AdminInv, AdminTypes, ConsoleAt, ConsoleGo, ConsoleEnd, IdleConsole, NoEdit, UserOps, BookOps, Absent, books
<1>1. ASSUME NEW c \in Consoles, gatewayAdminOnly(c) PROVE AdminInv'
  <2>1. AdminTypes'
    <3>1. PICK a \in Admins, op \in UserOps \cup BookOps :
            \E x \in IF op \in UserOps THEN Members ELSE Titles :
              /\ console' = [console EXCEPT ![c] = [pc |-> "before", admin |-> a, op |-> op, target |-> x,
                                                    todo |-> {}, row |-> "none"]]
              /\ UNCHANGED <<member, owner, edit, late, revived>>
      BY ONLY <1>1, Zenon DEF gatewayAdminOnly, books
    <3>2. PICK x :
            /\ (op = "delete" => x \in Members) /\ (op \in BookOps => x \in Titles)
            /\ console' = [console EXCEPT ![c] = [pc |-> "before", admin |-> a, op |-> op, target |-> x,
                                                  todo |-> {}, row |-> "none"]]
            /\ UNCHANGED <<member, owner, edit, late, revived>>
      BY <3>1
    <3> QED BY <3>2, ZenonT(30)
  <2>2. BooksAccountedFor'
    BY <1>1 DEF gatewayAdminOnly, BooksAccountedFor, BooksListed
  <2>3. RowsAreCurrent'
    BY <1>1 DEF gatewayAdminOnly, RowsAreCurrent, RowToSave, UploadsAreNew
  <2>4. UploadsAreNew'
    BY <1>1 DEF gatewayAdminOnly, UploadsAreNew, RowsAreCurrent, RowToSave
  <2>5. DeletedUserOwnsNothing'
    BY <1>1 DEF gatewayAdminOnly, DeletedUserOwnsNothing, BooksAccountedFor, BooksListed, RowsAreCurrent, RowToSave
  <2> QED BY <2>1, <2>2, <2>3, <2>4, <2>5
<1>2. ASSUME NEW c \in Consoles, ReadBefore(c) PROVE AdminInv'
  <2>1. AdminTypes'
    BY <1>2 DEF ReadBefore
  <2>2. BooksAccountedFor'
    BY <1>2 DEF ReadBefore, BooksAccountedFor, BooksListed
  <2>3. RowsAreCurrent'
    BY <1>2 DEF ReadBefore, RowsAreCurrent, RowToSave, UploadsAreNew
  <2>4. UploadsAreNew'
    BY <1>2 DEF ReadBefore, UploadsAreNew, RowsAreCurrent, RowToSave
  <2>5. DeletedUserOwnsNothing'
    BY <1>2 DEF ReadBefore, DeletedUserOwnsNothing, BooksAccountedFor, BooksListed, RowsAreCurrent, RowToSave
  <2> QED BY <2>1, <2>2, <2>3, <2>4, <2>5
<1>3. ASSUME NEW c \in Consoles, ListUserBooks(c) PROVE AdminInv'
  <2>1. AdminTypes'
    BY <1>3 DEF ListUserBooks, ListBooks, BooksOf
  <2>2. BooksAccountedFor'
    BY <1>3 DEF ListUserBooks, ListBooks, BooksOf, BooksAccountedFor, BooksListed
  <2>3. RowsAreCurrent'
    BY <1>3 DEF ListUserBooks, ListBooks, BooksOf, RowsAreCurrent, RowToSave, UploadsAreNew
  <2>4. UploadsAreNew'
    BY <1>3 DEF ListUserBooks, ListBooks, BooksOf, UploadsAreNew, RowsAreCurrent, RowToSave
  <2>5. DeletedUserOwnsNothing'
    BY <1>3 DEF ListUserBooks, ListBooks, BooksOf, DeletedUserOwnsNothing, BooksAccountedFor, BooksListed, RowsAreCurrent, RowToSave
  <2> QED BY <2>1, <2>2, <2>3, <2>4, <2>5
<1>4. ASSUME NEW c \in Consoles, DeleteUserBook(c) PROVE AdminInv'
  <2>1. AdminTypes'
    BY <1>4 DEF DeleteUserBook
  <2>2. BooksAccountedFor'
    BY <1>4 DEF DeleteUserBook, BooksAccountedFor, BooksListed
  <2>3. RowsAreCurrent'
    BY <1>4 DEF DeleteUserBook, RowsAreCurrent, RowToSave, UploadsAreNew
  <2>4. UploadsAreNew'
    BY <1>4 DEF DeleteUserBook, UploadsAreNew, RowsAreCurrent, RowToSave
  <2>5. DeletedUserOwnsNothing'
    BY <1>4 DEF DeleteUserBook, DeletedUserOwnsNothing, BooksAccountedFor, BooksListed, RowsAreCurrent, RowToSave
  <2> QED BY <2>1, <2>2, <2>3, <2>4, <2>5
<1>5. ASSUME NEW c \in Consoles, UserBooksDeleted(c) PROVE AdminInv'
  <2>1. AdminTypes'
    BY <1>5 DEF UserBooksDeleted
  <2>2. BooksAccountedFor'
    BY <1>5 DEF UserBooksDeleted, BooksAccountedFor, BooksListed
  <2>3. RowsAreCurrent'
    BY <1>5 DEF UserBooksDeleted, RowsAreCurrent, RowToSave, UploadsAreNew
  <2>4. UploadsAreNew'
    BY <1>5 DEF UserBooksDeleted, UploadsAreNew, RowsAreCurrent, RowToSave
  <2>5. DeletedUserOwnsNothing'
    BY <1>5 DEF UserBooksDeleted, DeletedUserOwnsNothing, BooksAccountedFor, BooksListed, RowsAreCurrent, RowToSave
  <2> QED BY <2>1, <2>2, <2>3, <2>4, <2>5
<1>6. ASSUME NEW c \in Consoles, CallUserOp(c) PROVE AdminInv'
  <2>1. AdminTypes'
    BY <1>6 DEF CallUserOp, MemberAfter
  <2>2. BooksAccountedFor'
    BY <1>6 DEF CallUserOp, MemberAfter, BooksAccountedFor, BooksListed
  <2>3. RowsAreCurrent'
    BY <1>6 DEF CallUserOp, MemberAfter, RowsAreCurrent, RowToSave, UploadsAreNew
  <2>4. UploadsAreNew'
    BY <1>6 DEF CallUserOp, MemberAfter, UploadsAreNew, RowsAreCurrent, RowToSave
  <2>5. DeletedUserOwnsNothing'
    BY <1>6 DEF CallUserOp, MemberAfter, DeletedUserOwnsNothing, BooksAccountedFor, BooksListed, RowsAreCurrent, RowToSave
  <2> QED BY <2>1, <2>2, <2>3, <2>4, <2>5
<1>7. ASSUME NEW c \in Consoles, CallDeleteBook(c) PROVE AdminInv'
  <2>1. AdminTypes'
    BY <1>7 DEF CallDeleteBook
  <2>2. BooksAccountedFor'
    BY <1>7 DEF CallDeleteBook, BooksAccountedFor, BooksListed
  <2>3. RowsAreCurrent'
    BY <1>7 DEF CallDeleteBook, RowsAreCurrent, RowToSave, UploadsAreNew
  <2>4. UploadsAreNew'
    BY <1>7 DEF CallDeleteBook, UploadsAreNew, RowsAreCurrent, RowToSave
  <2>5. DeletedUserOwnsNothing'
    BY <1>7 DEF CallDeleteBook, DeletedUserOwnsNothing, BooksAccountedFor, BooksListed, RowsAreCurrent, RowToSave
  <2> QED BY <2>1, <2>2, <2>3, <2>4, <2>5
<1>8. ASSUME NEW c \in Consoles, ReadForReprocess(c) PROVE AdminInv'
  <2>1. AdminTypes'
    BY <1>8 DEF ReadForReprocess
  <2>2. BooksAccountedFor'
    BY <1>8 DEF ReadForReprocess, BooksAccountedFor, BooksListed
  <2>3. RowsAreCurrent'
    BY <1>8 DEF ReadForReprocess, RowsAreCurrent, RowToSave, UploadsAreNew
  <2>4. UploadsAreNew'
    BY <1>8 DEF ReadForReprocess, UploadsAreNew, RowsAreCurrent, RowToSave
  <2>5. DeletedUserOwnsNothing'
    BY <1>8 DEF ReadForReprocess, DeletedUserOwnsNothing, BooksAccountedFor, BooksListed, RowsAreCurrent, RowToSave
  <2> QED BY <2>1, <2>2, <2>3, <2>4, <2>5
<1>9. ASSUME NEW c \in Consoles, SaveReprocessed(c) PROVE AdminInv'
  <2> DEFINE b == console[c].target
             u == console[c].row
  <2>1. b \in Titles /\ u \in Members /\ RowToSave(b, u)
    BY <1>9 DEF SaveReprocessed, RowToSave
  <2>2. owner[b] \in {u, "deleted"} /\ \A v \in Members : RowToSave(b, v) => v = u
    BY <2>1 DEF RowsAreCurrent
  <2>3. /\ owner' = [owner EXCEPT ![b] = u] /\ UNCHANGED <<member, edit, late>>
        /\ console' = [console EXCEPT ![c].pc = "audit"]
        /\ revived' = IF owner[b] = "deleted" /\ BooksListed(u) THEN revived \cup {b} ELSE revived
    BY <1>9 DEF SaveReprocessed, SaveRow
  <2>4. revived \subseteq revived' /\ (owner[b] = "deleted" /\ BooksListed(u) => b \in revived')
    BY <2>3
  <2>5. console[c].op # "delete"
    BY <1>9 DEF SaveReprocessed
  <2> HIDE DEF b, u
  <2>6. AdminTypes'
    BY <2>1, <2>3, <2>5
  <2>7. BooksAccountedFor'
    BY <2>1, <2>2, <2>3, <2>4, <2>5 DEF BooksAccountedFor, BooksListed
  <2>8. RowsAreCurrent'
    <3>1. \A t, v : RowToSave(t, v)' => RowToSave(t, v)
      BY <2>3 DEF RowToSave
    <3> HIDE DEF AdminTypes
    <3> QED BY <2>1, <2>2, <2>3, <3>1 DEF RowsAreCurrent, AdminTypes
  <2>9. UploadsAreNew'
    BY <2>1, <2>2, <2>3 DEF UploadsAreNew
  <2>10. DeletedUserOwnsNothing'
    BY <2>1, <2>2, <2>3, <2>4 DEF DeletedUserOwnsNothing, BooksListed
  <2> QED BY <2>6, <2>7, <2>8, <2>9, <2>10
<1>10. ASSUME NEW c \in Consoles, writeAdminAuditLog(c) PROVE AdminInv'
  <2>1. AdminTypes'
    BY <1>10 DEF writeAdminAuditLog
  <2>2. BooksAccountedFor'
    BY <1>10 DEF writeAdminAuditLog, BooksAccountedFor, BooksListed
  <2>3. RowsAreCurrent'
    BY <1>10 DEF writeAdminAuditLog, RowsAreCurrent, RowToSave, UploadsAreNew
  <2>4. UploadsAreNew'
    BY <1>10 DEF writeAdminAuditLog, UploadsAreNew, RowsAreCurrent, RowToSave
  <2>5. DeletedUserOwnsNothing'
    BY <1>10 DEF writeAdminAuditLog, DeletedUserOwnsNothing, BooksAccountedFor, BooksListed, RowsAreCurrent, RowToSave
  <2> QED BY <2>1, <2>2, <2>3, <2>4, <2>5
<1>11. ASSUME NEW c \in Consoles, CallFails(c) PROVE AdminInv'
  <2>1. AdminTypes'
    BY <1>11 DEF CallFails
  <2>2. BooksAccountedFor'
    BY <1>11 DEF CallFails, BooksAccountedFor, BooksListed
  <2>3. RowsAreCurrent'
    BY <1>11 DEF CallFails, RowsAreCurrent, RowToSave, UploadsAreNew
  <2>4. UploadsAreNew'
    BY <1>11 DEF CallFails, UploadsAreNew, RowsAreCurrent, RowToSave
  <2>5. DeletedUserOwnsNothing'
    BY <1>11 DEF CallFails, DeletedUserOwnsNothing, BooksAccountedFor, BooksListed, RowsAreCurrent, RowToSave
  <2> QED BY <2>1, <2>2, <2>3, <2>4, <2>5
<1>12. ASSUME NEW e \in Edits, UploadBook(e) PROVE AdminInv'
  <2>1. AdminTypes'
    BY <1>12 DEF UploadBook
  <2>2. BooksAccountedFor'
    BY <1>12 DEF UploadBook, BooksAccountedFor, BooksListed
  <2>3. RowsAreCurrent'
    BY <1>12 DEF UploadBook, RowsAreCurrent, RowToSave, UploadsAreNew
  <2>4. UploadsAreNew'
    BY <1>12 DEF UploadBook, UploadsAreNew, RowsAreCurrent, RowToSave
  <2>5. DeletedUserOwnsNothing'
    BY <1>12 DEF UploadBook, DeletedUserOwnsNothing, BooksAccountedFor, BooksListed, RowsAreCurrent, RowToSave
  <2> QED BY <2>1, <2>2, <2>3, <2>4, <2>5
<1>13. ASSUME NEW e \in Edits, UpdateBook(e) PROVE AdminInv'
  <2>1. AdminTypes'
    BY <1>13 DEF UpdateBook
  <2>2. BooksAccountedFor'
    BY <1>13 DEF UpdateBook, BooksAccountedFor, BooksListed
  <2>3. RowsAreCurrent'
    BY <1>13 DEF UpdateBook, RowsAreCurrent, RowToSave, UploadsAreNew
  <2>4. UploadsAreNew'
    BY <1>13 DEF UpdateBook, UploadsAreNew, RowsAreCurrent, RowToSave
  <2>5. DeletedUserOwnsNothing'
    BY <1>13 DEF UpdateBook, DeletedUserOwnsNothing, BooksAccountedFor, BooksListed, RowsAreCurrent, RowToSave
  <2> QED BY <2>1, <2>2, <2>3, <2>4, <2>5
<1>14. ASSUME NEW e \in Edits, SaveEdit(e) PROVE AdminInv'
  <2> DEFINE b == edit[e].book
             u == edit[e].user
  <2>1. b \in Titles /\ u \in Members /\ edit[e].op \in {"upload", "update"}
    BY <1>14 DEF SaveEdit
  <2>2. edit[e].op = "update" => /\ owner[b] \in {u, "deleted"}
                                 /\ \A v \in Members : RowToSave(b, v) => v = u
    <3>1. edit[e].op = "update" => RowToSave(b, u)
      BY <1>14 DEF SaveEdit, RowToSave
    <3> QED BY <2>1, <3>1 DEF RowsAreCurrent
  <2>3. edit[e].op = "upload" => /\ owner[b] = "none" /\ \A d \in Edits : edit[d] # NoEdit /\ edit[d].book = b => d = e
                                 /\ \A v \in Members : ~ RowToSave(b, v)
    BY <2>1 DEF UploadsAreNew, RowsAreCurrent
  <2>4. /\ owner' = [owner EXCEPT ![b] = u] /\ UNCHANGED <<member, console>>
        /\ edit' = [edit EXCEPT ![e] = NoEdit]
        /\ revived' = IF owner[b] = "deleted" /\ BooksListed(u) THEN revived \cup {b} ELSE revived
        /\ late' = IF edit[e].op = "upload" /\ BooksListed(u) THEN late \cup {b} ELSE late
    BY <1>14 DEF SaveEdit, SaveRow
  <2>5. late \cup revived \subseteq (late \cup revived)'
    BY <2>4
  <2>6. BooksListed(u) /\ owner[b] # u => b \in (late \cup revived)'
    BY <2>1, <2>2, <2>4
  <2> HIDE DEF b, u
  <2>7. AdminTypes'
    BY <2>1, <2>4
  <2>8. BooksAccountedFor'
    BY <2>1, <2>4, <2>5, <2>6 DEF BooksAccountedFor, BooksListed
  <2>9. RowsAreCurrent'
    <3>1. \A t, v : RowToSave(t, v)' => RowToSave(t, v)
      BY <2>4 DEF RowToSave
    <3>2. \A v \in Members : RowToSave(b, v) => v = u
      BY <2>1, <2>2, <2>3
    <3> QED BY <2>1, <2>4, <3>1, <3>2 DEF RowsAreCurrent
  <2>10. UploadsAreNew'
    <3>1. ASSUME NEW d \in Edits, edit'[d].op = "upload" PROVE d # e /\ edit'[d] = edit[d] /\ edit[d].book # b
      <4>1. edit'[e].op = "none" /\ d # e /\ edit'[d] = edit[d]
        BY <2>1, <2>4, <3>1
      <4>2. edit[e] # NoEdit /\ edit[d] # NoEdit
        BY <2>1, <3>1, <4>1
      <4> QED BY <3>1, <4>1, <4>2 DEF UploadsAreNew, b
    <3>2. ASSUME NEW d \in Edits, edit'[d] # NoEdit PROVE edit'[d] = edit[d]
      BY <2>1, <2>4, <3>2
    <3> HIDE DEF NoEdit
    <3> QED BY <2>1, <2>4, <3>1, <3>2 DEF UploadsAreNew
  <2>11. DeletedUserOwnsNothing'
    BY <2>1, <2>4, <2>5, <2>6 DEF DeletedUserOwnsNothing, BooksListed
  <2> QED BY <2>7, <2>8, <2>9, <2>10, <2>11
<1>15. ASSUME NEW e \in Edits, EditFails(e) PROVE AdminInv'
  <2>1. AdminTypes'
    BY <1>15 DEF EditFails
  <2>2. BooksAccountedFor'
    BY <1>15 DEF EditFails, BooksAccountedFor, BooksListed
  <2>3. RowsAreCurrent'
    BY <1>15 DEF EditFails, RowsAreCurrent, RowToSave, UploadsAreNew
  <2>4. UploadsAreNew'
    <3>1. edit' = [edit EXCEPT ![e] = NoEdit] /\ UNCHANGED owner
      BY <1>15 DEF EditFails
    <3>2. ASSUME NEW d \in Edits, edit'[d].op = "upload" PROVE edit'[d] = edit[d]
      BY <3>1, <3>2
    <3>3. ASSUME NEW d \in Edits, edit'[d] # NoEdit PROVE edit'[d] = edit[d]
      BY <3>1, <3>3
    <3> HIDE DEF NoEdit
    <3> QED BY <3>1, <3>2, <3>3 DEF UploadsAreNew
  <2>5. DeletedUserOwnsNothing'
    BY <1>15 DEF EditFails, DeletedUserOwnsNothing, BooksAccountedFor, BooksListed, RowsAreCurrent, RowToSave
  <2> QED BY <2>1, <2>2, <2>3, <2>4, <2>5
<1>16. CASE UNCHANGED adminVars
  BY <1>16 DEF adminVars, BooksAccountedFor, RowsAreCurrent, RowToSave, UploadsAreNew, DeletedUserOwnsNothing
<1> QED
  BY <1>1, <1>2, <1>3, <1>4, <1>5, <1>6, <1>7, <1>8, <1>9, <1>10, <1>11, <1>12, <1>13, <1>14, <1>15, <1>16 DEF AdminActionsNext

\* A user who was deleted owns no book, whichever administrators and users act at the same
\* time and whichever of their calls fail: but for one whose upload was saved after his books
\* were listed, and one deleted and then saved once more as a row that was read before.
THEOREM DeletedUserOwnsNothingCorrect == AdminActionsSpec => []DeletedUserOwnsNothing
<1>1. AdminActionsInit => AdminInv
  <2> SUFFICES ASSUME AdminActionsInit PROVE AdminInv
    OBVIOUS
  <2> USE AdminActionsAssumption DEF AdminActionsInit, IdleConsole, NoEdit, Absent
  <2>1. AdminTypes
    BY DEF AdminTypes, BookOps
  <2>2. BooksAccountedFor /\ DeletedUserOwnsNothing
    BY DEF BooksAccountedFor, DeletedUserOwnsNothing
  <2>3. RowsAreCurrent /\ UploadsAreNew
    BY DEF RowsAreCurrent, RowToSave, UploadsAreNew
  <2> QED BY <2>1, <2>2, <2>3 DEF AdminInv
<1>2. AdminInv /\ [AdminActionsNext]_adminVars => AdminInv'
  BY AdminStep
<1>3. AdminInv => DeletedUserOwnsNothing
  BY DEF AdminInv
<1> QED BY <1>1, <1>2, <1>3, PTL DEF AdminActionsSpec

-----------------------------------------------------------------------------
(* Sessions *)

WebRecords ==
    [pc: {"idle", "arrived", "refresh", "flight", "answer"}, kind: Kinds \cup {"none"},
     gateway: Gateways \cup {"none"}, access: 0 .. MaxTokens, refresh: 0 .. MaxTokens,
     set: {"keep", "set", "clearAccess", "clear"}, new: 0 .. MaxTokens]
FlightRecords ==
    [gateway: Gateways, token: WebTokens, state: {"running", "done", "unauthorized", "error"},
     new: 0 .. MaxTokens, again: BOOLEAN]

StoreTypes ==
    /\ issued \in 0 .. MaxTokens
    /\ loginOf \in [WebTokens -> 0 .. MaxTokens]
    /\ current \in [WebTokens -> 0 .. MaxTokens]
    /\ rotatedAt \in [WebTokens -> Gateways \cup {"none"}]

WebTypes ==
    /\ cookie \in [access: 0 .. MaxTokens, refresh: 0 .. MaxTokens]
    /\ web \in [WebRequests -> WebRecords]
    /\ flight \subseteq FlightRecords

\* No cookie, request or refresh has a token that was not issued.
OnlyIssued ==
    /\ cookie.refresh <= issued
    /\ \A r \in WebRequests :
        /\ web[r].refresh <= issued /\ web[r].new <= issued
        /\ web[r].pc \in {"arrived", "refresh", "flight"} => web[r].gateway \in Gateways
        /\ web[r].pc = "answer" /\ web[r].set = "set" => web[r].new # 0
        /\ web[r].pc = "flight" => web[r].refresh # 0
    /\ \A f \in flight : f.token <= issued /\ f.new <= issued

\* The tokens issued so far fall into families, each under the token of its login; the
\* current token of a family is one of its tokens and was not rotated.
FamiliesPartition ==
    /\ \A n \in WebTokens : loginOf[n] # 0 <=> n <= issued
    /\ \A n \in WebTokens : n <= issued => loginOf[n] <= n /\ loginOf[loginOf[n]] = loginOf[n]
    /\ \A n \in WebTokens : current[n] # 0 => loginOf[current[n]] = n /\ rotatedAt[current[n]] = "none"
    /\ \A n \in WebTokens : n > issued => rotatedAt[n] = "none"

\* The refreshes that run: one per token and instance, each with a request that waits for
\* it; one that is no repetition runs while its instance has not rotated the token.
FlightsOrderly ==
    /\ \A f, g \in flight : f.gateway = g.gateway /\ f.token = g.token => f = g
    /\ \A f \in flight :
        /\ \E r \in WebRequests : web[r].pc = "flight" /\ web[r].gateway = f.gateway /\ web[r].refresh = f.token
        /\ f.state = "running" /\ ~ f.again => rotatedAt[f.token] # f.gateway
        /\ f.new # 0 <=> f.state = "done"

SessionInv == StoreTypes /\ WebTypes /\ OnlyIssued /\ FamiliesPartition /\ FlightsOrderly /\ OverlapIsNoReplay /\ CookieIsCurrent

\* What an answer is: the cookies it sets, and nothing else of the request.
LEMMA AnsweredFacts ==
    ASSUME NEW s \in {"keep", "set", "clearAccess", "clear"}, NEW n \in 0 .. MaxTokens
    PROVE  /\ Answered(s, n) \in WebRecords /\ Answered(s, n).pc = "answer"
           /\ Answered(s, n).set = s /\ Answered(s, n).new = n /\ Answered(s, n).refresh = 0
<1>1. IdleWeb \in WebRecords
  BY GatewaySessionsAssumption DEF IdleWeb, WebRecords
<1>2. Answered(s, n) \in WebRecords /\ Answered(s, n).pc = "answer"
      /\ Answered(s, n).set = s /\ Answered(s, n).new = n
  BY <1>1 DEF Answered, WebRecords
<1>3. Answered(s, n).refresh = 0
  BY <1>1 DEF Answered, WebRecords, IdleWeb
<1> QED BY <1>2, <1>3

\* A reply ends the work of the gateway on one request.
LEMMA ReplyFacts ==
    ASSUME WebTypes, NEW r \in WebRequests,
           NEW s \in {"keep", "set", "clearAccess", "clear"}, NEW n \in 0 .. MaxTokens, Reply(r, s, n)
    PROVE  /\ web' \in [WebRequests -> WebRecords]
           /\ web'[r].pc = "answer" /\ web'[r].set = s /\ web'[r].new = n /\ web'[r].refresh = 0
           /\ \A q \in WebRequests : q # r => web'[q] = web[q]
BY AnsweredFacts DEF Reply, WebTypes

\* A request that has ended holds no token.
LEMMA IdleFacts ==
    ASSUME WebTypes, NEW r \in WebRequests, web' = [web EXCEPT ![r] = IdleWeb]
    PROVE  /\ web' \in [WebRequests -> WebRecords]
           /\ web'[r].pc = "idle" /\ web'[r].new = 0 /\ web'[r].refresh = 0
           /\ \A q \in WebRequests : q # r => web'[q] = web[q]
<1>1. IdleWeb \in WebRecords /\ IdleWeb.pc = "idle" /\ IdleWeb.new = 0 /\ IdleWeb.refresh = 0
  BY GatewaySessionsAssumption DEF IdleWeb, WebRecords
<1> QED BY <1>1 DEF WebTypes

\* A request goes out with the refresh cookie of the moment.
LEMMA SendFacts ==
    ASSUME WebTypes, NEW r \in WebRequests, NEW kind \in Kinds, Send(r, kind)
    PROVE  /\ web' \in [WebRequests -> WebRecords]
           /\ web'[r].pc = "arrived" /\ web'[r].new = 0 /\ web'[r].refresh = cookie.refresh
           /\ web'[r].gateway \in Gateways
           /\ \A q \in WebRequests : q # r => web'[q] = web[q]
<1> DEFINE Sent(g) == [IdleWeb EXCEPT !.pc = "arrived", !.kind = kind, !.gateway = g,
                                      !.access = cookie.access, !.refresh = cookie.refresh]
<1>1. PICK g \in Gateways : web' = [web EXCEPT ![r] = Sent(g)]
  BY Zenon DEF Send
<1>2. IdleWeb \in WebRecords
  BY GatewaySessionsAssumption DEF IdleWeb, WebRecords
<1>3. Sent(g) \in WebRecords /\ Sent(g).pc = "arrived" /\ Sent(g).refresh = cookie.refresh /\ Sent(g).gateway = g
  BY <1>2 DEF WebRecords, WebTypes
<1>4. Sent(g).new = 0
  BY <1>2 DEF WebRecords, IdleWeb
<1> HIDE DEF Sent
<1> QED BY <1>1, <1>3, <1>4 DEF WebTypes

\* A request that goes on keeps its refresh cookie and its instance.
LEMMA GoFacts ==
    ASSUME WebTypes, NEW r \in WebRequests, NEW pc \in {"refresh", "flight"},
           \/ web' = [web EXCEPT ![r].pc = pc]
           \/ web' = [web EXCEPT ![r].pc = pc, ![r].access = 0]
    PROVE  /\ web' \in [WebRequests -> WebRecords]
           /\ web'[r].pc = pc /\ web'[r].new = web[r].new /\ web'[r].refresh = web[r].refresh
           /\ web'[r].gateway = web[r].gateway
           /\ \A q \in WebRequests : q # r => web'[q] = web[q]
<1>1. CASE web' = [web EXCEPT ![r].pc = pc]
  BY <1>1 DEF WebTypes, WebRecords
<1>2. CASE web' = [web EXCEPT ![r].pc = pc, ![r].access = 0]
  <2> DEFINE x == [web[r] EXCEPT !.pc = pc, !.access = 0]
  <2>1. web' = [web EXCEPT ![r] = x]
    BY <1>2, Zenon DEF WebTypes
  <2>2. web[r] \in WebRecords
    BY DEF WebTypes
  <2>3. x \in WebRecords /\ x.pc = pc /\ x.new = web[r].new /\ x.refresh = web[r].refresh /\ x.gateway = web[r].gateway
    <3>1. pc \in {"idle", "arrived", "refresh", "flight", "answer"} /\ 0 \in 0 .. MaxTokens
      BY GatewaySessionsAssumption
    <3> QED BY <2>2, <3>1 DEF WebRecords
  <2> HIDE DEF x
  <2> QED BY <2>1, <2>3 DEF WebTypes
<1> QED BY <1>1, <1>2

\* A step of the auth service's token store: nothing, a login, the rotation of a current
\* token or the revocation of a family.
LEMMA StoreStep ==
    ASSUME StoreTypes, WebTypes, OnlyIssued, [GatewaySessionsNext]_sessionVars
    PROVE  \/ UNCHANGED <<issued, loginOf, current, rotatedAt>>
           \/ Issue(0) /\ UNCHANGED rotatedAt
           \/ \E f \in flight : /\ current[loginOf[f.token]] = f.token /\ Issue(loginOf[f.token])
                                /\ rotatedAt' = [rotatedAt EXCEPT ![f.token] = f.gateway]
           \/ \E n \in 1 .. issued : Revoke(n) /\ UNCHANGED rotatedAt
<1>1. ASSUME NEW r \in WebRequests, GatewayLogin(r) PROVE Issue(0) /\ UNCHANGED rotatedAt
  BY <1>1 DEF GatewayLogin
<1>2. ASSUME NEW r \in WebRequests, GatewayLogout(r)
      PROVE  \/ UNCHANGED <<issued, loginOf, current, rotatedAt>>
             \/ \E n \in 1 .. issued : Revoke(n) /\ UNCHANGED rotatedAt
  <2>1. web[r].refresh # 0 => web[r].refresh \in 1 .. issued
    BY DEF OnlyIssued, WebTypes, WebRecords
  <2> QED BY <1>2, <2>1 DEF GatewayLogout, IssueNothing
<1>3. ASSUME NEW f \in flight, AuthRefresh(f)
      PROVE  \/ UNCHANGED <<issued, loginOf, current, rotatedAt>>
             \/ /\ current[loginOf[f.token]] = f.token /\ Issue(loginOf[f.token])
                /\ rotatedAt' = [rotatedAt EXCEPT ![f.token] = f.gateway]
             \/ Revoke(f.token) /\ UNCHANGED rotatedAt
  <2>1. Issue(loginOf[f.token]) => issued' # issued
    BY DEF Issue, StoreTypes
  <2>2. Revoke(f.token) \/ IssueNothing => issued' = issued
    BY DEF Revoke, IssueNothing
  <2> QED BY <1>3, <2>1, <2>2 DEF AuthRefresh, IssueNothing
<1>4. ASSUME NEW f \in flight PROVE f.token \in 1 .. issued
  BY DEF OnlyIssued, WebTypes, FlightRecords, WebTokens
<1>5. CASE \/ \E r \in WebRequests :
              \/ \E kind \in Kinds : Send(r, kind)
              \/ ReceiveAnswer(r) \/ LoseAnswer(r) \/ AuthServiceFails(r) \/ resolveSession(r)
              \/ GatewayRefresh(r) \/ refreshViaCookie(r) \/ LogoutFails(r)
           \/ \E f \in flight : EndFlight(f)
           \/ AccessCookieExpires \/ AccessTokenExpires \/ UNCHANGED sessionVars
  BY <1>5 DEF Send, ReceiveAnswer, LoseAnswer, AuthServiceFails, resolveSession, GatewayRefresh, refreshViaCookie,
              LogoutFails, EndFlight, AccessCookieExpires, AccessTokenExpires, sessionVars
<1> QED
  BY <1>1, <1>2, <1>3, <1>4, <1>5 DEF GatewaySessionsNext

\* The token store keeps its types and its families.
LEMMA FamiliesStep ==
    ASSUME StoreTypes, WebTypes, OnlyIssued, FamiliesPartition, [GatewaySessionsNext]_sessionVars
    PROVE  /\ StoreTypes' /\ FamiliesPartition' /\ issued' >= issued
           /\ \A n \in 1 .. issued : loginOf'[n] = loginOf[n]
<1> USE GatewaySessionsAssumption DEF StoreTypes, FamiliesPartition, WebTokens
<1>1. CASE UNCHANGED <<issued, loginOf, current, rotatedAt>>
  BY <1>1
<1>2. CASE Issue(0) /\ UNCHANGED rotatedAt
  <2> DEFINE n == issued + 1
  <2>1. /\ n \in 1 .. MaxTokens /\ issued' = n
        /\ loginOf' = [loginOf EXCEPT ![n] = n] /\ current' = [current EXCEPT ![n] = n]
    BY <1>2 DEF Issue
  <2>2. StoreTypes' /\ \A m \in 1 .. issued : loginOf'[m] = loginOf[m]
    BY <1>2, <2>1
  <2>3. ASSUME NEW m \in WebTokens
        PROVE  /\ loginOf'[m] # 0 <=> m <= issued'
               /\ m <= issued' => loginOf'[m] <= m /\ loginOf'[loginOf'[m]] = loginOf'[m]
               /\ m > issued' => rotatedAt'[m] = "none"
    BY <1>2, <2>1
  <2>4. ASSUME NEW m \in WebTokens, current'[m] # 0
        PROVE  loginOf'[current'[m]] = m /\ rotatedAt'[current'[m]] = "none"
    <3>1. CASE m = n
      BY <1>2, <2>1, <3>1
    <3>2. CASE m # n
      BY <1>2, <2>1, <2>4, <3>2
    <3> QED BY <3>1, <3>2
  <2> QED BY <2>1, <2>2, <2>3, <2>4
<1>3. ASSUME NEW f \in flight, current[loginOf[f.token]] = f.token, Issue(loginOf[f.token]),
             rotatedAt' = [rotatedAt EXCEPT ![f.token] = f.gateway]
      PROVE  /\ StoreTypes' /\ FamiliesPartition' /\ issued' >= issued
             /\ \A n \in 1 .. issued : loginOf'[n] = loginOf[n]
  <2>1. f.token \in 1 .. issued /\ f.gateway \in Gateways
    BY DEF OnlyIssued, WebTypes, FlightRecords
  <2> DEFINE n == issued + 1
             h == loginOf[f.token]
  <2>2. h \in 1 .. issued /\ loginOf[h] = h
    BY <2>1
  <2>3. /\ n \in 1 .. MaxTokens /\ issued' = n
        /\ loginOf' = [loginOf EXCEPT ![n] = h] /\ current' = [current EXCEPT ![h] = n]
    <3>1. h # 0 /\ issued \in Nat /\ MaxTokens \in Nat
      BY <2>2
    <3> QED BY ONLY <1>3, <3>1 DEF Issue
  <2>4. StoreTypes' /\ \A m \in 1 .. issued : loginOf'[m] = loginOf[m]
    <3>1. /\ issued' \in 0 .. MaxTokens /\ n \in WebTokens /\ n # 0
          /\ \A m \in 1 .. issued : m \in WebTokens /\ m # n
      BY <2>2, <2>3
    <3>2. loginOf' \in [WebTokens -> 0 .. MaxTokens] /\ current' \in [WebTokens -> 0 .. MaxTokens]
      BY <2>2, <2>3
    <3>3. rotatedAt' \in [WebTokens -> Gateways \cup {"none"}]
      BY <1>3, <2>1
    <3> QED BY <2>3, <3>1, <3>2, <3>3
  <2>5. ASSUME NEW m \in WebTokens
        PROVE  /\ loginOf'[m] # 0 <=> m <= issued'
               /\ m <= issued' => loginOf'[m] <= m /\ loginOf'[loginOf'[m]] = loginOf'[m]
               /\ m > issued' => rotatedAt'[m] = "none"
    <3>1. CASE m = n
      BY <1>3, <2>1, <2>2, <2>3, <3>1, SMTT(30)
    <3>2. CASE m # n
      <4>1. loginOf'[m] = loginOf[m] /\ (m <= issued' <=> m <= issued)
        BY <2>3, <3>2
      <4>2. m <= issued => loginOf[m] # n /\ loginOf[m] \in WebTokens
        BY <2>3
      <4>3. m > issued' => m # f.token
        BY <2>1, <2>3
      <4> QED BY <1>3, <2>3, <4>1, <4>2, <4>3
    <3> QED BY <3>1, <3>2
  <2>6. ASSUME NEW m \in WebTokens, current'[m] # 0
        PROVE  loginOf'[current'[m]] = m /\ rotatedAt'[current'[m]] = "none"
    <3>1. CASE m = h
      BY <1>3, <2>1, <2>2, <2>3, <3>1
    <3>2. CASE m # h
      <4> DEFINE c == current[m]
      <4>1. current'[m] = c /\ c # 0 /\ c \in WebTokens
        BY <2>3, <2>6, <3>2
      <4>2. loginOf[c] = m /\ rotatedAt[c] = "none"
        BY <4>1
      <4>3. c <= issued /\ c # n
        BY <4>1, <4>2
      <4>4. c # f.token
        BY <3>2, <4>2
      <4>5. loginOf'[c] = loginOf[c] /\ rotatedAt'[c] = rotatedAt[c]
        BY <1>3, <2>3, <4>1, <4>3, <4>4
      <4> QED BY <4>1, <4>2, <4>5
    <3> QED BY <3>1, <3>2
  <2> QED BY <2>3, <2>4, <2>5, <2>6, SMTT(30)
<1>4. ASSUME NEW n \in 1 .. issued, Revoke(n), UNCHANGED rotatedAt
      PROVE  /\ StoreTypes' /\ FamiliesPartition' /\ issued' >= issued
             /\ \A m \in 1 .. issued : loginOf'[m] = loginOf[m]
  BY <1>4, SMTT(30) DEF Revoke
<1> QED BY StoreStep, <1>1, <1>2, <1>3, <1>4

\* What a refresh at the auth service leaves: its result, and the current token of one
\* family, which is the result's, none or the same as before unless the result is lost.
LEMMA RefreshFacts ==
    ASSUME StoreTypes, WebTypes, OnlyIssued, FamiliesPartition, NEW f \in flight, AuthRefresh(f)
    PROVE  \E g \in FlightRecords :
            /\ g.gateway = f.gateway /\ g.token = f.token /\ g.state # "running"
            /\ flight' = (flight \ {f}) \cup {g}
            /\ g.new # 0 <=> g.state = "done"
            /\ g.new <= issued'
            /\ unsettled \subseteq unsettled'
            /\ \A n \in WebTokens : n # loginOf[f.token] => current'[n] = current[n]
            /\ \/ current'[loginOf[f.token]] \in {0, g.new, current[loginOf[f.token]]}
               \/ loginOf[f.token] \in unsettled'
<1> DEFINE h == loginOf[f.token]
           End(state, new) == [f EXCEPT !.state = state, !.new = new]
<1>1. h \in WebTokens /\ f.token \in 1 .. issued
  BY DEF StoreTypes, WebTypes, OnlyIssued, FlightRecords, FamiliesPartition, WebTokens
<1>2. \E state \in {"done", "unauthorized", "error"}, new \in 0 .. MaxTokens :
        /\ flight' = (flight \ {f}) \cup {End(state, new)}
        /\ new # 0 <=> state = "done"
        /\ new <= issued'
        /\ unsettled \subseteq unsettled'
        /\ \A n \in WebTokens : n # h => current'[n] = current[n]
        /\ current'[h] \in {0, new, current[h]} \/ h \in unsettled'
  <2>1. ASSUME NEW k \in WebTokens, Issue(k)
        PROVE  /\ issued + 1 \in 0 .. MaxTokens /\ issued + 1 # 0 /\ issued' = issued + 1
               /\ current'[k] = issued + 1 /\ \A n \in WebTokens : n # k => current'[n] = current[n]
    BY <2>1, GatewaySessionsAssumption DEF Issue, StoreTypes, WebTokens
  <2>2. Revoke(f.token) => /\ issued' = issued
                           /\ current'[h] = 0 /\ \A n \in WebTokens : n # h => current'[n] = current[n]
    BY <1>1 DEF Revoke, StoreTypes, WebTokens
  <2>3. IssueNothing => issued' = issued /\ current' = current
    BY DEF IssueNothing
  <2>4. 0 \in 0 .. MaxTokens /\ 0 <= issued
    BY GatewaySessionsAssumption DEF StoreTypes
  <2> HIDE DEF End
  <2>5. CASE /\ Issue(h) /\ UNCHANGED unsettled
             /\ flight' = (flight \ {f}) \cup {End("done", issued + 1)}
    BY <1>1, <2>1, <2>5
  <2>6. CASE /\ Issue(h) /\ unsettled' = unsettled \cup {h}
             /\ flight' = (flight \ {f}) \cup {End("error", 0)}
    BY <1>1, <2>1, <2>4, <2>6
  <2>7. CASE /\ Revoke(f.token) \/ IssueNothing
             /\ UNCHANGED unsettled
             /\ \/ flight' = (flight \ {f}) \cup {End("unauthorized", 0)}
                \/ flight' = (flight \ {f}) \cup {End("error", 0)}
    BY <2>2, <2>3, <2>4, <2>7
  <2> QED BY <2>5, <2>6, <2>7 DEF AuthRefresh, End
<1>3. ASSUME NEW state \in {"done", "unauthorized", "error"}, NEW new \in 0 .. MaxTokens
      PROVE  /\ End(state, new) \in FlightRecords /\ End(state, new).state = state /\ End(state, new).new = new
             /\ End(state, new).gateway = f.gateway /\ End(state, new).token = f.token
  <2>1. f \in FlightRecords /\ state \in {"running", "done", "unauthorized", "error"}
    BY DEF WebTypes
  <2> QED BY <2>1 DEF FlightRecords
<1> HIDE DEF End, h
<1> QED BY <1>2, <1>3 DEF h

\* What the end of a refresh leaves: those who waited for it have an answer, which carries
\* the new token if the refresh has one.
LEMMA EndFacts ==
    ASSUME WebTypes, OnlyIssued, FlightsOrderly, issued \in Nat, NEW f \in flight, EndFlight(f)
    PROVE  /\ UNCHANGED <<cookie, issued, loginOf, current, rotatedAt, unsettled, replays>> /\ flight' = flight \ {f}
           /\ web' \in [WebRequests -> WebRecords]
           /\ \A r \in WebRequests :
                IF web[r].pc = "flight" /\ web[r].gateway = f.gateway /\ web[r].refresh = f.token
                THEN /\ web'[r].pc = "answer" /\ web'[r].refresh = 0 /\ web'[r].new = f.new
                     /\ web'[r].set = "set" <=> f.new # 0
                ELSE web'[r] = web[r]
<1> DEFINE Result(r) == CASE f.state = "done"         -> Answered("set", f.new)
                          [] f.state = "unauthorized" -> Answered(Unauthorized(r), 0)
                          [] f.state = "error"        -> Answered("keep", 0)
           Waits(r) == web[r].pc = "flight" /\ web[r].gateway = f.gateway /\ web[r].refresh = f.token
<1>1. f \in FlightRecords /\ f.state # "running" /\ (f.new # 0 <=> f.state = "done")
  BY DEF EndFlight, WebTypes, FlightsOrderly
<1>2. ASSUME NEW s \in {"keep", "set", "clearAccess", "clear"}, NEW n \in 0 .. MaxTokens
      PROVE  /\ Answered(s, n) \in WebRecords /\ Answered(s, n).pc = "answer"
             /\ Answered(s, n).set = s /\ Answered(s, n).new = n /\ Answered(s, n).refresh = 0
  BY AnsweredFacts
<1>3. ASSUME NEW r \in WebRequests
      PROVE  /\ Result(r) \in WebRecords /\ Result(r).pc = "answer" /\ Result(r).refresh = 0
             /\ Result(r).new = f.new /\ (Result(r).set = "set" <=> f.new # 0)
  <2>1. f.new \in 0 .. MaxTokens /\ 0 \in 0 .. MaxTokens /\ f.state \in {"done", "unauthorized", "error"}
    BY <1>1, GatewaySessionsAssumption DEF FlightRecords
  <2>2. Unauthorized(r) \in {"clear", "clearAccess"}
    BY DEF Unauthorized
  <2>3. CASE f.state = "done"
    BY <1>1, <1>2, <2>1, <2>3
  <2>4. CASE f.state = "unauthorized"
    BY <1>1, <1>2, <2>1, <2>2, <2>4
  <2>5. CASE f.state = "error"
    BY <1>1, <1>2, <2>1, <2>5
  <2> QED BY <2>1, <2>3, <2>4, <2>5
<1> HIDE DEF Result
<1>4. web' = [r \in WebRequests |-> IF Waits(r) THEN Result(r) ELSE web[r]]
  <2>1. web' = [r \in WebRequests |-> IF r \in {q \in WebRequests : Waits(q)} THEN Result(r) ELSE web[r]]
    BY Zenon DEF EndFlight, Result
  <2> HIDE DEF Waits
  <2> QED BY ONLY <2>1
<1>5. UNCHANGED <<cookie, issued, loginOf, current, rotatedAt, unsettled, replays>> /\ flight' = flight \ {f}
  BY DEF EndFlight
<1>6. web' \in [WebRequests -> WebRecords]
  <2>1. \A r \in WebRequests : (IF Waits(r) THEN Result(r) ELSE web[r]) \in WebRecords
    BY <1>3 DEF WebTypes
  <2> HIDE DEF Waits
  <2> QED BY ONLY <1>4, <2>1
<1> QED BY <1>3, <1>4, <1>5, <1>6

\* The token of an answer or of a refresh was issued, and records keep their types.
LEMMA OnlyIssuedStep ==
    ASSUME StoreTypes, WebTypes, OnlyIssued, FamiliesPartition, FlightsOrderly, [GatewaySessionsNext]_sessionVars
    PROVE  WebTypes' /\ OnlyIssued'
<1>0. issued \in Nat /\ issued' \in Nat /\ issued' >= issued /\ issued' <= MaxTokens /\ 0 \in 0 .. MaxTokens
  BY FamiliesStep, GatewaySessionsAssumption DEF StoreTypes
<1> DEFINE Kept(r) ==
        /\ web' \in [WebRequests -> WebRecords]
        /\ web'[r].refresh <= issued' /\ web'[r].new <= issued'
        /\ web'[r].pc \in {"arrived", "refresh", "flight"} => web'[r].gateway \in Gateways
        /\ web'[r].pc = "answer" /\ web'[r].set = "set" => web'[r].new # 0
        /\ web'[r].pc = "flight" => web'[r].refresh # 0
        /\ \A q \in WebRequests : q # r => web'[q] = web[q]
<1>1. ASSUME NEW r \in WebRequests, Kept(r), UNCHANGED <<cookie, flight>>
      PROVE  WebTypes' /\ OnlyIssued'
  BY <1>0, <1>1 DEF WebTypes, OnlyIssued, WebRecords, FlightRecords, WebTokens
<1> HIDE DEF Kept
<1>2. ASSUME NEW r \in WebRequests, NEW kind \in Kinds, Send(r, kind) PROVE WebTypes' /\ OnlyIssued'
  <2>1. Kept(r)
    BY <1>0, <1>2, SendFacts DEF OnlyIssued, WebTypes, Kept
  <2> QED BY <1>1, <1>2, <2>1 DEF Send
<1>3. ASSUME NEW r \in WebRequests, NEW s \in {"keep", "set", "clearAccess", "clear"}, NEW n \in 0 .. MaxTokens,
             Reply(r, s, n), n <= issued', s = "set" => n # 0
      PROVE  Kept(r)
  BY <1>0, <1>3, ReplyFacts DEF Kept
<1>4. ASSUME NEW r \in WebRequests, NEW pc \in {"refresh", "flight"}, web[r].pc \in {"arrived", "refresh"},
             \/ web' = [web EXCEPT ![r].pc = pc]
             \/ web' = [web EXCEPT ![r].pc = pc, ![r].access = 0],
             pc = "flight" => web[r].refresh # 0
      PROVE  Kept(r)
  <2>1. /\ web[r] \in WebRecords /\ web[r].refresh <= issued /\ web[r].new <= issued
        /\ web[r].gateway \in Gateways
    BY <1>4 DEF OnlyIssued, WebTypes
  <2>2. web[r].refresh <= issued' /\ web[r].new <= issued'
    BY <1>0, <2>1 DEF WebRecords, WebTokens
  <2>3. /\ web' \in [WebRequests -> WebRecords]
        /\ web'[r].pc = pc /\ web'[r].new = web[r].new /\ web'[r].refresh = web[r].refresh
        /\ web'[r].gateway = web[r].gateway
        /\ \A q \in WebRequests : q # r => web'[q] = web[q]
    BY <1>4, GoFacts
  <2> QED BY <1>4, <2>1, <2>2, <2>3 DEF Kept
<1>5. ASSUME NEW r \in WebRequests, web' = [web EXCEPT ![r] = IdleWeb] PROVE Kept(r)
  <2>1. /\ web' \in [WebRequests -> WebRecords]
        /\ web'[r].pc = "idle" /\ web'[r].new = 0 /\ web'[r].refresh = 0
        /\ \A q \in WebRequests : q # r => web'[q] = web[q]
    BY <1>5, IdleFacts
  <2> QED BY ONLY <1>0, <2>1 DEF Kept
<1>6. ASSUME NEW r \in WebRequests, ReceiveAnswer(r) PROVE WebTypes' /\ OnlyIssued'
  <2>1. /\ cookie' \in [access: 0 .. MaxTokens, refresh: 0 .. MaxTokens] /\ cookie'.refresh <= issued'
    <3>1. web[r].new \in 0 .. MaxTokens /\ web[r].new <= issued /\ web[r].set \in {"keep", "set", "clearAccess", "clear"}
      BY DEF WebTypes, OnlyIssued, WebRecords
    <3> QED BY <1>0, <1>6, <3>1 DEF ReceiveAnswer, Applied, NoCookie, WebTypes, OnlyIssued
  <2>2. Kept(r) /\ UNCHANGED flight
    BY <1>5, <1>6 DEF ReceiveAnswer
  <2> QED BY <1>0, <2>1, <2>2 DEF WebTypes, OnlyIssued, WebRecords, FlightRecords, WebTokens, Kept
<1>7. ASSUME NEW r \in WebRequests, LoseAnswer(r) PROVE WebTypes' /\ OnlyIssued'
  BY <1>1, <1>5, <1>7 DEF LoseAnswer
<1>8. ASSUME NEW r \in WebRequests, GatewayLogin(r) PROVE WebTypes' /\ OnlyIssued'
  <2>1. issued' = issued + 1
    BY <1>8 DEF GatewayLogin, Issue
  <2> QED BY <1>0, <1>1, <1>3, <1>8, <2>1 DEF GatewayLogin
<1>9. ASSUME NEW r \in WebRequests, AuthServiceFails(r) \/ LogoutFails(r) \/ GatewayLogout(r)
      PROVE  WebTypes' /\ OnlyIssued'
  BY <1>0, <1>1, <1>3, <1>9 DEF AuthServiceFails, LogoutFails, GatewayLogout
<1>10. ASSUME NEW r \in WebRequests, resolveSession(r) \/ GatewayRefresh(r) PROVE WebTypes' /\ OnlyIssued'
  <2>1. Reply(r, "keep", 0) \/ (web[r].pc = "arrived" /\ GoRefresh(r))
    BY <1>10 DEF resolveSession, GatewayRefresh, Arrived
  <2>2. CASE Reply(r, "keep", 0)
    BY <1>0, <1>1, <1>3, <1>10, <2>2 DEF resolveSession, GatewayRefresh
  <2>3. CASE web[r].pc = "arrived" /\ web' = [web EXCEPT ![r].pc = "refresh", ![r].access = 0]
    <3>1. Kept(r)
      BY <1>4, <2>3
    <3> QED BY <1>1, <1>10, <3>1 DEF resolveSession, GatewayRefresh
  <2> QED BY <2>1, <2>2, <2>3 DEF GoRefresh
<1>11. ASSUME NEW r \in WebRequests, refreshViaCookie(r) PROVE WebTypes' /\ OnlyIssued'
  <2>1. CASE web[r].refresh = 0 /\ Reply(r, Unauthorized(r), 0) /\ UNCHANGED flight
    BY <1>0, <1>1, <1>3, <1>11, <2>1 DEF refreshViaCookie, Unauthorized
  <2>2. CASE web[r].refresh # 0 /\ DoOnce(r) /\ web' = [web EXCEPT ![r].pc = "flight"]
    <3>1. Kept(r) /\ UNCHANGED cookie
      BY <1>4, <1>11, <2>2 DEF refreshViaCookie
    <3>2. /\ NewFlight(r) \in FlightRecords /\ NewFlight(r).token <= issued' /\ NewFlight(r).new <= issued'
      <4>1. web[r].gateway \in Gateways /\ web[r].refresh \in WebTokens /\ web[r].refresh <= issued
        BY <1>11, <2>2 DEF refreshViaCookie, OnlyIssued, WebTypes, WebRecords, WebTokens
      <4> DEFINE again == FlightsOf(r) = {} /\ rotatedAt[web[r].refresh] = web[r].gateway
      <4>2. again \in BOOLEAN
        BY Zenon
      <4>3. NewFlight(r) = [gateway |-> web[r].gateway, token |-> web[r].refresh, state |-> "running",
                            new |-> 0, again |-> again]
        BY Zenon DEF NewFlight
      <4> HIDE DEF again
      <4>4. NewFlight(r) \in FlightRecords
        BY ONLY <1>0, <4>1, <4>2, <4>3 DEF FlightRecords
      <4> QED BY ONLY <1>0, <4>1, <4>3, <4>4, GatewaySessionsAssumption DEF WebTokens
    <3> HIDE DEF NewFlight
    <3> QED BY <1>0, <2>2, <3>1, <3>2 DEF DoOnce, WebTypes, OnlyIssued, WebRecords, FlightRecords, WebTokens, Kept
  <2> QED BY <1>11, <2>1, <2>2 DEF refreshViaCookie
<1>12. ASSUME NEW f \in flight, AuthRefresh(f) PROVE WebTypes' /\ OnlyIssued'
  <2>1. PICK g \in FlightRecords : g.token = f.token /\ flight' = (flight \ {f}) \cup {g} /\ g.new <= issued'
    BY <1>12, RefreshFacts
  <2>2. UNCHANGED <<cookie, web>>
    BY <1>12 DEF AuthRefresh
  <2> QED BY <1>0, <2>1, <2>2 DEF WebTypes, OnlyIssued, WebRecords, FlightRecords, WebTokens
<1>13. ASSUME NEW f \in flight, EndFlight(f) PROVE WebTypes' /\ OnlyIssued'
  <2>1. /\ UNCHANGED <<cookie, issued>> /\ flight' \subseteq flight
        /\ web' \in [WebRequests -> WebRecords]
        /\ \A r \in WebRequests : \/ web'[r] = web[r]
                                  \/ /\ web'[r].pc = "answer" /\ web'[r].refresh = 0
                                     /\ web'[r].new <= issued /\ (web'[r].set = "set" => web'[r].new # 0)
    <3>1. f.new <= issued
      BY DEF OnlyIssued
    <3> QED BY <1>0, <1>13, <3>1, EndFacts
  <2> QED BY <1>0, <2>1 DEF WebTypes, OnlyIssued, WebRecords, FlightRecords, WebTokens
<1>14. CASE AccessCookieExpires
  BY <1>0, <1>14 DEF AccessCookieExpires, WebTypes, OnlyIssued, WebRecords, FlightRecords, WebTokens
<1>15. CASE AccessTokenExpires \/ UNCHANGED sessionVars
  BY <1>0, <1>15 DEF AccessTokenExpires, sessionVars, WebTypes, OnlyIssued, WebRecords, FlightRecords, WebTokens
<1> QED
  BY <1>2, <1>6, <1>7, <1>8, <1>9, <1>10, <1>11, <1>12, <1>13, <1>14, <1>15 DEF GatewaySessionsNext

\* A request of the browser changes only its own record, and does not leave a refresh.
LEMMA OneRequest ==
    ASSUME WebTypes, NEW r \in WebRequests,
           \/ \E kind \in Kinds : Send(r, kind)
           \/ ReceiveAnswer(r) \/ LoseAnswer(r) \/ GatewayLogin(r) \/ AuthServiceFails(r) \/ resolveSession(r)
           \/ GatewayRefresh(r) \/ refreshViaCookie(r) \/ GatewayLogout(r) \/ LogoutFails(r)
    PROVE  /\ web[r].pc # "flight" /\ \A q \in WebRequests : q # r => web'[q] = web[q]
           /\ web[r].pc = "answer" <=> ReceiveAnswer(r) \/ LoseAnswer(r)
           /\ UNCHANGED replays /\ (refreshViaCookie(r) \/ UNCHANGED flight)
           /\ UNCHANGED rotatedAt
<1> USE DEF WebTypes
<1>1. ASSUME NEW kind \in Kinds, Send(r, kind)
      PROVE  web[r].pc = "idle" /\ UNCHANGED <<flight, replays, rotatedAt>> /\ \A q \in WebRequests : q # r => web'[q] = web[q]
  BY <1>1 DEF Send
<1>2. CASE ReceiveAnswer(r) \/ LoseAnswer(r)
  BY <1>2 DEF ReceiveAnswer, LoseAnswer
<1>3. CASE GatewayLogin(r) \/ AuthServiceFails(r) \/ GatewayLogout(r) \/ LogoutFails(r)
  BY <1>3 DEF GatewayLogin, AuthServiceFails, GatewayLogout, LogoutFails, ReceiveAnswer, LoseAnswer, Arrived, Reply
<1>4. CASE resolveSession(r) \/ GatewayRefresh(r)
  BY <1>4 DEF resolveSession, GatewayRefresh, ReceiveAnswer, LoseAnswer, Arrived, Reply, GoRefresh
<1>5. CASE refreshViaCookie(r)
  BY <1>5 DEF refreshViaCookie, ReceiveAnswer, LoseAnswer, Reply
<1> QED BY <1>1, <1>2, <1>3, <1>4, <1>5 DEF ReceiveAnswer, LoseAnswer

\* Each step keeps the refreshes orderly, and takes no overlap for a replay.
LEMMA FlightsStep ==
    ASSUME StoreTypes, WebTypes, OnlyIssued, FamiliesPartition, FlightsOrderly, OverlapIsNoReplay,
           [GatewaySessionsNext]_sessionVars
    PROVE  FlightsOrderly' /\ OverlapIsNoReplay'
<1>1. ASSUME NEW r \in WebRequests, web[r].pc # "flight", \A q \in WebRequests : q # r => web'[q] = web[q],
             UNCHANGED <<flight, rotatedAt, replays>>
      PROVE  FlightsOrderly' /\ OverlapIsNoReplay'
  BY <1>1 DEF FlightsOrderly, OverlapIsNoReplay
<1>2. ASSUME NEW r \in WebRequests, web[r].refresh # 0, DoOnce(r), web' = [web EXCEPT ![r].pc = "flight"],
             web[r].pc = "refresh", UNCHANGED <<rotatedAt, replays>>
      PROVE  FlightsOrderly' /\ OverlapIsNoReplay'
  <2>1. /\ web'[r].pc = "flight" /\ web'[r].gateway = web[r].gateway /\ web'[r].refresh = web[r].refresh
        /\ \A q \in WebRequests : q # r => web'[q] = web[q]
    BY <1>2, GoFacts
  <2>2. CASE FlightsOf(r) # {}
    BY <1>2, <2>1, <2>2 DEF DoOnce, FlightsOrderly, OverlapIsNoReplay
  <2>3. CASE FlightsOf(r) = {}
    <3> DEFINE g == NewFlight(r)
    <3>1. /\ g.gateway = web[r].gateway /\ g.token = web[r].refresh /\ g.new = 0 /\ g.state = "running"
          /\ ~ g.again => rotatedAt[g.token] # g.gateway
      BY <2>3 DEF NewFlight
    <3>2. flight' = flight \cup {g} /\ \A f \in flight : ~ (f.gateway = g.gateway /\ f.token = g.token)
      BY <1>2, <2>3, <3>1 DEF DoOnce, FlightsOf
    <3> HIDE DEF g
    <3> QED BY <1>2, <2>1, <3>1, <3>2 DEF FlightsOrderly, OverlapIsNoReplay
  <2> QED BY <2>2, <2>3
<1>3. ASSUME NEW r \in WebRequests,
             \/ \E kind \in Kinds : Send(r, kind)
             \/ ReceiveAnswer(r) \/ LoseAnswer(r) \/ GatewayLogin(r) \/ AuthServiceFails(r) \/ resolveSession(r)
             \/ GatewayRefresh(r) \/ refreshViaCookie(r) \/ GatewayLogout(r) \/ LogoutFails(r)
      PROVE  FlightsOrderly' /\ OverlapIsNoReplay'
  <2>1. CASE UNCHANGED flight
    BY <1>1, <1>3, <2>1, OneRequest
  <2>2. CASE refreshViaCookie(r) /\ ~ UNCHANGED flight
    BY <1>2, <2>2 DEF refreshViaCookie
  <2> QED BY <1>3, <2>1, <2>2, OneRequest
<1>4. ASSUME NEW f \in flight, AuthRefresh(f) PROVE FlightsOrderly' /\ OverlapIsNoReplay'
  <2>1. PICK g \in FlightRecords :
            /\ g.gateway = f.gateway /\ g.token = f.token /\ g.state # "running"
            /\ flight' = (flight \ {f}) \cup {g} /\ (g.new # 0 <=> g.state = "done")
    BY <1>4, RefreshFacts
  <2>2. rotatedAt' = rotatedAt \/ rotatedAt' = [rotatedAt EXCEPT ![f.token] = f.gateway]
    BY <1>4 DEF AuthRefresh
  <2>3. /\ \A e \in flight : e # f => e.token # f.token \/ e.gateway # f.gateway
        /\ \A e \in flight : e.token \in WebTokens
    BY DEF FlightsOrderly, WebTypes, FlightRecords
  <2>4. FlightsOrderly'
    <3>1. UNCHANGED web
      BY <1>4 DEF AuthRefresh
    <3> QED BY <2>1, <2>2, <2>3, <3>1 DEF FlightsOrderly, StoreTypes
  <2>5. OverlapIsNoReplay'
    <3>1. f.state = "running" /\ (f.again \/ rotatedAt[f.token] # f.gateway)
      BY <1>4 DEF AuthRefresh, FlightsOrderly
    <3>2. \/ replays' = replays
          \/ replays' = replays \cup {[again |-> f.again, elsewhere |-> rotatedAt[f.token] # f.gateway]}
      BY <1>4 DEF AuthRefresh
    <3> DEFINE new == [again |-> f.again, elsewhere |-> rotatedAt[f.token] # f.gateway]
    <3>3. new.again \/ new.elsewhere
      BY <3>1
    <3> HIDE DEF new
    <3> QED BY <3>2, <3>3 DEF OverlapIsNoReplay, new
  <2> QED BY <2>4, <2>5
<1>5. ASSUME NEW f \in flight, EndFlight(f) PROVE FlightsOrderly' /\ OverlapIsNoReplay'
  <2>1. /\ UNCHANGED <<rotatedAt, replays>> /\ flight' = flight \ {f}
        /\ \A r \in WebRequests : web'[r] = web[r] \/ (web[r].gateway = f.gateway /\ web[r].refresh = f.token)
    BY <1>5, EndFacts DEF StoreTypes
  <2> QED BY <2>1 DEF FlightsOrderly, OverlapIsNoReplay
<1>6. CASE AccessCookieExpires \/ AccessTokenExpires \/ UNCHANGED sessionVars
  BY <1>6 DEF AccessCookieExpires, AccessTokenExpires, sessionVars, FlightsOrderly, OverlapIsNoReplay
<1> QED BY <1>3, <1>4, <1>5, <1>6 DEF GatewaySessionsNext

\* Each step keeps the browser able to go on.
LEMMA CookieStep ==
    ASSUME StoreTypes, WebTypes, OnlyIssued, FamiliesPartition, FlightsOrderly, CookieIsCurrent,
           [GatewaySessionsNext]_sessionVars
    PROVE  CookieIsCurrent'
<1> DEFINE n == cookie.refresh
           h == loginOf[n]
<1>0. /\ n \in 0 .. issued /\ (n # 0 => n \in WebTokens /\ h \in 1 .. issued /\ h \in WebTokens /\ loginOf'[n] = h)
      /\ issued \in Nat /\ StoreTypes'
  BY FamiliesStep DEF StoreTypes, WebTypes, OnlyIssued, FamiliesPartition, WebTokens
<1>1. ASSUME NEW r \in WebRequests, web[r].pc # "answer", \A q \in WebRequests : q # r => web'[q] = web[q],
             UNCHANGED cookie, flight \subseteq flight', unsettled' = unsettled,
             n # 0 => current'[h] \in {0, current[h]}
      PROVE  CookieIsCurrent'
  BY <1>0, <1>1 DEF CookieIsCurrent
<1>2. ASSUME NEW r \in WebRequests, ReceiveAnswer(r) PROVE CookieIsCurrent'
  <2>1. CASE web[r].set = "set"
    <3> DEFINE m == web[r].new
    <3>1. cookie'.refresh = m /\ UNCHANGED <<current, loginOf, flight>>
      BY <1>2, <2>1 DEF ReceiveAnswer, Applied
    <3>2. m = current[loginOf[m]] \/ loginOf[m] \in unsettled'
      BY <1>2, <2>1 DEF ReceiveAnswer
    <3> QED BY <3>1, <3>2 DEF CookieIsCurrent
  <2>2. CASE web[r].set # "set"
    <3>1. cookie'.refresh \in {0, n} /\ UNCHANGED <<current, loginOf, flight, unsettled>>
          /\ \A q \in WebRequests : q # r => web'[q] = web[q]
      <4>1. web[r].set \in {"keep", "set", "clearAccess", "clear"}
        BY DEF WebTypes, WebRecords
      <4> QED BY <1>2, <2>2, <4>1 DEF ReceiveAnswer, Applied, NoCookie, WebTypes
    <3> QED BY <2>2, <3>1 DEF CookieIsCurrent
  <2> QED BY <2>1, <2>2
<1>3. ASSUME NEW r \in WebRequests, LoseAnswer(r) PROVE CookieIsCurrent'
  <2>1. /\ UNCHANGED <<cookie, current, loginOf, flight>> /\ \A q \in WebRequests : q # r => web'[q] = web[q]
        /\ unsettled' = IF web[r].set = "set" THEN unsettled \cup {loginOf[web[r].new]} ELSE unsettled
    BY <1>3 DEF LoseAnswer, WebTypes
  <2>2. n # 0 /\ current[h] # 0 => loginOf[current[h]] = h
    BY <1>0 DEF FamiliesPartition
  <2> QED BY <1>0, <2>1, <2>2 DEF CookieIsCurrent
<1>4. ASSUME NEW r \in WebRequests, GatewayLogin(r) PROVE CookieIsCurrent'
  <2>1. n # 0 => current'[h] = current[h]
    BY <1>0, <1>4 DEF GatewayLogin, Issue, StoreTypes
  <2> QED BY <1>1, <1>4, <2>1, OneRequest DEF GatewayLogin, Arrived
<1>5. ASSUME NEW r \in WebRequests, GatewayLogout(r) PROVE CookieIsCurrent'
  <2>1. n # 0 => current'[h] \in {0, current[h]}
    BY <1>0, <1>5 DEF GatewayLogout, Revoke, IssueNothing, StoreTypes
  <2> QED BY <1>1, <1>5, <2>1, OneRequest DEF GatewayLogout, Arrived
<1>6. ASSUME NEW r \in WebRequests,
             \/ \E kind \in Kinds : Send(r, kind)
             \/ AuthServiceFails(r) \/ resolveSession(r) \/ GatewayRefresh(r) \/ refreshViaCookie(r) \/ LogoutFails(r)
      PROVE  CookieIsCurrent'
  <2>1. UNCHANGED <<cookie, current, unsettled>> /\ flight \subseteq flight'
    BY <1>6 DEF Send, AuthServiceFails, resolveSession, GatewayRefresh, refreshViaCookie, LogoutFails, DoOnce
  <2>2. web[r].pc # "answer"
    BY <1>6 DEF Send, AuthServiceFails, resolveSession, GatewayRefresh, refreshViaCookie, LogoutFails, Arrived
  <2> QED BY <1>1, <1>6, <2>1, <2>2, OneRequest
<1>7. ASSUME NEW f \in flight, AuthRefresh(f) PROVE CookieIsCurrent'
  <2>1. PICK g \in FlightRecords :
            /\ flight' = (flight \ {f}) \cup {g}
            /\ unsettled \subseteq unsettled'
            /\ \A k \in WebTokens : k # loginOf[f.token] => current'[k] = current[k]
            /\ \/ current'[loginOf[f.token]] \in {0, g.new, current[loginOf[f.token]]}
               \/ loginOf[f.token] \in unsettled'
    BY <1>7, RefreshFacts
  <2>2. UNCHANGED <<cookie, web>> /\ f.new = 0
    BY <1>7 DEF AuthRefresh, FlightsOrderly
  <2>3. g \in flight' /\ \A e \in flight : e # f => e \in flight'
    BY <2>1
  <2> QED BY <1>0, <2>1, <2>2, <2>3 DEF CookieIsCurrent
<1>8. ASSUME NEW f \in flight, EndFlight(f) PROVE CookieIsCurrent'
  <2>1. /\ UNCHANGED <<cookie, loginOf, current, unsettled>> /\ flight' = flight \ {f}
        /\ \A r \in WebRequests :
             IF web[r].pc = "flight" /\ web[r].gateway = f.gateway /\ web[r].refresh = f.token
             THEN web'[r].pc = "answer" /\ web'[r].new = f.new /\ (web'[r].set = "set" <=> f.new # 0)
             ELSE web'[r] = web[r]
    BY <1>0, <1>8, EndFacts
  <2>2. PICK r \in WebRequests : web[r].pc = "flight" /\ web[r].gateway = f.gateway /\ web[r].refresh = f.token
    BY DEF FlightsOrderly
  <2>3. f.new # 0 => web'[r].pc = "answer" /\ web'[r].set = "set" /\ web'[r].new = f.new
    BY <2>1, <2>2
  <2>4. \A q \in WebRequests : web[q].pc = "answer" => web'[q] = web[q]
    BY <2>1
  <2> QED BY <2>1, <2>3, <2>4 DEF CookieIsCurrent
<1>9. CASE AccessCookieExpires
  BY <1>9 DEF AccessCookieExpires, CookieIsCurrent, WebTypes
<1>10. CASE AccessTokenExpires \/ UNCHANGED sessionVars
  BY <1>10 DEF AccessTokenExpires, sessionVars, CookieIsCurrent
<1> QED BY <1>2, <1>3, <1>4, <1>5, <1>6, <1>7, <1>8, <1>9, <1>10 DEF GatewaySessionsNext

\* The first state of the browser and the gateway.
LEMMA SessionInitially == GatewaySessionsInit => SessionInv
<1> SUFFICES ASSUME GatewaySessionsInit PROVE SessionInv
  OBVIOUS
<1>1. IdleWeb \in WebRecords /\ IdleWeb.pc = "idle" /\ IdleWeb.refresh = 0 /\ IdleWeb.new = 0
  BY GatewaySessionsAssumption DEF IdleWeb, WebRecords
<1>2. StoreTypes /\ FamiliesPartition /\ FlightsOrderly /\ OverlapIsNoReplay
  BY GatewaySessionsAssumption
  DEF GatewaySessionsInit, StoreTypes, FamiliesPartition, FlightsOrderly, OverlapIsNoReplay, WebTokens
<1>3. cookie.refresh = 0 /\ cookie \in [access: 0 .. MaxTokens, refresh: 0 .. MaxTokens]
  BY GatewaySessionsAssumption DEF GatewaySessionsInit, NoCookie
<1>4. WebTypes /\ OnlyIssued /\ CookieIsCurrent
  BY <1>1, <1>3 DEF GatewaySessionsInit, WebTypes, OnlyIssued, CookieIsCurrent
<1> QED BY <1>2, <1>4 DEF SessionInv

\* SessionInv holds in every state, whatever the browser sends and which answers arrive.
LEMMA SessionInvariant == GatewaySessionsSpec => []SessionInv
<1>1. SessionInv /\ [GatewaySessionsNext]_sessionVars => SessionInv'
  BY FamiliesStep, OnlyIssuedStep, FlightsStep, CookieStep DEF SessionInv
<1> QED BY <1>1, SessionInitially, PTL DEF GatewaySessionsSpec

\* Requests of one browser that overlap at one gateway never end the session as a replay,
\* for any number of requests, instances and tokens.
THEOREM OverlapIsNoReplayCorrect == GatewaySessionsSpec => []OverlapIsNoReplay
<1>1. SessionInv => OverlapIsNoReplay
  BY DEF SessionInv
<1> QED BY <1>1, SessionInvariant, PTL

\* The browser holds the current token of its session, or an answer with it is under way,
\* unless an answer was lost, a refresh failed late or an answer was overtaken.
THEOREM CookieIsCurrentCorrect == GatewaySessionsSpec => []CookieIsCurrent
<1>1. SessionInv => CookieIsCurrent
  BY DEF SessionInv
<1> QED BY <1>1, SessionInvariant, PTL

\* What the browser and the gateways see of the auth service is a store of token families:
\* no token is redeemed twice, and no session comes back once it is revoked.
THEOREM SessionsImplementFamilies == GatewaySessionsSpec => SessionsAreFamilies
<1> USE GatewaySessionsAssumption
<1>1. GatewaySessionsInit => TokenStore!Init
  BY DEF GatewaySessionsInit, TokenStore!Init, WebTokens
<1>2. SessionInv /\ [GatewaySessionsNext]_sessionVars => [TokenStore!Next]_TokenStore!vars
  <2> SUFFICES ASSUME SessionInv, [GatewaySessionsNext]_sessionVars
               PROVE  [TokenStore!Next]_TokenStore!vars
    OBVIOUS
  <2> USE DEF SessionInv, StoreTypes, FamiliesPartition, WebTokens
  <2>1. CASE UNCHANGED <<issued, loginOf, current, rotatedAt>>
    BY <2>1 DEF TokenStore!vars
  <2>2. CASE Issue(0) /\ UNCHANGED rotatedAt
    <3>0. PICK n \in WebTokens : n = issued + 1
      BY <2>2 DEF Issue
    <3>1. /\ n \in WebTokens /\ issued' = n
          /\ loginOf' = [loginOf EXCEPT ![n] = n] /\ current' = [current EXCEPT ![n] = n]
      BY <2>2, <3>0 DEF Issue
    <3>2. TokenStore!Issue(n, "user", n)
      <4>1. loginOf[n] = 0 /\ n # 0
        BY <3>0, <3>1
      <4>2. [m \in WebTokens |-> IF loginOf[m] = m THEN "user" ELSE "nobody"]'
              = [[m \in WebTokens |-> IF loginOf[m] = m THEN "user" ELSE "nobody"] EXCEPT ![n] = "user"]
        BY <3>1
      <4>3. (1 .. issued)' = (1 .. issued) \cup {n} /\ n \notin 1 .. issued
        BY <3>0, <3>1
      <4> QED BY <2>2, <3>1, <4>1, <4>2, <4>3 DEF TokenStore!Issue
    <3> QED BY <3>2 DEF TokenStore!Next
  <2>3. ASSUME NEW f \in flight, current[loginOf[f.token]] = f.token, Issue(loginOf[f.token]),
               rotatedAt' = [rotatedAt EXCEPT ![f.token] = f.gateway]
        PROVE  TokenStore!Next
    <3>0. PICK n \in WebTokens : n = issued + 1
      BY <2>3 DEF Issue
    <3>1. f.token \in 1 .. issued /\ f.gateway \in Gateways
      BY DEF OnlyIssued, WebTypes, FlightRecords
    <3>2. PICK h \in WebTokens : h = loginOf[f.token] /\ h \in 1 .. issued /\ loginOf[h] = h
      <4> DEFINE k == f.token
      <4>1. k \in WebTokens /\ k \in 1 .. issued
        BY <3>1
      <4> HIDE DEF k
      <4>2. loginOf[k] \in 1 .. issued /\ loginOf[k] \in WebTokens /\ loginOf[loginOf[k]] = loginOf[k]
        BY <4>1
      <4> QED BY <4>2 DEF k
    <3>3. /\ n \in WebTokens /\ issued' = n
          /\ loginOf' = [loginOf EXCEPT ![n] = h] /\ current' = [current EXCEPT ![h] = n]
      <4>1. h # 0 /\ issued \in Nat /\ MaxTokens \in Nat
        BY <3>2
      <4> QED BY ONLY <2>3, <3>0, <3>2, <4>1 DEF Issue, WebTokens
    <3>4. TokenStore!Redeem(h, n)
      <4>1. current[h] # 0 /\ current[h] = f.token /\ rotatedAt[f.token] = "none"
        BY <2>3, <3>1, <3>2
      <4>2. [m \in WebTokens |-> IF loginOf[m] = m THEN "user" ELSE "nobody"]'
              = [m \in WebTokens |-> IF loginOf[m] = m THEN "user" ELSE "nobody"]
        BY <3>0, <3>2, <3>3, SMTT(30)
      <4>3. {m \in WebTokens : rotatedAt[m] # "none"}' = {m \in WebTokens : rotatedAt[m] # "none"} \cup {f.token}
        <5>1. f.token \in WebTokens /\ f.gateway # "none"
          BY <3>1
        <5>2. \A m \in WebTokens : rotatedAt'[m] # "none" <=> rotatedAt[m] # "none" \/ m = f.token
          BY <2>3, <5>1
        <5> QED BY <5>1, <5>2
      <4>4. (1 .. issued)' = (1 .. issued) \cup {n} /\ n \notin 1 .. issued
        BY ONLY <3>0, <3>3, issued \in Nat
      <4> QED BY <3>3, <4>1, <4>2, <4>3, <4>4 DEF TokenStore!Redeem
    <3> QED BY <3>4 DEF TokenStore!Next
  <2>4. ASSUME NEW n \in 1 .. issued, Revoke(n), UNCHANGED rotatedAt
        PROVE  [TokenStore!Next]_TokenStore!vars
    <3>0. PICK h \in WebTokens : h = loginOf[n]
      OBVIOUS
    <3>1. h \in WebTokens /\ UNCHANGED <<issued, loginOf>> /\ current' = [current EXCEPT ![h] = 0]
      BY <2>4, <3>0 DEF Revoke
    <3>2. CASE current[h] = 0
      <4>1. current' = current
        BY <3>1, <3>2
      <4> QED BY <2>4, <3>1, <4>1 DEF TokenStore!vars
    <3>3. CASE current[h] # 0
      <4>1. TokenStore!Revoke(h)
        BY <2>4, <3>1, <3>3 DEF TokenStore!Revoke
      <4> QED BY <3>1, <4>1 DEF TokenStore!Next
    <3> QED BY <3>2, <3>3
  <2> QED BY <2>1, <2>2, <2>3, <2>4, StoreStep
<1> QED BY <1>1, <1>2, SessionInvariant, PTL DEF GatewaySessionsSpec, SessionsAreFamilies, TokenStore!Spec

-----------------------------------------------------------------------------
(***************************************************************************)
(* Every call the gateway makes for an API request lands, but for a logout *)
(* without an access token: CallsLand, for every set of paths and of       *)
(* methods.                                                                *)
(*                                                                         *)
(* The argument goes by the clients.  Each call a client can build is      *)
(* taken to the operation its service has for it (the lemmas on the        *)
(* calls); a handler replies with calls of its clients, in a proper order  *)
(* (the lemmas on the handlers); and what is proper stays so as the calls  *)
(* are made one by one (LandingInvariant).                                 *)
(***************************************************************************)

Refusals == {"400", "401", "403", "404", "405"}

Services == {"auth", "book", "chat"}
Methods == {"GET", "POST", "PATCH", "DELETE"}
Segments ==
    {"admin", "artifacts", "audit-logs", "avatar", "books", "cancel", "chats", "complete",
     "conversations", "datasets", "disable", "download", "enable", "evals", "id",
     "index-status", "jwks", "login", "logout", "me", "messages", "methods", "oauth",
     "overview", "password", "per-query", "refresh", "repair-index", "reprocess", "reset",
     "runs", "send", "signup", "users", "verification", "verify"}
Calls == [service: Services, method: Methods, path: Seq(Segments), token: BOOLEAN, key: BOOLEAN]

\* The call ends in an operation, with the key of the request if that is done once per key,
\* or it is a logout without a token.
Lands(c, session, key) ==
    /\ ServiceRoutes(c, session) \in Refusals => c = Logout(FALSE)
    /\ ServiceRoutes(c, session) \in KeyedOperations => c.key = key

\* The calls a handler may make anywhere.
Workable(session, key) ==
    {c \in Calls : Lands(c, session, key) /\ ServiceRoutes(c, session) # "write audit log"}

\* The calls of a reply: each lands, and only the last writes the audit log.
Proper(calls, session, key) ==
    /\ calls \in Seq(Calls)
    /\ \A i \in 1 .. Len(calls) :
          /\ Lands(calls[i], session, key)
          /\ ServiceRoutes(calls[i], session) = "write audit log" => i = Len(calls)

ProperReply(r, session, key) ==
    /\ r \in [status: Nat \ {0}, calls: Seq(Calls)]
    /\ Proper(r.calls, session, key)

-----------------------------------------------------------------------------
(* Calls *)

\* The flags of a call.
LEMMA Flags == TRUE \in BOOLEAN /\ FALSE \in BOOLEAN
BY Zenon

\* What the clients build (newRequest) is a call.
LEMMA CallTyped ==
    ASSUME NEW service \in Services, NEW method \in Methods, NEW path \in Seq(Segments),
           NEW token \in BOOLEAN, NEW key \in BOOLEAN
    PROVE  CallTo(service, method, path, token, key) \in Calls
BY Zenon DEF CallTo, Calls

\* A call to a public route of the auth service (auth server.go) needs no session.
LEMMA PublicCall ==
    ASSUME NEW session, NEW key \in BOOLEAN, NEW m \in Methods, NEW p \in Seq(Segments),
           NEW token \in BOOLEAN, Head(p) \notin {"admin", "me", "users"},
           token = TRUE \/ AuthPublicRoutes(m, p) # "logout",
           AuthPublicRoutes(m, p) \notin Refusals \cup {"write audit log"} \cup KeyedOperations
    PROVE  CallTo("auth", m, p, token, FALSE) \in Workable(session, key)
<1> DEFINE c == CallTo("auth", m, p, token, FALSE)
<1>0. "auth" \in Services
  BY DEF Services
<1>1. c \in Calls
  BY <1>0, CallTyped, Flags
<1>2. /\ c.service = "auth" /\ c.method = m /\ c.path = p /\ c.token = token
  BY DEF CallTo
<1>3. ServiceRoutes(c, session) = AuthPublicRoutes(m, p)
  BY <1>2 DEF ServiceRoutes
<1> HIDE DEF c
<1>4. c \in Workable(session, key)
  BY <1>1, <1>3 DEF Workable, Lands
<1> QED BY <1>4 DEF c

\* A call to a route of the auth service behind withUser lands for any session.
LEMMA UserCall ==
    ASSUME NEW session \in {"user", "admin"}, NEW key \in BOOLEAN, NEW m \in Methods,
           NEW p \in Seq(Segments), Head(p) \in {"me", "users"},
           AuthUserRoutes(m, p) \notin Refusals \cup {"write audit log"} \cup KeyedOperations
    PROVE  CallTo("auth", m, p, TRUE, FALSE) \in Workable(session, key)
<1> DEFINE c == CallTo("auth", m, p, TRUE, FALSE)
<1>0. "auth" \in Services
  BY DEF Services
<1>1. c \in Calls
  BY <1>0, CallTyped, Flags
<1>2. /\ c.service = "auth" /\ c.method = m /\ c.path = p /\ c.token = TRUE
  BY DEF CallTo
<1>3. ServiceRoutes(c, session) = AuthUserRoutes(m, p)
  BY <1>2 DEF ServiceRoutes, UserOnly
<1> HIDE DEF c
<1>4. c \in Workable(session, key)
  BY <1>1, <1>3 DEF Workable, Lands
<1> QED BY <1>4 DEF c

\* A call to a route of the auth service behind adminOnly lands for an administrator.
LEMMA AdminCall ==
    ASSUME NEW key \in BOOLEAN, NEW m \in Methods, NEW p \in Seq(Segments), Head(p) = "admin", p[2] # "evals",
           AuthAdminRoutes(m, Tail(p)) \notin Refusals \cup KeyedOperations
    PROVE  /\ CallTo("auth", m, p, TRUE, FALSE) \in Calls
           /\ Lands(CallTo("auth", m, p, TRUE, FALSE), "admin", key)
           /\ ServiceRoutes(CallTo("auth", m, p, TRUE, FALSE), "admin") = AuthAdminRoutes(m, Tail(p))
<1> DEFINE c == CallTo("auth", m, p, TRUE, FALSE)
<1>0. "auth" \in Services
  BY DEF Services
<1>1. c \in Calls
  BY <1>0, CallTyped, Flags
<1>2. /\ c.service = "auth" /\ c.method = m /\ c.path = p /\ c.token = TRUE
  BY DEF CallTo
<1>3. ServiceRoutes(c, "admin") = AuthAdminRoutes(m, Tail(p))
  BY <1>2 DEF ServiceRoutes, AdminOnly, UserOnly
<1> HIDE DEF c
<1>4. Lands(c, "admin", key)
  BY <1>3 DEF Lands
<1> QED BY <1>1, <1>3, <1>4 DEF c

\* A call to the eval center lands for an administrator; a run is created with the key.
LEMMA EvalCall ==
    ASSUME NEW key \in BOOLEAN, NEW m \in Methods, NEW p \in Seq(Segments), NEW k \in BOOLEAN,
           Head(p) = "admin", p[2] = "evals",
           AuthEvalRoutes(m, Tail(Tail(p))) \notin Refusals \cup {"write audit log"},
           (k = TRUE /\ key = TRUE) \/ AuthEvalRoutes(m, Tail(Tail(p))) \notin KeyedOperations
    PROVE  CallTo("auth", m, p, TRUE, k) \in Workable("admin", key)
<1> DEFINE c == CallTo("auth", m, p, TRUE, k)
<1>0. "auth" \in Services
  BY DEF Services
<1>1. c \in Calls
  BY <1>0, CallTyped, Flags
<1>2. /\ c.service = "auth" /\ c.method = m /\ c.path = p /\ c.token = TRUE /\ c.key = k
  BY DEF CallTo
<1>3. ServiceRoutes(c, "admin") = AuthEvalRoutes(m, Tail(Tail(p)))
  BY <1>2 DEF ServiceRoutes, AdminOnly, UserOnly
<1>4. c.key = k
  BY <1>2
<1> HIDE DEF c
<1>5. c \in Workable("admin", key)
  BY <1>1, <1>3, <1>4 DEF Workable, Lands
<1> QED BY <1>5 DEF c

\* A call to the book service lands for any session; what is done once per key comes with it.
LEMMA BookCall ==
    ASSUME NEW session \in {"user", "admin"}, NEW key \in BOOLEAN, NEW m \in Methods,
           NEW p \in Seq(Segments), NEW k \in BOOLEAN,
           BookRoutes(m, p) \notin Refusals \cup {"write audit log"},
           (k = TRUE /\ key = TRUE) \/ BookRoutes(m, p) \notin KeyedOperations
    PROVE  CallTo("book", m, p, TRUE, k) \in Workable(session, key)
<1> DEFINE c == CallTo("book", m, p, TRUE, k)
<1>0. "book" \in Services
  BY DEF Services
<1>1. c \in Calls
  BY <1>0, CallTyped, Flags
<1>2. /\ c.service = "book" /\ c.method = m /\ c.path = p /\ c.token = TRUE /\ c.key = k
  BY DEF CallTo
<1>3. ServiceRoutes(c, session) = BookRoutes(m, p)
  BY <1>2 DEF ServiceRoutes, UserOnly
<1>4. c.key = k
  BY <1>2
<1> HIDE DEF c
<1>5. c \in Workable(session, key)
  BY <1>1, <1>3, <1>4 DEF Workable, Lands
<1> QED BY <1>5 DEF c

\* A call to the chat service lands for any session; a question passes its key on.
LEMMA ChatCall ==
    ASSUME NEW session \in {"user", "admin"}, NEW key \in BOOLEAN, NEW m \in Methods,
           NEW p \in Seq(Segments), NEW k \in BOOLEAN,
           ChatRoutes(m, p) \notin Refusals \cup {"write audit log"},
           k = key \/ ChatRoutes(m, p) \notin KeyedOperations
    PROVE  CallTo("chat", m, p, TRUE, k) \in Workable(session, key)
<1> DEFINE c == CallTo("chat", m, p, TRUE, k)
<1>0. "chat" \in Services
  BY DEF Services
<1>1. c \in Calls
  BY <1>0, CallTyped, Flags
<1>2. /\ c.service = "chat" /\ c.method = m /\ c.path = p /\ c.token = TRUE /\ c.key = k
  BY DEF CallTo
<1>3. ServiceRoutes(c, session) = ChatRoutes(m, p)
  BY <1>2 DEF ServiceRoutes, UserOnly
<1>4. c.key = k
  BY <1>2
<1> HIDE DEF c
<1>5. c \in Workable(session, key)
  BY <1>1, <1>3, <1>4 DEF Workable, Lands
<1> QED BY <1>5 DEF c

\* Every call of the client to the public routes of the auth service (authclient).
LEMMA AuthPublicWorks ==
    ASSUME NEW session, NEW key \in BOOLEAN
    PROVE  /\ AuthPublicClient.SignUpComplete \in Workable(session, key)
           /\ AuthPublicClient.Login \in Workable(session, key)
           /\ AuthPublicClient.LoginMethods \in Workable(session, key)
           /\ AuthPublicClient.OAuthComplete \in Workable(session, key)
           /\ AuthPublicClient.VerificationSend \in Workable(session, key)
           /\ AuthPublicClient.VerificationVerify \in Workable(session, key)
           /\ AuthPublicClient.PasswordResetVerify \in Workable(session, key)
           /\ AuthPublicClient.PasswordResetComplete \in Workable(session, key)
           /\ AuthPublicClient.Refresh \in Workable(session, key)
<1>1. "POST" \in Methods
  BY DEF Methods
<1>2. /\ <<"login", "methods">> \in Seq(Segments)
      /\ <<"login">> \in Seq(Segments)
      /\ <<"oauth", "complete">> \in Seq(Segments)
      /\ <<"password", "reset", "complete">> \in Seq(Segments)
      /\ <<"password", "reset", "verify">> \in Seq(Segments)
      /\ <<"refresh">> \in Seq(Segments)
      /\ <<"signup", "complete">> \in Seq(Segments)
      /\ <<"verification", "send">> \in Seq(Segments)
      /\ <<"verification", "verify">> \in Seq(Segments)
  BY DEF Segments
<1>3. CallTo("auth", "POST", <<"signup", "complete">>, FALSE, FALSE) \in Workable(session, key)
  <2>1. AuthPublicRoutes("POST", <<"signup", "complete">>) = "signup"
    BY DEF AuthPublicRoutes, Route
  <2>2. Head(<<"signup", "complete">>) = "signup"
    OBVIOUS
  <2> QED BY <1>1, <1>2, <2>1, <2>2, PublicCall, Flags DEF Refusals, KeyedOperations
<1>4. CallTo("auth", "POST", <<"login">>, FALSE, FALSE) \in Workable(session, key)
  <2>1. AuthPublicRoutes("POST", <<"login">>) = "login"
    BY DEF AuthPublicRoutes, Route
  <2>2. Head(<<"login">>) = "login"
    OBVIOUS
  <2> QED BY <1>1, <1>2, <2>1, <2>2, PublicCall, Flags DEF Refusals, KeyedOperations
<1>5. CallTo("auth", "POST", <<"login", "methods">>, FALSE, FALSE) \in Workable(session, key)
  <2>1. AuthPublicRoutes("POST", <<"login", "methods">>) = "login methods"
    BY DEF AuthPublicRoutes, Route
  <2>2. Head(<<"login", "methods">>) = "login"
    OBVIOUS
  <2> QED BY <1>1, <1>2, <2>1, <2>2, PublicCall, Flags DEF Refusals, KeyedOperations
<1>6. CallTo("auth", "POST", <<"oauth", "complete">>, FALSE, FALSE) \in Workable(session, key)
  <2>1. AuthPublicRoutes("POST", <<"oauth", "complete">>) = "oauth login"
    BY DEF AuthPublicRoutes, Route
  <2>2. Head(<<"oauth", "complete">>) = "oauth"
    OBVIOUS
  <2> QED BY <1>1, <1>2, <2>1, <2>2, PublicCall, Flags DEF Refusals, KeyedOperations
<1>7. CallTo("auth", "POST", <<"verification", "send">>, FALSE, FALSE) \in Workable(session, key)
  <2>1. AuthPublicRoutes("POST", <<"verification", "send">>) = "send code"
    BY DEF AuthPublicRoutes, Route
  <2>2. Head(<<"verification", "send">>) = "verification"
    OBVIOUS
  <2> QED BY <1>1, <1>2, <2>1, <2>2, PublicCall, Flags DEF Refusals, KeyedOperations
<1>8. CallTo("auth", "POST", <<"verification", "verify">>, FALSE, FALSE) \in Workable(session, key)
  <2>1. AuthPublicRoutes("POST", <<"verification", "verify">>) = "verify code"
    BY DEF AuthPublicRoutes, Route
  <2>2. Head(<<"verification", "verify">>) = "verification"
    OBVIOUS
  <2> QED BY <1>1, <1>2, <2>1, <2>2, PublicCall, Flags DEF Refusals, KeyedOperations
<1>9. CallTo("auth", "POST", <<"password", "reset", "verify">>, FALSE, FALSE) \in Workable(session, key)
  <2>1. AuthPublicRoutes("POST", <<"password", "reset", "verify">>) = "verify reset code"
    BY DEF AuthPublicRoutes, Route
  <2>2. Head(<<"password", "reset", "verify">>) = "password"
    OBVIOUS
  <2> QED BY <1>1, <1>2, <2>1, <2>2, PublicCall, Flags DEF Refusals, KeyedOperations
<1>10. CallTo("auth", "POST", <<"password", "reset", "complete">>, FALSE, FALSE) \in Workable(session, key)
  <2>1. AuthPublicRoutes("POST", <<"password", "reset", "complete">>) = "reset password"
    BY DEF AuthPublicRoutes, Route
  <2>2. Head(<<"password", "reset", "complete">>) = "password"
    OBVIOUS
  <2> QED BY <1>1, <1>2, <2>1, <2>2, PublicCall, Flags DEF Refusals, KeyedOperations
<1>11. CallTo("auth", "POST", <<"refresh">>, FALSE, FALSE) \in Workable(session, key)
  <2>1. AuthPublicRoutes("POST", <<"refresh">>) = "refresh"
    BY DEF AuthPublicRoutes, Route
  <2>2. Head(<<"refresh">>) = "refresh"
    OBVIOUS
  <2> QED BY <1>1, <1>2, <2>1, <2>2, PublicCall, Flags DEF Refusals, KeyedOperations
<1> QED BY <1>3, <1>4, <1>5, <1>6, <1>7, <1>8, <1>9, <1>10, <1>11 DEF AuthPublicClient

\* Every call of the client to the routes of the auth service for its users (authclient).
LEMMA AuthUserWorks ==
    ASSUME NEW session \in {"user", "admin"}, NEW key \in BOOLEAN
    PROVE  /\ AuthUserClient.Me \in Workable(session, key)
           /\ AuthUserClient.UpdateMe \in Workable(session, key)
           /\ AuthUserClient.UploadAvatar \in Workable(session, key)
           /\ AuthUserClient.UserAvatar \in Workable(session, key)
           /\ AuthUserClient.ChangePassword \in Workable(session, key)
<1>1. "GET" \in Methods /\ "PATCH" \in Methods /\ "POST" \in Methods
  BY DEF Methods
<1>2. /\ <<"jwks">> \in Seq(Segments)
      /\ <<"logout">> \in Seq(Segments)
      /\ <<"me", "avatar">> \in Seq(Segments)
      /\ <<"me", "password">> \in Seq(Segments)
      /\ <<"me">> \in Seq(Segments)
      /\ <<"users", "id", "avatar">> \in Seq(Segments)
  BY DEF Segments
<1>3. CallTo("auth", "GET", <<"me">>, TRUE, FALSE) \in Workable(session, key)
  <2>1. AuthUserRoutes("GET", <<"me">>) = "me"
    BY DEF AuthUserRoutes, Route
  <2>2. Head(<<"me">>) = "me"
    OBVIOUS
  <2> QED BY <1>1, <1>2, <2>1, <2>2, UserCall, Flags DEF Refusals, KeyedOperations
<1>4. CallTo("auth", "PATCH", <<"me">>, TRUE, FALSE) \in Workable(session, key)
  <2>1. AuthUserRoutes("PATCH", <<"me">>) = "update me"
    BY DEF AuthUserRoutes, Route
  <2>2. Head(<<"me">>) = "me"
    OBVIOUS
  <2> QED BY <1>1, <1>2, <2>1, <2>2, UserCall, Flags DEF Refusals, KeyedOperations
<1>5. CallTo("auth", "POST", <<"me", "avatar">>, TRUE, FALSE) \in Workable(session, key)
  <2>1. AuthUserRoutes("POST", <<"me", "avatar">>) = "upload avatar"
    BY DEF AuthUserRoutes, Route
  <2>2. Head(<<"me", "avatar">>) = "me"
    OBVIOUS
  <2> QED BY <1>1, <1>2, <2>1, <2>2, UserCall, Flags DEF Refusals, KeyedOperations
<1>6. CallTo("auth", "GET", <<"users", "id", "avatar">>, TRUE, FALSE) \in Workable(session, key)
  <2>1. AuthUserRoutes("GET", <<"users", "id", "avatar">>) = "avatar"
    BY DEF AuthUserRoutes, Route
  <2>2. Head(<<"users", "id", "avatar">>) = "users"
    OBVIOUS
  <2> QED BY <1>1, <1>2, <2>1, <2>2, UserCall, Flags DEF Refusals, KeyedOperations
<1>7. CallTo("auth", "POST", <<"me", "password">>, TRUE, FALSE) \in Workable(session, key)
  <2>1. AuthUserRoutes("POST", <<"me", "password">>) = "change password"
    BY DEF AuthUserRoutes, Route
  <2>2. Head(<<"me", "password">>) = "me"
    OBVIOUS
  <2> QED BY <1>1, <1>2, <2>1, <2>2, UserCall, Flags DEF Refusals, KeyedOperations
<1> QED BY <1>3, <1>4, <1>5, <1>6, <1>7 DEF AuthUserClient

\* Every call of the client to the administration of the auth service, but for the audit log
\* (authclient).
LEMMA AuthAdminWorks ==
    ASSUME NEW key \in BOOLEAN
    PROVE  /\ AuthAdminClient.ListUsers \in Workable("admin", key)
           /\ AuthAdminClient.GetUser \in Workable("admin", key)
           /\ AuthAdminClient.UpdateUser \in Workable("admin", key)
           /\ AuthAdminClient.DeleteUser \in Workable("admin", key)
           /\ AuthAdminClient.DisableUser \in Workable("admin", key)
           /\ AuthAdminClient.EnableUser \in Workable("admin", key)
           /\ AuthAdminClient.ListAuditLogs \in Workable("admin", key)
           /\ AuthAdminClient.Overview \in Workable("admin", key)
<1>1. "DELETE" \in Methods /\ "GET" \in Methods /\ "PATCH" \in Methods /\ "POST" \in Methods
  BY DEF Methods
<1>2. /\ <<"admin", "audit-logs">> \in Seq(Segments)
      /\ <<"admin", "overview">> \in Seq(Segments)
      /\ <<"admin", "users", "id", "disable">> \in Seq(Segments)
      /\ <<"admin", "users", "id", "enable">> \in Seq(Segments)
      /\ <<"admin", "users", "id">> \in Seq(Segments)
      /\ <<"admin", "users">> \in Seq(Segments)
  BY DEF Segments
<1>3. CallTo("auth", "GET", <<"admin", "users">>, TRUE, FALSE) \in Workable("admin", key)
  <2>1. AuthAdminRoutes("GET", <<"users">>) = "list users"
    BY DEF AuthAdminRoutes, Route
  <2>2. Head(<<"admin", "users">>) = "admin" /\ <<"admin", "users">>[2] = "users" /\ Tail(<<"admin", "users">>) = <<"users">>
    OBVIOUS
  <2> QED BY <1>1, <1>2, <2>1, <2>2, AdminCall, Flags, ZenonT(30) DEF Refusals, KeyedOperations, Workable
<1>4. CallTo("auth", "GET", <<"admin", "users", "id">>, TRUE, FALSE) \in Workable("admin", key)
  <2>1. AuthAdminRoutes("GET", <<"users", "id">>) = "get user"
    BY DEF AuthAdminRoutes, Route
  <2>2. Head(<<"admin", "users", "id">>) = "admin" /\ <<"admin", "users", "id">>[2] = "users" /\ Tail(<<"admin", "users", "id">>) = <<"users", "id">>
    OBVIOUS
  <2> QED BY <1>1, <1>2, <2>1, <2>2, AdminCall, Flags, ZenonT(30) DEF Refusals, KeyedOperations, Workable
<1>5. CallTo("auth", "PATCH", <<"admin", "users", "id">>, TRUE, FALSE) \in Workable("admin", key)
  <2>1. AuthAdminRoutes("PATCH", <<"users", "id">>) = "update user"
    BY DEF AuthAdminRoutes, Route
  <2>2. Head(<<"admin", "users", "id">>) = "admin" /\ <<"admin", "users", "id">>[2] = "users" /\ Tail(<<"admin", "users", "id">>) = <<"users", "id">>
    OBVIOUS
  <2> QED BY <1>1, <1>2, <2>1, <2>2, AdminCall, Flags, ZenonT(30) DEF Refusals, KeyedOperations, Workable
<1>6. CallTo("auth", "DELETE", <<"admin", "users", "id">>, TRUE, FALSE) \in Workable("admin", key)
  <2>1. AuthAdminRoutes("DELETE", <<"users", "id">>) = "delete user"
    BY DEF AuthAdminRoutes, Route
  <2>2. Head(<<"admin", "users", "id">>) = "admin" /\ <<"admin", "users", "id">>[2] = "users" /\ Tail(<<"admin", "users", "id">>) = <<"users", "id">>
    OBVIOUS
  <2> QED BY <1>1, <1>2, <2>1, <2>2, AdminCall, Flags DEF Refusals, KeyedOperations, Workable
<1>7. CallTo("auth", "POST", <<"admin", "users", "id", "disable">>, TRUE, FALSE) \in Workable("admin", key)
  <2>1. AuthAdminRoutes("POST", <<"users", "id", "disable">>) = "disable user"
    BY DEF AuthAdminRoutes, Route
  <2>2. Head(<<"admin", "users", "id", "disable">>) = "admin" /\ <<"admin", "users", "id", "disable">>[2] = "users" /\ Tail(<<"admin", "users", "id", "disable">>) = <<"users", "id", "disable">>
    OBVIOUS
  <2> QED BY <1>1, <1>2, <2>1, <2>2, AdminCall, Flags, ZenonT(30) DEF Refusals, KeyedOperations, Workable
<1>8. CallTo("auth", "POST", <<"admin", "users", "id", "enable">>, TRUE, FALSE) \in Workable("admin", key)
  <2>1. AuthAdminRoutes("POST", <<"users", "id", "enable">>) = "enable user"
    BY DEF AuthAdminRoutes, Route
  <2>2. Head(<<"admin", "users", "id", "enable">>) = "admin" /\ <<"admin", "users", "id", "enable">>[2] = "users" /\ Tail(<<"admin", "users", "id", "enable">>) = <<"users", "id", "enable">>
    OBVIOUS
  <2> QED BY <1>1, <1>2, <2>1, <2>2, AdminCall, Flags, ZenonT(30) DEF Refusals, KeyedOperations, Workable
<1>9. CallTo("auth", "GET", <<"admin", "audit-logs">>, TRUE, FALSE) \in Workable("admin", key)
  <2>1. AuthAdminRoutes("GET", <<"audit-logs">>) = "list audit log"
    BY DEF AuthAdminRoutes, Route
  <2>2. Head(<<"admin", "audit-logs">>) = "admin" /\ <<"admin", "audit-logs">>[2] = "audit-logs" /\ Tail(<<"admin", "audit-logs">>) = <<"audit-logs">>
    OBVIOUS
  <2> QED BY <1>1, <1>2, <2>1, <2>2, AdminCall, Flags, ZenonT(30) DEF Refusals, KeyedOperations, Workable
<1>10. CallTo("auth", "GET", <<"admin", "overview">>, TRUE, FALSE) \in Workable("admin", key)
  <2>1. AuthAdminRoutes("GET", <<"overview">>) = "overview"
    BY DEF AuthAdminRoutes, Route
  <2>2. Head(<<"admin", "overview">>) = "admin" /\ <<"admin", "overview">>[2] = "overview" /\ Tail(<<"admin", "overview">>) = <<"overview">>
    OBVIOUS
  <2> QED BY <1>1, <1>2, <2>1, <2>2, AdminCall, Flags DEF Refusals, KeyedOperations, Workable
<1> QED BY <1>3, <1>4, <1>5, <1>6, <1>7, <1>8, <1>9, <1>10 DEF AuthAdminClient

\* Every call of the client to the eval center (authclient).
LEMMA AuthEvalWorks ==
    ASSUME NEW key \in BOOLEAN
    PROVE  /\ AuthEvalClient(key).Overview \in Workable("admin", key)
           /\ AuthEvalClient(key).ListDatasets \in Workable("admin", key)
           /\ AuthEvalClient(key).CreateDataset \in Workable("admin", key)
           /\ AuthEvalClient(key).GetDataset \in Workable("admin", key)
           /\ AuthEvalClient(key).UpdateDataset \in Workable("admin", key)
           /\ AuthEvalClient(key).DeleteDataset \in Workable("admin", key)
           /\ AuthEvalClient(key).ListRuns \in Workable("admin", key)
           /\ key => AuthEvalClient(key).CreateRun \in Workable("admin", key)
           /\ AuthEvalClient(key).GetRun \in Workable("admin", key)
           /\ AuthEvalClient(key).CancelRun \in Workable("admin", key)
           /\ AuthEvalClient(key).PerQuery \in Workable("admin", key)
           /\ AuthEvalClient(key).Artifact \in Workable("admin", key)
<1>1. "DELETE" \in Methods /\ "GET" \in Methods /\ "PATCH" \in Methods /\ "POST" \in Methods
  BY DEF Methods
<1>2. /\ <<"admin", "evals", "datasets", "id">> \in Seq(Segments)
      /\ <<"admin", "evals", "datasets">> \in Seq(Segments)
      /\ <<"admin", "evals", "overview">> \in Seq(Segments)
      /\ <<"admin", "evals", "runs", "id", "artifacts", "id">> \in Seq(Segments)
      /\ <<"admin", "evals", "runs", "id", "cancel">> \in Seq(Segments)
      /\ <<"admin", "evals", "runs", "id", "per-query">> \in Seq(Segments)
      /\ <<"admin", "evals", "runs", "id">> \in Seq(Segments)
      /\ <<"admin", "evals", "runs">> \in Seq(Segments)
  BY DEF Segments
<1>3. CallTo("auth", "GET", <<"admin", "evals", "overview">>, TRUE, FALSE) \in Workable("admin", key)
  <2>1. AuthEvalRoutes("GET", <<"overview">>) = "eval overview"
    BY DEF AuthEvalRoutes, Route
  <2>2. Head(<<"admin", "evals", "overview">>) = "admin" /\ <<"admin", "evals", "overview">>[2] = "evals"
       /\ Tail(Tail(<<"admin", "evals", "overview">>)) = <<"overview">>
    OBVIOUS
  <2> QED BY <1>1, <1>2, <2>1, <2>2, EvalCall, Flags DEF Refusals, KeyedOperations
<1>4. CallTo("auth", "GET", <<"admin", "evals", "datasets">>, TRUE, FALSE) \in Workable("admin", key)
  <2>1. AuthEvalRoutes("GET", <<"datasets">>) = "list datasets"
    BY DEF AuthEvalRoutes, Route
  <2>2. Head(<<"admin", "evals", "datasets">>) = "admin" /\ <<"admin", "evals", "datasets">>[2] = "evals"
       /\ Tail(Tail(<<"admin", "evals", "datasets">>)) = <<"datasets">>
    OBVIOUS
  <2> QED BY <1>1, <1>2, <2>1, <2>2, EvalCall, Flags DEF Refusals, KeyedOperations
<1>5. CallTo("auth", "POST", <<"admin", "evals", "datasets">>, TRUE, FALSE) \in Workable("admin", key)
  <2>1. AuthEvalRoutes("POST", <<"datasets">>) = "create dataset"
    BY DEF AuthEvalRoutes, Route
  <2>2. Head(<<"admin", "evals", "datasets">>) = "admin" /\ <<"admin", "evals", "datasets">>[2] = "evals"
       /\ Tail(Tail(<<"admin", "evals", "datasets">>)) = <<"datasets">>
    OBVIOUS
  <2> QED BY <1>1, <1>2, <2>1, <2>2, EvalCall, Flags DEF Refusals, KeyedOperations
<1>6. CallTo("auth", "GET", <<"admin", "evals", "datasets", "id">>, TRUE, FALSE) \in Workable("admin", key)
  <2>1. AuthEvalRoutes("GET", <<"datasets", "id">>) = "get dataset"
    BY DEF AuthEvalRoutes, Route
  <2>2. Head(<<"admin", "evals", "datasets", "id">>) = "admin" /\ <<"admin", "evals", "datasets", "id">>[2] = "evals"
       /\ Tail(Tail(<<"admin", "evals", "datasets", "id">>)) = <<"datasets", "id">>
    OBVIOUS
  <2> QED BY <1>1, <1>2, <2>1, <2>2, EvalCall, Flags DEF Refusals, KeyedOperations
<1>7. CallTo("auth", "PATCH", <<"admin", "evals", "datasets", "id">>, TRUE, FALSE) \in Workable("admin", key)
  <2>1. AuthEvalRoutes("PATCH", <<"datasets", "id">>) = "update dataset"
    BY DEF AuthEvalRoutes, Route
  <2>2. Head(<<"admin", "evals", "datasets", "id">>) = "admin" /\ <<"admin", "evals", "datasets", "id">>[2] = "evals"
       /\ Tail(Tail(<<"admin", "evals", "datasets", "id">>)) = <<"datasets", "id">>
    OBVIOUS
  <2> QED BY <1>1, <1>2, <2>1, <2>2, EvalCall, Flags DEF Refusals, KeyedOperations
<1>8. CallTo("auth", "DELETE", <<"admin", "evals", "datasets", "id">>, TRUE, FALSE) \in Workable("admin", key)
  <2>1. AuthEvalRoutes("DELETE", <<"datasets", "id">>) = "delete dataset"
    BY DEF AuthEvalRoutes, Route
  <2>2. Head(<<"admin", "evals", "datasets", "id">>) = "admin" /\ <<"admin", "evals", "datasets", "id">>[2] = "evals"
       /\ Tail(Tail(<<"admin", "evals", "datasets", "id">>)) = <<"datasets", "id">>
    OBVIOUS
  <2> QED BY <1>1, <1>2, <2>1, <2>2, EvalCall, Flags DEF Refusals, KeyedOperations
<1>9. CallTo("auth", "GET", <<"admin", "evals", "runs">>, TRUE, FALSE) \in Workable("admin", key)
  <2>1. AuthEvalRoutes("GET", <<"runs">>) = "list runs"
    BY DEF AuthEvalRoutes, Route
  <2>2. Head(<<"admin", "evals", "runs">>) = "admin" /\ <<"admin", "evals", "runs">>[2] = "evals"
       /\ Tail(Tail(<<"admin", "evals", "runs">>)) = <<"runs">>
    OBVIOUS
  <2> QED BY <1>1, <1>2, <2>1, <2>2, EvalCall, Flags DEF Refusals, KeyedOperations
<1>10. key => CallTo("auth", "POST", <<"admin", "evals", "runs">>, TRUE, key) \in Workable("admin", key)
  <2>1. AuthEvalRoutes("POST", <<"runs">>) = "create run"
    BY DEF AuthEvalRoutes, Route
  <2>2. Head(<<"admin", "evals", "runs">>) = "admin" /\ <<"admin", "evals", "runs">>[2] = "evals"
       /\ Tail(Tail(<<"admin", "evals", "runs">>)) = <<"runs">>
    OBVIOUS
  <2> QED BY <1>1, <1>2, <2>1, <2>2, EvalCall, Flags DEF Refusals, KeyedOperations
<1>11. CallTo("auth", "GET", <<"admin", "evals", "runs", "id">>, TRUE, FALSE) \in Workable("admin", key)
  <2>1. AuthEvalRoutes("GET", <<"runs", "id">>) = "get run"
    BY DEF AuthEvalRoutes, Route
  <2>2. Head(<<"admin", "evals", "runs", "id">>) = "admin" /\ <<"admin", "evals", "runs", "id">>[2] = "evals"
       /\ Tail(Tail(<<"admin", "evals", "runs", "id">>)) = <<"runs", "id">>
    OBVIOUS
  <2> QED BY <1>1, <1>2, <2>1, <2>2, EvalCall, Flags DEF Refusals, KeyedOperations
<1>12. CallTo("auth", "POST", <<"admin", "evals", "runs", "id", "cancel">>, TRUE, FALSE) \in Workable("admin", key)
  <2>1. AuthEvalRoutes("POST", <<"runs", "id", "cancel">>) = "cancel run"
    BY DEF AuthEvalRoutes, Route
  <2>2. Head(<<"admin", "evals", "runs", "id", "cancel">>) = "admin" /\ <<"admin", "evals", "runs", "id", "cancel">>[2] = "evals"
       /\ Tail(Tail(<<"admin", "evals", "runs", "id", "cancel">>)) = <<"runs", "id", "cancel">>
    OBVIOUS
  <2> QED BY <1>1, <1>2, <2>1, <2>2, EvalCall, Flags DEF Refusals, KeyedOperations
<1>13. CallTo("auth", "GET", <<"admin", "evals", "runs", "id", "per-query">>, TRUE, FALSE) \in Workable("admin", key)
  <2>1. AuthEvalRoutes("GET", <<"runs", "id", "per-query">>) = "per query"
    BY DEF AuthEvalRoutes, Route
  <2>2. Head(<<"admin", "evals", "runs", "id", "per-query">>) = "admin" /\ <<"admin", "evals", "runs", "id", "per-query">>[2] = "evals"
       /\ Tail(Tail(<<"admin", "evals", "runs", "id", "per-query">>)) = <<"runs", "id", "per-query">>
    OBVIOUS
  <2> QED BY <1>1, <1>2, <2>1, <2>2, EvalCall, Flags DEF Refusals, KeyedOperations
<1>14. CallTo("auth", "GET", <<"admin", "evals", "runs", "id", "artifacts", "id">>, TRUE, FALSE) \in Workable("admin", key)
  <2>1. AuthEvalRoutes("GET", <<"runs", "id", "artifacts", "id">>) = "artifact"
    BY DEF AuthEvalRoutes, Route
  <2>2. Head(<<"admin", "evals", "runs", "id", "artifacts", "id">>) = "admin" /\ <<"admin", "evals", "runs", "id", "artifacts", "id">>[2] = "evals"
       /\ Tail(Tail(<<"admin", "evals", "runs", "id", "artifacts", "id">>)) = <<"runs", "id", "artifacts", "id">>
    OBVIOUS
  <2> QED BY <1>1, <1>2, <2>1, <2>2, EvalCall, Flags DEF Refusals, KeyedOperations
<1> QED BY <1>3, <1>4, <1>5, <1>6, <1>7, <1>8, <1>9, <1>10, <1>11, <1>12, <1>13, <1>14 DEF AuthEvalClient

\* Every call of the client of the book service (bookclient); those that the service does once
\* per key, with a key.
LEMMA BookWorks ==
    ASSUME NEW session \in {"user", "admin"}, NEW key \in BOOLEAN
    PROVE  /\ key => BookClient(key).UploadBook \in Workable(session, key)
           /\ BookClient(key).ListBooks \in Workable(session, key)
           /\ BookClient(key).UpdateBook \in Workable(session, key)
           /\ BookClient(key).GetBook \in Workable(session, key)
           /\ BookClient(key).DeleteBook \in Workable(session, key)
           /\ key => BookClient(key).ReprocessBook \in Workable(session, key)
           /\ BookClient(key).IndexStatus \in Workable(session, key)
           /\ key => BookClient(key).RepairBookIndex \in Workable(session, key)
           /\ BookClient(key).GetDownloadURL \in Workable(session, key)
<1>1. "DELETE" \in Methods /\ "GET" \in Methods /\ "PATCH" \in Methods /\ "POST" \in Methods
  BY DEF Methods
<1>2. /\ <<"books", "id", "download">> \in Seq(Segments)
      /\ <<"books", "id", "index-status">> \in Seq(Segments)
      /\ <<"books", "id", "repair-index">> \in Seq(Segments)
      /\ <<"books", "id", "reprocess">> \in Seq(Segments)
      /\ <<"books", "id">> \in Seq(Segments)
      /\ <<"books">> \in Seq(Segments)
  BY DEF Segments
<1>3. key => CallTo("book", "POST", <<"books">>, TRUE, key) \in Workable(session, key)
  <2>1. BookRoutes("POST", <<"books">>) = "upload book"
    BY DEF BookRoutes, Route
  <2> QED BY <1>1, <1>2, <2>1, BookCall, Flags DEF Refusals, KeyedOperations
<1>4. CallTo("book", "GET", <<"books">>, TRUE, FALSE) \in Workable(session, key)
  <2>1. BookRoutes("GET", <<"books">>) = "list books"
    BY DEF BookRoutes, Route
  <2> QED BY <1>1, <1>2, <2>1, BookCall, Flags DEF Refusals, KeyedOperations
<1>5. CallTo("book", "PATCH", <<"books", "id">>, TRUE, FALSE) \in Workable(session, key)
  <2>1. BookRoutes("PATCH", <<"books", "id">>) = "update book"
    BY DEF BookRoutes, Route
  <2> QED BY <1>1, <1>2, <2>1, BookCall, Flags DEF Refusals, KeyedOperations
<1>6. CallTo("book", "GET", <<"books", "id">>, TRUE, FALSE) \in Workable(session, key)
  <2>1. BookRoutes("GET", <<"books", "id">>) = "get book"
    BY DEF BookRoutes, Route
  <2> QED BY <1>1, <1>2, <2>1, BookCall, Flags DEF Refusals, KeyedOperations
<1>7. CallTo("book", "DELETE", <<"books", "id">>, TRUE, FALSE) \in Workable(session, key)
  <2>1. BookRoutes("DELETE", <<"books", "id">>) = "delete book"
    BY DEF BookRoutes, Route
  <2> QED BY <1>1, <1>2, <2>1, BookCall, Flags DEF Refusals, KeyedOperations
<1>8. key => CallTo("book", "POST", <<"books", "id", "reprocess">>, TRUE, key) \in Workable(session, key)
  <2>1. BookRoutes("POST", <<"books", "id", "reprocess">>) = "reprocess book"
    BY DEF BookRoutes, Route
  <2> QED BY <1>1, <1>2, <2>1, BookCall, Flags DEF Refusals, KeyedOperations
<1>9. CallTo("book", "GET", <<"books", "id", "index-status">>, TRUE, FALSE) \in Workable(session, key)
  <2>1. BookRoutes("GET", <<"books", "id", "index-status">>) = "index status"
    BY DEF BookRoutes, Route
  <2> QED BY <1>1, <1>2, <2>1, BookCall, Flags DEF Refusals, KeyedOperations
<1>10. key => CallTo("book", "POST", <<"books", "id", "repair-index">>, TRUE, key) \in Workable(session, key)
  <2>1. BookRoutes("POST", <<"books", "id", "repair-index">>) = "repair index"
    BY DEF BookRoutes, Route
  <2> QED BY <1>1, <1>2, <2>1, BookCall, Flags DEF Refusals, KeyedOperations
<1>11. CallTo("book", "GET", <<"books", "id", "download">>, TRUE, FALSE) \in Workable(session, key)
  <2>1. BookRoutes("GET", <<"books", "id", "download">>) = "download url"
    BY DEF BookRoutes, Route
  <2> QED BY <1>1, <1>2, <2>1, BookCall, Flags DEF Refusals, KeyedOperations
<1> QED BY <1>3, <1>4, <1>5, <1>6, <1>7, <1>8, <1>9, <1>10, <1>11 DEF BookClient

\* Every call of the client of the chat service (chatclient).
LEMMA ChatWorks ==
    ASSUME NEW session \in {"user", "admin"}, NEW key \in BOOLEAN
    PROVE  /\ ChatClient(key).AskQuestion \in Workable(session, key)
           /\ ChatClient(key).ListConversations \in Workable(session, key)
           /\ ChatClient(key).ListMessages \in Workable(session, key)
           /\ ChatClient(key).RenameConversation \in Workable(session, key)
           /\ ChatClient(key).DeleteConversation \in Workable(session, key)
<1>1. "DELETE" \in Methods /\ "GET" \in Methods /\ "PATCH" \in Methods /\ "POST" \in Methods
  BY DEF Methods
<1>2. /\ <<"chats">> \in Seq(Segments)
      /\ <<"conversations", "id", "messages">> \in Seq(Segments)
      /\ <<"conversations", "id">> \in Seq(Segments)
      /\ <<"conversations">> \in Seq(Segments)
  BY DEF Segments
<1>3. CallTo("chat", "POST", <<"chats">>, TRUE, key) \in Workable(session, key)
  <2>1. ChatRoutes("POST", <<"chats">>) = "ask question"
    BY DEF ChatRoutes, Route
  <2> QED BY <1>1, <1>2, <2>1, ChatCall, Flags DEF Refusals, KeyedOperations
<1>4. CallTo("chat", "GET", <<"conversations">>, TRUE, FALSE) \in Workable(session, key)
  <2>1. ChatRoutes("GET", <<"conversations">>) = "list conversations"
    BY DEF ChatRoutes, Route
  <2> QED BY <1>1, <1>2, <2>1, ChatCall, Flags DEF Refusals, KeyedOperations
<1>5. CallTo("chat", "GET", <<"conversations", "id", "messages">>, TRUE, FALSE) \in Workable(session, key)
  <2>1. ChatRoutes("GET", <<"conversations", "id", "messages">>) = "list messages"
    BY DEF ChatRoutes, Route
  <2> QED BY <1>1, <1>2, <2>1, ChatCall, Flags DEF Refusals, KeyedOperations
<1>6. CallTo("chat", "PATCH", <<"conversations", "id">>, TRUE, FALSE) \in Workable(session, key)
  <2>1. ChatRoutes("PATCH", <<"conversations", "id">>) = "rename conversation"
    BY DEF ChatRoutes, Route
  <2> QED BY <1>1, <1>2, <2>1, ChatCall, Flags DEF Refusals, KeyedOperations
<1>7. CallTo("chat", "DELETE", <<"conversations", "id">>, TRUE, FALSE) \in Workable(session, key)
  <2>1. ChatRoutes("DELETE", <<"conversations", "id">>) = "delete conversation"
    BY DEF ChatRoutes, Route
  <2> QED BY <1>1, <1>2, <2>1, ChatCall, Flags DEF Refusals, KeyedOperations
<1> QED BY <1>3, <1>4, <1>5, <1>6, <1>7 DEF ChatClient

-----------------------------------------------------------------------------
(* Replies *)

\* What a sequence is of may be widened.
LEMMA Widened ==
    ASSUME NEW W, NEW S, W \subseteq S, NEW s \in Seq(W)
    PROVE  s \in Seq(S)
OBVIOUS

\* Calls that may be made anywhere are a proper reply.
LEMMA WorkProper ==
    ASSUME NEW session, NEW key, NEW calls \in Seq(Workable(session, key))
    PROVE  Proper(calls, session, key)
<1>1. calls \in Seq(Calls)
  BY Widened DEF Workable
<1>2. \A i \in 1 .. Len(calls) : calls[i] \in Workable(session, key)
  OBVIOUS
<1> QED BY <1>1, <1>2 DEF Proper, Workable

\* So are they with the audit log at their end (Logged), for an administrator.
LEMMA LoggedProper ==
    ASSUME NEW key \in BOOLEAN, NEW calls \in Seq(Workable("admin", key))
    PROVE  Proper(Logged(calls), "admin", key)
<1> DEFINE a == AuthAdminClient.CreateAuditLog
           p == <<"admin", "audit-logs">>
<1>1. a = CallTo("auth", "POST", p, TRUE, FALSE)
  BY DEF AuthAdminClient
<1>2. AuthAdminRoutes("POST", <<"audit-logs">>) = "write audit log"
  BY DEF AuthAdminRoutes, Route
<1>3. "POST" \in Methods /\ p \in Seq(Segments)
  BY DEF Methods, Segments
<1>4. Head(p) = "admin" /\ p[2] = "audit-logs" /\ Tail(p) = <<"audit-logs">>
  OBVIOUS
<1> HIDE DEF p
<1>5. a \in Calls /\ Lands(a, "admin", key)
  BY <1>1, <1>2, <1>3, <1>4, AdminCall DEF Refusals, KeyedOperations
<1> HIDE DEF a
<1>0. Workable("admin", key) \subseteq Calls
  BY DEF Workable
<1>6. calls \in Seq(Calls) /\ \A i \in 1 .. Len(calls) : calls[i] \in Workable("admin", key)
  BY <1>0, Widened
<1>7. Append(calls, a) \in Seq(Calls) /\ Len(Append(calls, a)) = Len(calls) + 1
  BY <1>5, <1>6
<1>8. ASSUME NEW i \in 1 .. Len(calls) + 1
      PROVE  /\ Lands(Append(calls, a)[i], "admin", key)
             /\ ServiceRoutes(Append(calls, a)[i], "admin") = "write audit log" => i = Len(calls) + 1
  <2>1. CASE i = Len(calls) + 1
    <3>1. Append(calls, a)[i] = a
      BY <2>1, <1>6
    <3> QED BY <2>1, <3>1, <1>5
  <2>2. CASE i # Len(calls) + 1
    <3>1. i \in 1 .. Len(calls) /\ Append(calls, a)[i] = calls[i]
      BY <2>2, <1>6
    <3> QED BY <3>1, <1>6 DEF Workable
  <2> QED BY <2>1, <2>2
<1>9. Proper(Append(calls, a), "admin", key)
  BY <1>7, <1>8 DEF Proper
<1> QED BY <1>9 DEF Logged, a

\* A refusal makes no call; what is only for one method is proper if its calls are.
LEMMA Replies ==
    ASSUME NEW session, NEW key
    PROVE  /\ \A status \in Nat \ {0} : ProperReply(Refused(status), session, key)
           /\ \A calls : Proper(calls, session, key) => ProperReply(Forward(calls), session, key)
           /\ \A calls, m, method : Proper(calls, session, key) => ProperReply(Only(m, method, calls), session, key)
<1>1. Proper(<<>>, session, key)
  BY DEF Proper
<1>2. \A status \in Nat \ {0} : ProperReply(Refused(status), session, key)
  BY <1>1 DEF ProperReply, Refused, Proper
<1>3. \A calls : Proper(calls, session, key) => ProperReply(Forward(calls), session, key)
  <2> SUFFICES ASSUME NEW calls, Proper(calls, session, key)
               PROVE  ProperReply(Forward(calls), session, key)
    OBVIOUS
  <2>1. calls \in Seq(Calls)
    BY DEF Proper
  <2>2. Forward(calls) \in [status: Nat \ {0}, calls: Seq(Calls)] /\ Forward(calls).calls = calls
    BY <2>1 DEF Forward
  <2> QED BY <2>2 DEF ProperReply
<1> QED BY <1>2, <1>3 DEF Only

\* Of up to four calls that may be made anywhere.
LEMMA FewCalls ==
    ASSUME NEW W
    PROVE  /\ <<>> \in Seq(W)
           /\ \A c \in W : <<c>> \in Seq(W)
           /\ \A c, d \in W : <<c, d>> \in Seq(W)
           /\ \A c, d, e, f \in W : <<c, d, e, f>> \in Seq(W)
OBVIOUS

\* The reply to one call, with and without the audit log.
LEMMA OneCall ==
    ASSUME NEW session, NEW key \in BOOLEAN, NEW c \in Workable(session, key)
    PROVE  /\ Proper(<<c>>, session, key)
           /\ session = "admin" => Proper(Logged(<<c>>), session, key)
BY FewCalls, WorkProper, LoggedProper

\* A refusal after calls that may be made anywhere is proper.
LEMMA LateRefusal ==
    ASSUME NEW session, NEW key, NEW status \in Nat \ {0}, NEW calls \in Seq(Workable(session, key))
    PROVE  ProperReply([Refused(status) EXCEPT !.calls = calls], session, key)
<1>1. Proper(calls, session, key)
  BY WorkProper
<1>2. calls \in Seq(Calls)
  BY <1>1 DEF Proper
<1>3. [Refused(status) EXCEPT !.calls = calls] = [status |-> status, calls |-> calls]
  BY DEF Refused
<1> QED BY <1>1, <1>2, <1>3 DEF ProperReply

\* The session is resolved before anything else (authenticated).
LEMMA SessionFirst ==
    ASSUME NEW q \in ApiRequests, NEW r, q.session # "none" => ProperReply(r, q.session, q.key)
    PROVE  ProperReply(authenticated(q, r), q.session, q.key)
<1> DEFINE session == q.session
           key == q.key
<1>0. session \in Sessions /\ key \in BOOLEAN
  BY DEF ApiRequests
<1>1. CASE session = "none"
  BY <1>1, Replies DEF authenticated
<1>2. CASE session # "none"
  <2> DEFINE me == SessionCall(q)
             calls == <<me>> \o r.calls
  <2>0. authenticated(q, r) = [r EXCEPT !.calls = calls]
    BY <1>2 DEF authenticated
  <2>a. ProperReply(r, session, key)
    BY <1>2
  <2> HIDE DEF session, key
  <2>1. session \in {"user", "admin"}
    BY <1>0, <1>2 DEF Sessions
  <2>2. me \in Workable(session, key)
    BY <1>0, <2>1, AuthUserWorks, AuthPublicWorks DEF SessionCall
  <2> HIDE DEF me
  <2>3. r \in [status: Nat \ {0}, calls: Seq(Calls)] /\ Proper(r.calls, session, key)
    BY <2>a DEF ProperReply
  <2>4. me \in Calls /\ r.calls \in Seq(Calls)
    BY <2>2, <2>3 DEF Workable
  <2>9. <<me>> \in Seq(Calls) /\ Len(<<me>>) = 1 /\ <<me>>[1] = me
    BY <2>4
  <2>5. /\ calls \in Seq(Calls)
        /\ Len(calls) = Len(r.calls) + 1
        /\ \A i \in 1 .. Len(r.calls) + 1 : calls[i] = IF i <= 1 THEN me ELSE r.calls[i - 1]
    BY <2>4, <2>9, ConcatProperties
  <2> HIDE DEF calls
  <2>6. ASSUME NEW i \in 1 .. Len(calls)
        PROVE  /\ Lands(calls[i], session, key)
               /\ ServiceRoutes(calls[i], session) = "write audit log" => i = Len(calls)
    <3>1. CASE i = 1
      <4>1. calls[i] = me
        BY <3>1, <2>5
      <4> QED BY <4>1, <2>2 DEF Workable
    <3>2. CASE i # 1
      <4>1. i - 1 \in 1 .. Len(r.calls) /\ calls[i] = r.calls[i - 1]
        BY <3>2, <2>4, <2>5
      <4>2. /\ Lands(r.calls[i - 1], session, key)
            /\ ServiceRoutes(r.calls[i - 1], session) = "write audit log" => i - 1 = Len(r.calls)
        BY <4>1, <2>3 DEF Proper
      <4>3. i - 1 = Len(r.calls) => i = Len(calls)
        BY <2>4, <2>5
      <4> QED BY <4>1, <4>2, <4>3
    <3> QED BY <3>1, <3>2
  <2>7. Proper(calls, session, key)
    BY <2>5, <2>6 DEF Proper
  <2>8. ProperReply(authenticated(q, r), session, key)
    BY <2>0, <2>3, <2>5, <2>7 DEF ProperReply
  <2> QED BY <2>8 DEF session, key
<1> QED BY <1>1, <1>2

-----------------------------------------------------------------------------
(* Handlers of the gateway *)

\* The public auth routes of the gateway (gateway server.go).
LEMMA AuthHandlers ==
    ASSUME NEW q \in ApiRequests, NEW p
    PROVE  ProperReply(GatewayAuth(q, p), q.session, q.key)
<1> DEFINE session == q.session
           key == q.key
           m == q.method
<1>0. q.access \in BOOLEAN /\ key \in BOOLEAN
  BY DEF ApiRequests
<1> HIDE DEF session, key, m
<1>1. Logout(q.access) \in Workable(session, key)
  <2>1. "POST" \in Methods /\ <<"logout">> \in Seq(Segments)
    BY DEF Methods, Segments
  <2>2. AuthPublicRoutes("POST", <<"logout">>) = "logout"
    BY DEF AuthPublicRoutes, Route
  <2>3. Head(<<"logout">>) = "logout"
    OBVIOUS
  <2>4. CallTo("auth", "POST", <<"logout">>, TRUE, FALSE) \in Workable(session, key)
    BY <1>0, <2>1, <2>2, <2>3, PublicCall, Flags DEF Refusals, KeyedOperations
  <2>5. Logout(FALSE) \in Workable(session, key)
    <3> DEFINE c == Logout(FALSE)
    <3>1. c \in Calls
      <4>1. "auth" \in Services
        BY DEF Services
      <4> QED BY <4>1, <2>1, CallTyped, Flags DEF Logout
    <3>2. c.service = "auth" /\ c.method = "POST" /\ c.path = <<"logout">> /\ c.token = FALSE
      BY DEF Logout, CallTo
    <3> HIDE DEF c
    <3>3. ServiceRoutes(c, session) = "401"
      <4>1. /\ c.service = "auth" /\ ~ c.token /\ Head(c.path) = "logout"
            /\ AuthPublicRoutes(c.method, c.path) = "logout"
        BY <2>2, <2>3, <3>2
      <4> QED BY ONLY <4>1 DEF ServiceRoutes, KeyedOperations
    <3>4. c \in Workable(session, key)
      BY <3>1, <3>3 DEF Workable, Lands, KeyedOperations, c
    <3> QED BY <3>4 DEF c
  <2> QED BY <1>0, <2>4, <2>5 DEF Logout
<1>2. AuthUserClient.JWKS \in Workable(session, key)
  <2>1. "GET" \in Methods /\ <<"jwks">> \in Seq(Segments)
    BY DEF Methods, Segments
  <2>2. AuthPublicRoutes("GET", <<"jwks">>) = "keys"
    BY DEF AuthPublicRoutes, Route
  <2>3. Head(<<"jwks">>) = "jwks"
    OBVIOUS
  <2>4. CallTo("auth", "GET", <<"jwks">>, FALSE, FALSE) \in Workable(session, key)
    BY <1>0, <2>1, <2>2, <2>3, PublicCall, Flags DEF Refusals, KeyedOperations
  <2> QED BY <2>4 DEF AuthUserClient
<1> DEFINE C == AuthPublicClient
<1>3. /\ \A c \in {C.SignUpComplete, C.Login, C.LoginMethods, C.VerificationSend, C.VerificationVerify,
                    C.PasswordResetVerify, C.PasswordResetComplete, C.Refresh, C.OAuthComplete, Logout(q.access),
                    AuthUserClient.JWKS} :
            \A method : ProperReply(Only(m, method, <<c>>), session, key)
  BY <1>0, <1>1, <1>2, AuthPublicWorks, OneCall, Replies
<1>4. \A method : ProperReply(Only(m, method, <<>>), session, key)
  BY FewCalls, WorkProper, Replies
<1>5. ProperReply(Refused(404), session, key) /\ ProperReply(Refused(401), session, key)
  BY Replies
<1>6. ProperReply(GatewayAuth(q, p), session, key)
  BY <1>3, <1>4, <1>5 DEF GatewayAuth, m, session
<1> QED BY <1>6 DEF session, key

\* A reply of one call that may be made anywhere, with and without the audit log.
LEMMA OneCallReply ==
    ASSUME NEW session, NEW key \in BOOLEAN, NEW c \in Workable(session, key)
    PROVE  /\ ProperReply(Forward(<<c>>), session, key)
           /\ \A m, method : ProperReply(Only(m, method, <<c>>), session, key)
           /\ session = "admin" => ProperReply(Forward(Logged(<<c>>)), session, key)
           /\ session = "admin" => \A m, method : ProperReply(Only(m, method, Logged(<<c>>)), session, key)
BY OneCall, Replies

\* The routes of the users (gateway server.go).
LEMMA UserHandlers ==
    ASSUME NEW session \in {"user", "admin"}, NEW key \in BOOLEAN, NEW m, NEW p
    PROVE  ProperReply(GatewayUsers(m, p), session, key)
<1>1. ProperReply(Forward(<<>>), session, key)
  BY FewCalls, WorkProper, Replies
<1>2. ProperReply(Refused(404), session, key) /\ ProperReply(Refused(405), session, key)
  BY Replies
<1> QED BY <1>1, <1>2, AuthUserWorks, OneCallReply DEF GatewayUsers

\* The routes of the books: what is done once per key is refused without one.
LEMMA BookHandlers ==
    ASSUME NEW session \in {"user", "admin"}, NEW key \in BOOLEAN, NEW m, NEW p
    PROVE  ProperReply(GatewayBooks(m, p, key), session, key)
<1>1. /\ ProperReply(Refused(400), session, key)
      /\ ProperReply(Refused(404), session, key)
      /\ ProperReply(Refused(405), session, key)
  BY Replies
<1> QED BY <1>1, BookWorks, OneCallReply DEF GatewayBooks

\* The routes of questions and of conversations.
LEMMA ChatHandlers ==
    ASSUME NEW session \in {"user", "admin"}, NEW key \in BOOLEAN, NEW m, NEW p
    PROVE  /\ ProperReply(GatewayChats(m, p, key), session, key)
           /\ ProperReply(GatewayConversations(m, p), session, key)
<1>1. ProperReply(Refused(404), session, key)
  BY Replies
<1>2. ProperReply(GatewayChats(m, p, key), session, key)
  BY <1>1, ChatWorks, OneCallReply DEF GatewayChats
<1> DEFINE C == ChatClient(FALSE)
<1>3. /\ C.ListConversations \in Workable(session, key)
      /\ C.RenameConversation \in Workable(session, key)
      /\ C.DeleteConversation \in Workable(session, key)
      /\ C.ListMessages \in Workable(session, key)
  BY ChatWorks DEF ChatClient
<1>4. ProperReply(GatewayConversations(m, p), session, key)
  BY <1>1, <1>3, OneCallReply, ZenonT(30) DEF GatewayConversations
<1> QED BY <1>2, <1>4

\* The administration of users: the log comes after the calls of an operation.
LEMMA AdminUserHandlers ==
    ASSUME NEW key \in BOOLEAN, NEW m, NEW p
    PROVE  ProperReply(GatewayAdminUsers(m, p), "admin", key)
<1> DEFINE C == AuthAdminClient
           B == BookClient(FALSE)
           W == Workable("admin", key)
<1>1. /\ ProperReply(Refused(404), "admin", key)
      /\ ProperReply(Refused(405), "admin", key)
  BY Replies
<1>2. B.ListBooks \in W /\ B.DeleteBook \in W
  BY BookWorks DEF BookClient
<1>3. C.ListUsers \in W /\ C.GetUser \in W /\ C.DeleteUser \in W /\ C.UpdateUser \in W /\ C.DisableUser \in W
      /\ C.EnableUser \in W
  BY AuthAdminWorks
<1>4. ProperReply(Forward(Logged(<<C.GetUser, B.ListBooks, B.DeleteBook, C.DeleteUser>>)), "admin", key)
  BY <1>2, <1>3, FewCalls, LoggedProper, Replies
<1>5. \A c \in {C.UpdateUser, C.DisableUser, C.EnableUser} : \A method :
          ProperReply(Only(m, method, Logged(<<C.GetUser, c>>)), "admin", key)
  BY <1>3, FewCalls, LoggedProper, Replies
<1> QED BY <1>1, <1>3, <1>4, <1>5, OneCallReply, ZenonT(30) DEF GatewayAdminUsers

\* The administration of books: repeated and repaired with a key only.
LEMMA AdminBookHandlers ==
    ASSUME NEW key \in BOOLEAN, NEW m, NEW p
    PROVE  ProperReply(GatewayAdminBooks(m, p, key), "admin", key)
<1> DEFINE C == BookClient(key)
           W == Workable("admin", key)
<1>0. ProperReply([Refused(400) EXCEPT !.calls = <<C.GetBook>>], "admin", key)
  <2>1. C.GetBook \in W
    BY BookWorks
  <2> HIDE DEF C, W
  <2>2. <<C.GetBook>> \in Seq(W)
    BY <2>1
  <2> QED BY <2>2, LateRefusal, 400 \in Nat \ {0} DEF W
<1>1. /\ ProperReply(Refused(404), "admin", key)
      /\ ProperReply(Refused(405), "admin", key)
  BY Replies
<1>2. /\ C.ListBooks \in W /\ C.GetBook \in W /\ C.DeleteBook \in W /\ C.IndexStatus \in W
      /\ key => C.ReprocessBook \in W
      /\ key => C.RepairBookIndex \in W
  BY BookWorks
<1>3. \A method : ProperReply(Only(m, method, Logged(<<C.GetBook, C.DeleteBook>>)), "admin", key)
  BY <1>2, FewCalls, LoggedProper, Replies
<1>4. /\ key => ProperReply(Forward(Logged(<<C.GetBook, C.ReprocessBook>>)), "admin", key)
      /\ key => ProperReply(Forward(Logged(<<C.GetBook, C.RepairBookIndex>>)), "admin", key)
  BY <1>2, FewCalls, LoggedProper, Replies
<1> QED BY <1>0, <1>1, <1>2, <1>3, <1>4, OneCallReply DEF GatewayAdminBooks

\* The eval center: a run is created with a key only (server_evals.go of the gateway).
LEMMA EvalHandlers ==
    ASSUME NEW key \in BOOLEAN, NEW m, NEW p
    PROVE  ProperReply(GatewayEvals(m, p, key), "admin", key)
<1>1. /\ ProperReply(Refused(400), "admin", key)
      /\ ProperReply(Refused(404), "admin", key)
  BY Replies
<1> QED BY <1>1, AuthEvalWorks, OneCallReply DEF GatewayEvals

\* Everything behind adminOnly.
LEMMA AdminHandlers ==
    ASSUME NEW key \in BOOLEAN, NEW m, NEW p
    PROVE  ProperReply(GatewayAdmin(m, p, key), "admin", key)
<1>1. ProperReply(Refused(404), "admin", key)
  BY Replies
<1>2. /\ \A method : ProperReply(Only(m, method, <<AuthAdminClient.ListAuditLogs>>), "admin", key)
      /\ \A method : ProperReply(Only(m, method, <<AuthAdminClient.Overview>>), "admin", key)
  BY AuthAdminWorks, OneCallReply
<1> QED BY <1>1, <1>2, AdminUserHandlers, AdminBookHandlers, EvalHandlers DEF GatewayAdmin

\* Whatever the request, the gateway replies with calls that land.
LEMMA GatewayReplies ==
    ASSUME NEW q \in ApiRequests
    PROVE  ProperReply(GatewayRoutes(q), q.session, q.key)
<1> DEFINE m == q.method
           session == q.session
           key == q.key
           rest == IF q.path = <<>> THEN <<>> ELSE Tail(q.path)
<1>1. session \in Sessions /\ key \in BOOLEAN
  BY DEF ApiRequests
<1>2. ProperReply(Refused(404), session, key)
  BY Replies
<1>3. ProperReply(GatewayAuth(q, rest), session, key)
  BY AuthHandlers
<1>4. \A r : (session # "none" => ProperReply(r, session, key)) => ProperReply(authenticated(q, r), session, key)
  BY SessionFirst
<1>5. session # "none" => session \in {"user", "admin"}
  BY <1>1 DEF Sessions
<1> HIDE DEF m, session, key, rest
<1>6. /\ ProperReply(authenticated(q, GatewayUsers(m, rest)), session, key)
      /\ ProperReply(authenticated(q, GatewayBooks(m, rest, key)), session, key)
      /\ ProperReply(authenticated(q, GatewayChats(m, rest, key)), session, key)
      /\ ProperReply(authenticated(q, GatewayConversations(m, rest)), session, key)
  BY <1>1, <1>4, <1>5, UserHandlers, BookHandlers, ChatHandlers
<1>7. ProperReply(adminRoute(q, GatewayAdmin(m, rest, key)), session, key)
  <2> DEFINE r == IF session = "user" THEN Refused(403) ELSE GatewayAdmin(m, rest, key)
  <2>1. ProperReply(Refused(403), session, key)
    BY Replies
  <2>2. session # "none" => ProperReply(r, session, key)
    BY <1>1, <1>5, <2>1, AdminHandlers
  <2>3. adminRoute(q, GatewayAdmin(m, rest, key)) = authenticated(q, r)
    BY DEF adminRoute, session
  <2> QED BY <1>4, <2>2, <2>3
<1> QED BY <1>2, <1>3, <1>6, <1>7 DEF GatewayRoutes, m, session, key, rest

-----------------------------------------------------------------------------
(* Calls as they are made *)

Landings == {[call |-> c, op |-> ServiceRoutes(c, session)] : c \in Calls, session \in Sessions}

\* What a call lands in.
LEMMA LandingTyped ==
    ASSUME NEW c \in Calls, NEW session \in Sessions
    PROVE  [call |-> c, op |-> ServiceRoutes(c, session)] \in Landings
<1>1. \E d \in Calls, s \in Sessions :
          [call |-> c, op |-> ServiceRoutes(c, session)] = [call |-> d, op |-> ServiceRoutes(d, s)]
  OBVIOUS
<1> QED BY <1>1 DEF Landings

\* What has landed is as CallsLand says, and what is still to be made is proper.
LandingInvariant ==
    /\ api \in ApiRequests
    /\ reply \in [status: Nat, calls: Seq(Calls)]
    /\ Proper(reply.calls, api.session, api.key)
    /\ landed \in Seq(Landings)
    /\ reply.status = 0 => reply.calls = <<>> /\ landed = <<>>
    /\ \A i \in 1 .. Len(landed) :
          /\ landed[i].op \in Refusals => landed[i].call = Logout(FALSE)
          /\ landed[i].op \in KeyedOperations => landed[i].call.key = api.key
          /\ landed[i].op = "write audit log" => i = Len(landed) /\ reply.calls = <<>>

\* The invariant implies that the calls land.
LEMMA LandingImpliesCallsLand == LandingInvariant => CallsLand
<1> SUFFICES ASSUME LandingInvariant
             PROVE  CallsLand
  OBVIOUS
<1>0. landed \in Seq(Landings)
  BY DEF LandingInvariant
<1>1. DOMAIN landed = 1 .. Len(landed)
  BY <1>0
<1> QED BY <1>1 DEF LandingInvariant, CallsLand, RoutesAgree, KeyReachesService, Refusals

\* Nothing is left of one call.
LEMMA LastTaken ==
    ASSUME NEW S, NEW s \in Seq(S), Len(s) = 1
    PROVE  Tail(s) = <<>>
<1> DEFINE r == Tail(s)
<1>1. s # <<>>
  OBVIOUS
<1>2. r \in Seq(S) /\ Len(r) = Len(s) - 1
  BY <1>1, HeadTailProperties
<1>3. Len(r) = 0
  BY <1>2
<1> HIDE DEF r
<1>4. r # <<>> => Len(r) \in Nat \ {0}
  BY <1>2, EmptySeq
<1>5. r = <<>>
  BY <1>3, <1>4
<1> QED BY <1>5 DEF r

\* One call of a proper reply is made; the rest is proper.
LEMMA OneLess ==
    ASSUME NEW session, NEW key, NEW calls, Proper(calls, session, key), calls # <<>>
    PROVE  /\ Head(calls) \in Calls
           /\ Lands(Head(calls), session, key)
           /\ ServiceRoutes(Head(calls), session) = "write audit log" => Tail(calls) = <<>>
           /\ Proper(Tail(calls), session, key)
<1> DEFINE rest == Tail(calls)
<1>1. calls \in Seq(Calls)
  BY DEF Proper
<1>2. Len(calls) \in Nat \ {0} /\ Head(calls) = calls[1] /\ 1 \in 1 .. Len(calls)
  BY <1>1
<1>3. /\ Head(calls) \in Calls
      /\ rest \in Seq(Calls)
      /\ Len(rest) = Len(calls) - 1
      /\ \A i \in 1 .. Len(rest) : rest[i] = calls[i + 1]
  BY <1>1, HeadTailProperties
<1> HIDE DEF rest
<1>4. /\ Lands(calls[1], session, key)
      /\ ServiceRoutes(calls[1], session) = "write audit log" => 1 = Len(calls)
  BY <1>2 DEF Proper
<1>5. 1 = Len(calls) => rest = <<>>
  BY <1>1, LastTaken DEF rest
<1>6. ASSUME NEW i \in 1 .. Len(rest)
      PROVE  /\ Lands(rest[i], session, key)
             /\ ServiceRoutes(rest[i], session) = "write audit log" => i = Len(rest)
  <2>1. i + 1 \in 1 .. Len(calls) /\ rest[i] = calls[i + 1]
    BY <1>2, <1>3
  <2>2. /\ Lands(calls[i + 1], session, key)
        /\ ServiceRoutes(calls[i + 1], session) = "write audit log" => i + 1 = Len(calls)
    BY <2>1 DEF Proper
  <2>3. i + 1 = Len(calls) => i = Len(rest)
    BY <1>2, <1>3
  <2> QED BY <2>1, <2>2, <2>3
<1>7. Proper(rest, session, key)
  BY <1>3, <1>6 DEF Proper
<1> QED BY <1>2, <1>3, <1>4, <1>5, <1>7 DEF rest

\* The gateway's reply to the request starts with nothing landed.
LEMMA GatewayStep ==
    ASSUME LandingInvariant, HandleAtGateway
    PROVE  LandingInvariant'
<1>1. api \in ApiRequests /\ reply' = GatewayRoutes(api) /\ UNCHANGED <<api, landed>> /\ landed = <<>>
  BY DEF LandingInvariant, HandleAtGateway
<1>2. ProperReply(reply', api.session, api.key)
  BY <1>1, GatewayReplies
<1> QED BY <1>1, <1>2 DEF LandingInvariant, ProperReply

\* A call that is made lands after the others.
LEMMA ServiceStep ==
    ASSUME LandingInvariant, HandleAtService
    PROVE  LandingInvariant'
<1> DEFINE c == Head(reply.calls)
           l == [call |-> c, op |-> ServiceRoutes(c, api.session)]
<1>1. /\ reply \in [status: Nat, calls: Seq(Calls)]
      /\ Proper(reply.calls, api.session, api.key)
      /\ reply.calls # <<>>
      /\ api \in ApiRequests /\ api.session \in Sessions
      /\ landed \in Seq(Landings)
  BY DEF LandingInvariant, HandleAtService, ApiRequests
<1>2. /\ landed' = Append(landed, l)
      /\ reply' = [reply EXCEPT !.calls = Tail(@)]
      /\ api' = api
  BY DEF HandleAtService
<1>3. /\ c \in Calls
      /\ Lands(c, api.session, api.key)
      /\ ServiceRoutes(c, api.session) = "write audit log" => Tail(reply.calls) = <<>>
      /\ Proper(Tail(reply.calls), api.session, api.key)
  BY <1>1, OneLess
<1>4. l \in Landings /\ l.call = c /\ l.op = ServiceRoutes(c, api.session)
  <2>1. l.call = c /\ l.op = ServiceRoutes(c, api.session)
    OBVIOUS
  <2>2. c \in Calls /\ api.session \in Sessions
    BY <1>1, <1>3
  <2> HIDE DEF c
  <2>3. l \in Landings
    BY <2>2, LandingTyped
  <2> QED BY <2>1, <2>3
<1>5. Tail(reply.calls) \in Seq(Calls)
  BY <1>3 DEF Proper
<1>6. reply' \in [status: Nat, calls: Seq(Calls)] /\ reply'.calls = Tail(reply.calls) /\ reply'.status = reply.status
  BY <1>1, <1>2, <1>5
<1>7. reply.status # 0
  BY <1>1 DEF LandingInvariant
<1> HIDE DEF l, c
<1>8. landed' \in Seq(Landings) /\ Len(landed') = Len(landed) + 1
  BY <1>1, <1>2, <1>4
<1>9. ASSUME NEW i \in 1 .. Len(landed')
      PROVE  /\ landed'[i].op \in Refusals => landed'[i].call = Logout(FALSE)
             /\ landed'[i].op \in KeyedOperations => landed'[i].call.key = api.key
             /\ landed'[i].op = "write audit log" => i = Len(landed') /\ reply'.calls = <<>>
  <2>1. CASE i = Len(landed')
    <3>1. landed'[i] = l
      BY <2>1, <1>1, <1>2, <1>8
    <3> QED BY <2>1, <3>1, <1>3, <1>4, <1>6 DEF Lands
  <2>2. CASE i # Len(landed')
    <3>1. i \in 1 .. Len(landed) /\ landed'[i] = landed[i]
      BY <2>2, <1>1, <1>2, <1>8
    <3>2. landed[i].op # "write audit log"
      BY <3>1, <1>1 DEF LandingInvariant
    <3> QED BY <3>1, <3>2 DEF LandingInvariant
  <2> QED BY <2>1, <2>2
<1> QED BY <1>1, <1>2, <1>3, <1>6, <1>7, <1>8, <1>9 DEF LandingInvariant

\* Every call the gateway makes for a request lands at its service, but for a logout without an
\* access token, in the order of the handler and with the key of the request, for all paths and
\* methods (gateway server.go, its clients and the mux of each service).
THEOREM CallsLandCorrect == ApiRoutesSpec => []CallsLand
<1>1. ApiRoutesInit => LandingInvariant
  BY DEF ApiRoutesInit, LandingInvariant, Refused, Proper
<1>2. LandingInvariant /\ [ApiRoutesNext]_apiVars => LandingInvariant'
  <2> SUFFICES ASSUME LandingInvariant, [ApiRoutesNext]_apiVars
               PROVE  LandingInvariant'
    OBVIOUS
  <2>1. CASE HandleAtGateway
    BY <2>1, GatewayStep
  <2>2. CASE HandleAtService
    BY <2>2, ServiceStep
  <2>3. CASE UNCHANGED apiVars
    BY <2>3 DEF LandingInvariant, apiVars
  <2> QED BY <2>1, <2>2, <2>3 DEF ApiRoutesNext
<1> QED BY <1>1, <1>2, LandingImpliesCallsLand, PTL DEF ApiRoutesSpec

-----------------------------------------------------------------------------
(***************************************************************************)
(* The quota: QuotaHolds, for every length of a window, every limit and    *)
(* every delay of a call shorter than a window.                            *)
(*                                                                         *)
(* A count of a window lives as long as a window from its first request,   *)
(* so two counts of one window are that far apart.  The requests let       *)
(* through have different numbers in their count; in the time of a window  *)
(* there are two counts of a window at most, and of the earlier one not    *)
(* the first request, which is too long ago.                               *)
(***************************************************************************)

\* The window of a time, by the greatest multiple before it.
LEMMA WindowOf ==
    ASSUME NEW n \in Nat
    PROVE  /\ n \div Window \in Nat
           /\ (n \div Window) * Window <= n
           /\ n < (n \div Window) * Window + Window
  BY RateLimiterAssumption

\* Windows begin in the order of their numbers, a window apart.
LEMMA WindowsApart ==
    ASSUME NEW a \in Int, NEW b \in Int, a < b
    PROVE  a * Window + Window <= b * Window
<1>1. (a + 1) * Window <= b * Window
  BY RateLimiterAssumption
<1> QED BY <1>1, RateLimiterAssumption

\* A multiple of the window is a whole number.
LEMMA ProductInt == ASSUME NEW a \in Int PROVE a * Window \in Int
  BY RateLimiterAssumption

\* A time is in one window.
LEMMA WindowIs ==
    ASSUME NEW n \in Nat, NEW s \in Nat, s * Window <= n, n < s * Window + Window
    PROVE  n \div Window = s
<1> DEFINE k == n \div Window
<1>1. k \in Nat /\ k * Window <= n /\ n < k * Window + Window
  BY WindowOf
<1>2. k * Window \in Int /\ s * Window \in Int
  BY <1>1, ProductInt
<1> HIDE DEF k
<1>3. ~ k < s
  BY <1>1, <1>2, WindowsApart, RateLimiterAssumption
<1>4. ~ s < k
  BY <1>1, <1>2, WindowsApart, RateLimiterAssumption
<1> QED BY <1>1, <1>3, <1>4 DEF k

-----------------------------------------------------------------------------
(* The inductive invariant. *)

CallsInTime ==
    \A c \in LimiterCalls : limiting[c].running =>
        /\ limiting[c].slot = limiting[c].at \div Window
        /\ limiting[c].at <= clock /\ clock <= limiting[c].at + MaxDelay

\* A count begins with a request of its window, and lasts for as long as a window.
CountersBegin ==
    \A s \in Slots :
        /\ counter[s].count = 0 => counter[s].expires = 0
        /\ counter[s].count > 0 => /\ s * Window + Window <= counter[s].expires
                                   /\ counter[s].expires <= clock + Window

\* A request let through was counted in the life of its count, which it began if it was
\* the first, and not much later than its window.
LetThroughInTime ==
    \A i \in DOMAIN allowed :
        /\ allowed[i].slot * Window + Window <= allowed[i].expires
        /\ allowed[i].expires <= allowed[i].at + Window /\ allowed[i].at < allowed[i].expires
        /\ allowed[i].at <= clock
        /\ allowed[i].at < allowed[i].slot * Window + Window + MaxDelay
        /\ allowed[i].nth = 1 => allowed[i].at + Window = allowed[i].expires

\* The counts of a window follow each other, and give each number once.
CountsApart ==
    \A i, j \in DOMAIN allowed : allowed[i].slot = allowed[j].slot =>
        /\ allowed[i].expires < allowed[j].expires => allowed[i].expires + Window <= allowed[j].expires
        /\ allowed[i].expires = allowed[j].expires /\ allowed[i].nth = allowed[j].nth => i = j

\* What was let through had the count in Redis or an earlier one.
CountsKept ==
    \A i \in DOMAIN allowed :
        LET k == counter[allowed[i].slot]
        IN  \/ allowed[i].expires + Window <= k.expires
            \/ allowed[i].expires = k.expires /\ allowed[i].nth <= k.count

LimiterInv ==
    RateLimiterTypeOK /\ CallsInTime /\ CountersBegin /\ LetThroughInTime /\ CountsApart /\ CountsKept

USE RateLimiterAssumption

\* A request that was let through.
LEMMA LetThroughTypes ==
    ASSUME RateLimiterTypeOK
    PROVE  /\ DOMAIN allowed = 1 .. Len(allowed) /\ Len(allowed) \in Nat /\ clock \in Nat
           /\ \A i \in DOMAIN allowed :
                /\ allowed[i].slot \in Slots /\ allowed[i].slot \in Nat /\ allowed[i].at \in Nat
                /\ allowed[i].nth \in 1 .. Limit /\ allowed[i].expires \in Nat
                /\ allowed[i].slot * Window \in Int
<1>1. allowed \in Seq([slot : Slots, at : Times, nth : 1 .. Limit, expires : Nat]) /\ clock \in Nat
  BY DEF RateLimiterTypeOK, Times
<1>2. DOMAIN allowed = 1 .. Len(allowed) /\ Len(allowed) \in Nat
  BY <1>1, LenProperties
<1>3. ASSUME NEW i \in DOMAIN allowed
      PROVE  /\ allowed[i].slot \in Slots /\ allowed[i].slot \in Nat /\ allowed[i].at \in Nat
             /\ allowed[i].nth \in 1 .. Limit /\ allowed[i].expires \in Nat
             /\ allowed[i].slot * Window \in Int
  <2>1. allowed[i] \in [slot : Slots, at : Times, nth : 1 .. Limit, expires : Nat]
    BY <1>1, <1>2, ElementOfSeq
  <2>2. /\ allowed[i].slot \in Slots /\ allowed[i].slot \in Nat /\ allowed[i].at \in Nat
        /\ allowed[i].nth \in 1 .. Limit /\ allowed[i].expires \in Nat
    BY <2>1 DEF Slots, Times
  <2> QED BY <2>2, ProductInt
<1> QED BY <1>1, <1>2, <1>3

\* A script counts a request: one more of the count that is there, or the first of a new one.
LEMMA CountFacts ==
    ASSUME LimiterInv, NEW c \in LimiterCalls, limiting[c].running,
           NEW s, s = limiting[c].slot
    PROVE  /\ s \in Slots /\ s * Window \in Int
           /\ Incremented(s) \in 1 .. Limit + 1
           /\ CountRequest(s) \in [Slots -> [count : 0 .. Limit + 1, expires : Nat]]
           /\ CountRequest(s)[s].count = Incremented(s)
           /\ \A r \in Slots : r # s => CountRequest(s)[r] = counter[r]
           /\ s * Window + Window <= CountRequest(s)[s].expires
           /\ clock < CountRequest(s)[s].expires /\ CountRequest(s)[s].expires <= clock + Window
           /\ Incremented(s) = 1 => CountRequest(s)[s].expires = clock + Window
           /\ clock < s * Window + Window + MaxDelay
           /\ \/ /\ CountRequest(s)[s].expires = counter[s].expires
                 /\ counter[s].count <= Incremented(s)
                 /\ Incremented(s) <= Limit => counter[s].count < Incremented(s)
              \/ counter[s].expires + Window <= CountRequest(s)[s].expires
<1>1. /\ s \in Slots /\ s \in Nat /\ clock \in Nat /\ limiting[c].at \in Nat
  BY DEF LimiterInv, RateLimiterTypeOK, Slots, Times
<1>2. s * Window \in Int /\ s * Window <= clock /\ clock < s * Window + Window + MaxDelay
  <2>1. /\ s = limiting[c].at \div Window
        /\ limiting[c].at <= clock /\ clock <= limiting[c].at + MaxDelay
    BY DEF LimiterInv, CallsInTime
  <2>2. s * Window <= limiting[c].at /\ limiting[c].at < s * Window + Window
    BY <1>1, <2>1, WindowOf
  <2> QED BY <1>1, <2>1, <2>2, ProductInt
<1>3. counter[s].count \in 0 .. Limit + 1 /\ counter[s].expires \in Nat
  BY <1>1 DEF LimiterInv, RateLimiterTypeOK
<1>4. /\ counter[s].count = 0 => counter[s].expires = 0
      /\ counter[s].count > 0 => /\ s * Window + Window <= counter[s].expires
                                 /\ counter[s].expires <= clock + Window
  BY <1>1 DEF LimiterInv, CountersBegin
<1> DEFINE n == Incremented(s)
<1>5. /\ n \in 1 .. Limit + 1
      /\ n = 1 => counter[s].expires <= clock
      /\ n # 1 => /\ clock < counter[s].expires /\ counter[s].count > 0 /\ counter[s].count <= n
                  /\ n <= Limit => counter[s].count < n
  BY <1>1, <1>3, <1>4 DEF Incremented, Counted
<1> HIDE DEF n
<1> DEFINE x == IF n = 1 THEN clock + Window ELSE counter[s].expires
<1>6. CountRequest(s) = [counter EXCEPT ![s] = [count |-> n, expires |-> x]]
  BY <1>1 DEF CountRequest, n, LimiterInv, RateLimiterTypeOK
<1>7. x \in Nat /\ (n = 1 => x = clock + Window) /\ (n # 1 => x = counter[s].expires)
  BY <1>1, <1>3
<1> HIDE DEF x
<1>8. /\ CountRequest(s) \in [Slots -> [count : 0 .. Limit + 1, expires : Nat]]
      /\ CountRequest(s)[s].count = n /\ CountRequest(s)[s].expires = x
      /\ \A r \in Slots : r # s => CountRequest(s)[r] = counter[r]
  <2>1. counter \in [Slots -> [count : 0 .. Limit + 1, expires : Nat]]
    BY DEF LimiterInv, RateLimiterTypeOK
  <2>2. [count |-> n, expires |-> x] \in [count : 0 .. Limit + 1, expires : Nat]
    BY <1>5, <1>7
  <2> QED BY <1>1, <1>6, <2>1, <2>2
<1>9. /\ s * Window + Window <= x /\ clock < x /\ x <= clock + Window
      /\ \/ x = counter[s].expires /\ counter[s].count <= n /\ (n <= Limit => counter[s].count < n)
         \/ counter[s].expires + Window <= x
  BY <1>1, <1>2, <1>3, <1>4, <1>5, <1>7
<1> QED BY <1>1, <1>2, <1>5, <1>7, <1>8, <1>9 DEF n

\* The counters go on, whatever becomes of the request.
LEMMA CounterStep ==
    ASSUME LimiterInv, NEW c \in LimiterCalls, limiting[c].running,
           counter' = CountRequest(limiting[c].slot), clock' = clock
    PROVE  /\ counter' \in [Slots -> [count : 0 .. Limit + 1, expires : Nat]]
           /\ CountersBegin'
           /\ \A i \in DOMAIN allowed :
                LET k == counter'[allowed[i].slot]
                IN  \/ allowed[i].expires + Window <= k.expires
                    \/ allowed[i].expires = k.expires /\ allowed[i].nth <= k.count
<1> DEFINE s == limiting[c].slot
<1>1. /\ s \in Slots /\ s * Window \in Int
      /\ Incremented(s) \in 1 .. Limit + 1
      /\ counter' \in [Slots -> [count : 0 .. Limit + 1, expires : Nat]]
      /\ counter'[s].count = Incremented(s)
      /\ \A r \in Slots : r # s => counter'[r] = counter[r]
      /\ s * Window + Window <= counter'[s].expires
      /\ counter'[s].expires <= clock + Window
      /\ \/ counter'[s].expires = counter[s].expires /\ counter[s].count <= Incremented(s)
         \/ counter[s].expires + Window <= counter'[s].expires
  BY CountFacts
<1> HIDE DEF s
<1>2. ASSUME NEW r \in Slots
      PROVE  /\ counter'[r].count = 0 => counter'[r].expires = 0
             /\ counter'[r].count > 0 => /\ r * Window + Window <= counter'[r].expires
                                         /\ counter'[r].expires <= clock + Window
  <2>1. CASE r = s
    BY <1>1, <2>1
  <2>2. CASE r # s
    BY <1>1, <2>2 DEF LimiterInv, CountersBegin
  <2> QED BY <2>1, <2>2
<1>3. ASSUME NEW i \in DOMAIN allowed
      PROVE  \/ allowed[i].expires + Window <= counter'[allowed[i].slot].expires
             \/ allowed[i].expires = counter'[allowed[i].slot].expires
                /\ allowed[i].nth <= counter'[allowed[i].slot].count
  <2>1. allowed[i].slot \in Slots /\ allowed[i].expires \in Nat /\ allowed[i].nth \in 1 .. Limit
    BY LetThroughTypes DEF LimiterInv
  <2>2. \/ allowed[i].expires + Window <= counter[allowed[i].slot].expires
        \/ allowed[i].expires = counter[allowed[i].slot].expires
           /\ allowed[i].nth <= counter[allowed[i].slot].count
    BY DEF LimiterInv, CountsKept
  <2>3. /\ counter[s].expires \in Nat /\ counter[s].count \in Nat
        /\ counter'[s].expires \in Nat
    BY <1>1 DEF LimiterInv, RateLimiterTypeOK
  <2>4. CASE allowed[i].slot = s
    BY <1>1, <2>1, <2>2, <2>3, <2>4
  <2>5. CASE allowed[i].slot # s
    BY <1>1, <2>1, <2>2, <2>5
  <2> QED BY <2>4, <2>5
<1> QED BY <1>1, <1>2, <1>3 DEF CountersBegin

\* A script lets a request through.
LEMMA LetThroughStep ==
    ASSUME LimiterInv, NEW c \in LimiterCalls, limiting[c].running,
           counter' = CountRequest(limiting[c].slot), clock' = clock,
           Incremented(limiting[c].slot) <= Limit,
           allowed' = Append(allowed, LetThrough(limiting[c].slot))
    PROVE  /\ allowed' \in Seq([slot : Slots, at : Times, nth : 1 .. Limit, expires : Nat])
           /\ LetThroughInTime' /\ CountsApart' /\ CountsKept'
<1> DEFINE s == limiting[c].slot
           e == LetThrough(s)
           R == [slot : Slots, at : Times, nth : 1 .. Limit, expires : Nat]
           n == Len(allowed) + 1
<1>0. clock \in Times /\ clock \in Nat
  BY DEF LimiterInv, RateLimiterTypeOK, Times
<1>1. /\ s \in Slots /\ s * Window \in Int
      /\ counter' \in [Slots -> [count : 0 .. Limit + 1, expires : Nat]]
      /\ counter'[s].count = Incremented(s)
      /\ s * Window + Window <= counter'[s].expires
      /\ clock < counter'[s].expires /\ counter'[s].expires <= clock + Window
      /\ Incremented(s) = 1 => counter'[s].expires = clock + Window
      /\ clock < s * Window + Window + MaxDelay
      /\ \/ counter'[s].expires = counter[s].expires /\ counter[s].count < Incremented(s)
         \/ counter[s].expires + Window <= counter'[s].expires
      /\ Incremented(s) \in 1 .. Limit
  BY CountFacts
<1>2. /\ e.slot = s /\ e.at = clock /\ e.nth = Incremented(s) /\ e.expires = counter'[s].expires
      /\ e \in R
  BY <1>0, <1>1 DEF LetThrough
<1>3. counter[s].expires \in Nat /\ counter[s].count \in Nat /\ counter'[s].expires \in Nat
  BY <1>1 DEF LimiterInv, RateLimiterTypeOK
<1>4. allowed \in Seq(R) /\ Len(allowed) \in Nat /\ DOMAIN allowed = 1 .. Len(allowed)
  BY LetThroughTypes DEF LimiterInv, RateLimiterTypeOK
<1>5. allowed' = Append(allowed, e)
  OBVIOUS
<1> HIDE DEF s, e, R
<1>6. /\ allowed' \in Seq(R) /\ DOMAIN allowed' = 1 .. n
      /\ \A i \in DOMAIN allowed' : (i \in DOMAIN allowed /\ allowed'[i] = allowed[i]) \/ i = n
      /\ allowed'[n] = e
  BY <1>2, <1>4, <1>5
<1>7. ASSUME NEW i \in DOMAIN allowed
      PROVE  /\ allowed[i].slot \in Slots /\ allowed[i].nth \in 1 .. Limit /\ allowed[i].expires \in Nat
             /\ \/ allowed[i].expires + Window <= counter[allowed[i].slot].expires
                \/ allowed[i].expires = counter[allowed[i].slot].expires
                   /\ allowed[i].nth <= counter[allowed[i].slot].count
  BY LetThroughTypes DEF LimiterInv, CountsKept
<1>8. LetThroughInTime'
  <2>1. ASSUME NEW i \in DOMAIN allowed'
        PROVE  /\ allowed'[i].slot * Window + Window <= allowed'[i].expires
               /\ allowed'[i].expires <= allowed'[i].at + Window /\ allowed'[i].at < allowed'[i].expires
               /\ allowed'[i].at <= clock
               /\ allowed'[i].at < allowed'[i].slot * Window + Window + MaxDelay
               /\ allowed'[i].nth = 1 => allowed'[i].at + Window = allowed'[i].expires
    <3>1. CASE i \in DOMAIN allowed /\ allowed'[i] = allowed[i]
      BY <3>1 DEF LimiterInv, LetThroughInTime
    <3>2. CASE i = n
      <4>1. allowed'[i] = e
        BY <1>6, <3>2
      <4>2. /\ s * Window + Window <= e.expires
            /\ e.expires <= clock + Window /\ clock < e.expires /\ clock <= clock
            /\ clock < s * Window + Window + MaxDelay
            /\ e.nth = 1 => clock + Window = e.expires
        <5>1. Incremented(s) = 1 => clock + Window = counter'[s].expires
          BY <1>1
        <5>2. clock <= clock
          BY ONLY <1>0
        <5> QED BY ONLY <1>1, <1>2, <5>1, <5>2
      <4>3. e.at = clock /\ e.slot = s
        BY <1>2
      <4> QED BY ONLY <4>1, <4>2, <4>3
    <3> QED BY <1>6, <2>1, <3>1, <3>2
  <2> QED BY <2>1 DEF LetThroughInTime
\* The number is above those that its count has given.
<1>9. ASSUME NEW i \in DOMAIN allowed, allowed[i].slot = s
      PROVE  /\ \/ allowed[i].expires + Window <= e.expires
                \/ allowed[i].expires = e.expires /\ allowed[i].nth < e.nth
             /\ allowed[i].expires \in Nat /\ allowed[i].nth \in Nat /\ e.expires \in Nat /\ e.nth \in Nat
  <2>1. allowed[i].expires \in Nat /\ allowed[i].nth \in Nat /\ e.expires \in Nat /\ e.nth \in Nat
    BY <1>1, <1>2, <1>3, <1>7
  <2>2. \/ allowed[i].expires + Window <= counter[s].expires
        \/ allowed[i].expires = counter[s].expires /\ allowed[i].nth <= counter[s].count
    BY <1>7, <1>9
  <2>3. CASE counter'[s].expires = counter[s].expires /\ counter[s].count < Incremented(s)
    BY <1>1, <1>2, <1>3, <2>1, <2>2, <2>3
  <2>4. CASE counter[s].expires + Window <= counter'[s].expires
    <3>1. e.expires = counter'[s].expires /\ Window \in Nat
      BY <1>2
    <3> QED BY ONLY <1>3, <2>1, <2>2, <2>4, <3>1
  <2>5. \/ counter'[s].expires = counter[s].expires /\ counter[s].count < Incremented(s)
        \/ counter[s].expires + Window <= counter'[s].expires
    BY <1>1, <1>2, <1>3
  <2>6. \/ allowed[i].expires + Window <= e.expires
        \/ allowed[i].expires = e.expires /\ allowed[i].nth < e.nth
    BY <2>3, <2>4, <2>5
  <2> QED BY <2>1, <2>6
<1>10. CountsApart'
  <2>1. ASSUME NEW i \in DOMAIN allowed', NEW j \in DOMAIN allowed', allowed'[i].slot = allowed'[j].slot
        PROVE  /\ allowed'[i].expires < allowed'[j].expires
                  => allowed'[i].expires + Window <= allowed'[j].expires
               /\ allowed'[i].expires = allowed'[j].expires /\ allowed'[i].nth = allowed'[j].nth => i = j
    <3>1. CASE i \in DOMAIN allowed /\ allowed'[i] = allowed[i] /\ j \in DOMAIN allowed /\ allowed'[j] = allowed[j]
      BY <2>1, <3>1 DEF LimiterInv, CountsApart
    <3>2. CASE i = n /\ j \in DOMAIN allowed /\ allowed'[j] = allowed[j]
      <4>1. allowed[j].slot = s /\ allowed'[i] = e
        BY <1>2, <1>6, <2>1, <3>2
      <4> QED BY <1>9, <3>2, <4>1
    <3>3. CASE j = n /\ i \in DOMAIN allowed /\ allowed'[i] = allowed[i]
      <4>1. allowed[i].slot = s /\ allowed'[j] = e
        BY <1>2, <1>6, <2>1, <3>3
      <4> QED BY <1>9, <3>3, <4>1
    <3>4. CASE i = n /\ j = n
      BY <1>2, <1>3, <1>6, <3>4
    <3> QED BY <1>6, <2>1, <3>1, <3>2, <3>3, <3>4
  <2> QED BY <2>1 DEF CountsApart
<1>11. CountsKept'
  <2>1. ASSUME NEW i \in DOMAIN allowed'
        PROVE  \/ allowed'[i].expires + Window <= counter'[allowed'[i].slot].expires
               \/ allowed'[i].expires = counter'[allowed'[i].slot].expires
                  /\ allowed'[i].nth <= counter'[allowed'[i].slot].count
    <3>1. CASE i \in DOMAIN allowed /\ allowed'[i] = allowed[i]
      BY <3>1, CounterStep
    <3>2. CASE i = n
      BY <1>1, <1>2, <1>6, <3>2, SMTT(30)
    <3> QED BY <1>6, <2>1, <3>1, <3>2
  <2> QED BY <2>1 DEF CountsKept
<1> QED BY <1>6, <1>8, <1>10, <1>11 DEF R

-----------------------------------------------------------------------------
(* The invariant is inductive. *)

\* No call was let through before the first.
LEMMA LimiterInitially == RateLimiterInit => LimiterInv
<1> SUFFICES ASSUME RateLimiterInit PROVE LimiterInv
  OBVIOUS
<1>1. allowed = <<>> /\ DOMAIN allowed = {} /\ clock = 0
  BY DEF RateLimiterInit
<1>2. 0 \in Slots /\ 0 \in Times
  BY WindowOf DEF Slots, Times
<1>3. RateLimiterTypeOK
  BY <1>1, <1>2 DEF RateLimiterInit, RateLimiterTypeOK, NoCounter, NotLimiting
<1> QED BY <1>1, <1>3 DEF RateLimiterInit, LimiterInv, CallsInTime, CountersBegin, LetThroughInTime,
              CountsApart, CountsKept, NoCounter, NotLimiting

\* Every call, and time, keep the invariant of the limiter (fixed_window.go allowRedis, allowMemory).
LEMMA LimiterStep == LimiterInv /\ [RateLimiterNext]_limiterVars => LimiterInv'
<1> SUFFICES ASSUME LimiterInv, [RateLimiterNext]_limiterVars PROVE LimiterInv'
  OBVIOUS
<1> USE DEF LimiterInv
<1>t. /\ clock \in Times /\ clock \in Nat
      /\ counter \in [Slots -> [count : 0 .. Limit + 1, expires : Nat]]
      /\ limiting \in [LimiterCalls -> [slot : Slots, at : Times, running : BOOLEAN]]
  BY DEF RateLimiterTypeOK, Times
<1>1. ASSUME NEW c \in LimiterCalls, Allow(c) PROVE LimiterInv'
  <2>1. clock \div Window \in Slots
    <3> DEFINE k == clock \div Window
               m == MaxClock \div Window
    <3>1. k \in Nat /\ k * Window <= clock
      BY <1>t, WindowOf
    <3>2. MaxClock \in Nat /\ m \in Nat /\ MaxClock < m * Window + Window
      BY WindowOf
    <3>3. clock <= MaxClock
      BY <1>t DEF Times
    <3> HIDE DEF k, m
    <3>4. ASSUME m < k PROVE FALSE
      <4>1. m * Window + Window <= k * Window /\ m * Window \in Int /\ k * Window \in Int
        BY <3>1, <3>2, <3>4, ProductInt, WindowsApart
      <4>2. PICK x \in Int, y \in Int : x = m * Window /\ y = k * Window
        BY <4>1
      <4>3. x + Window <= y /\ y <= clock /\ MaxClock < x + Window
        BY <3>1, <3>2, <4>1, <4>2
      <4> HIDE DEF k, m
      <4> QED BY ONLY <1>t, <3>2, <3>3, <4>2, <4>3, RateLimiterAssumption
    <3>5. k \in 0 .. m
      BY <3>1, <3>2, <3>4
    <3> QED BY <3>5 DEF Slots, k, m
  <2> DEFINE l == [slot |-> clock \div Window, at |-> clock, running |-> TRUE]
  <2>2. limiting' = [limiting EXCEPT ![c] = l] /\ UNCHANGED <<clock, counter, allowed>>
    BY <1>1 DEF Allow
  <2>3. l \in [slot : Slots, at : Times, running : BOOLEAN]
        /\ l.slot = l.at \div Window /\ l.at = clock
    BY <1>t, <2>1
  <2> HIDE DEF l
  <2>4. RateLimiterTypeOK'
    BY <1>t, <2>2, <2>3 DEF RateLimiterTypeOK
  <2>5. CallsInTime'
    <3>1. limiting'[c] = l /\ \A d \in LimiterCalls : d # c => limiting'[d] = limiting[d]
      BY <1>t, <2>2
    <3>2. clock <= clock + MaxDelay
      BY <1>t
    <3>3. ASSUME NEW d \in LimiterCalls, limiting'[d].running
          PROVE  /\ limiting'[d].slot = limiting'[d].at \div Window
                 /\ limiting'[d].at <= clock /\ clock <= limiting'[d].at + MaxDelay
      <4>1. CASE d = c
        <5>1. limiting'[d] = l
          BY <3>1, <4>1
        <5>2. limiting'[d].slot = limiting'[d].at \div Window
          BY <2>3, <5>1, Zenon
        <5>3. limiting'[d].at = clock
          BY <2>3, <5>1
        <5> QED BY ONLY <1>t, <3>2, <5>2, <5>3
      <4>2. CASE d # c
        BY <3>1, <3>3, <4>2 DEF CallsInTime
      <4> QED BY <4>1, <4>2
    <3> QED BY <2>2, <3>3 DEF CallsInTime
  <2> QED BY <2>2, <2>4, <2>5 DEF CountersBegin, LetThroughInTime, CountsApart, CountsKept
\* A call that ends leaves the others as they are.
<1>2. ASSUME NEW c \in LimiterCalls, limiting' = [limiting EXCEPT ![c] = NotLimiting], clock' = clock
      PROVE  /\ limiting' \in [LimiterCalls -> [slot : Slots, at : Times, running : BOOLEAN]]
             /\ CallsInTime'
  <2>1. NotLimiting \in [slot : Slots, at : Times, running : BOOLEAN] /\ ~ NotLimiting.running
    BY WindowOf DEF NotLimiting, Slots, Times
  <2>2. limiting' \in [LimiterCalls -> [slot : Slots, at : Times, running : BOOLEAN]]
        /\ \A d \in LimiterCalls : limiting'[d] = IF d = c THEN NotLimiting ELSE limiting[d]
    BY <1>t, <1>2, <2>1
  <2> QED BY <1>2, <2>1, <2>2 DEF CallsInTime
<1>3. ASSUME NEW c \in LimiterCalls, fixedWindowScript(c) PROVE LimiterInv'
  <2> DEFINE s == limiting[c].slot
  <2>1. /\ limiting[c].running /\ counter' = CountRequest(s) /\ clock' = clock
        /\ limiting' = [limiting EXCEPT ![c] = NotLimiting]
        /\ allowed' = IF Incremented(s) <= Limit THEN Append(allowed, LetThrough(s)) ELSE allowed
    BY <1>3 DEF fixedWindowScript
  <2>2. /\ limiting' \in [LimiterCalls -> [slot : Slots, at : Times, running : BOOLEAN]]
        /\ CallsInTime'
    BY <1>2, <2>1
  <2>3. /\ counter' \in [Slots -> [count : 0 .. Limit + 1, expires : Nat]]
        /\ CountersBegin'
        /\ \A i \in DOMAIN allowed :
             LET k == counter'[allowed[i].slot]
             IN  \/ allowed[i].expires + Window <= k.expires
                 \/ allowed[i].expires = k.expires /\ allowed[i].nth <= k.count
    BY <2>1, CounterStep
  <2>4. /\ allowed' \in Seq([slot : Slots, at : Times, nth : 1 .. Limit, expires : Nat])
        /\ LetThroughInTime' /\ CountsApart' /\ CountsKept'
    <3>1. CASE Incremented(s) <= Limit
      BY <2>1, <3>1, LetThroughStep
    <3>2. CASE ~ Incremented(s) <= Limit
      <4>1. allowed' = allowed
        BY <2>1, <3>2
      <4>2. CountsKept'
        BY <2>3, <4>1 DEF CountsKept
      <4>3. LetThroughInTime' /\ CountsApart'
        BY <2>1, <4>1 DEF LetThroughInTime, CountsApart
      <4> QED BY <4>1, <4>2, <4>3 DEF RateLimiterTypeOK
    <3> QED BY <3>1, <3>2
  <2> QED BY <1>t, <2>1, <2>2, <2>3, <2>4 DEF RateLimiterTypeOK
<1>4. ASSUME NEW c \in LimiterCalls, RedisFails(c) PROVE LimiterInv'
  <2> DEFINE s == limiting[c].slot
  <2>1. /\ limiting[c].running /\ counter' \in {counter, CountRequest(s)} /\ clock' = clock
        /\ limiting' = [limiting EXCEPT ![c] = NotLimiting] /\ allowed' = allowed
    BY <1>4 DEF RedisFails
  <2>2. /\ limiting' \in [LimiterCalls -> [slot : Slots, at : Times, running : BOOLEAN]]
        /\ CallsInTime'
    BY <1>2, <2>1
  <2>3. /\ counter' \in [Slots -> [count : 0 .. Limit + 1, expires : Nat]]
        /\ CountersBegin' /\ CountsKept'
    <3>1. CASE counter' = counter
      BY <1>t, <2>1, <3>1 DEF CountersBegin, CountsKept
    <3>2. CASE counter' = CountRequest(s)
      BY <2>1, <3>2, CounterStep DEF CountsKept
    <3> QED BY <2>1, <3>1, <3>2
  <2> QED BY <1>t, <2>1, <2>2, <2>3 DEF RateLimiterTypeOK, LetThroughInTime, CountsApart
<1>5. CASE TickClock
  <2>1. /\ clock' = clock + 1 /\ clock < MaxClock /\ UNCHANGED <<counter, limiting, allowed>>
        /\ \A c \in LimiterCalls : limiting[c].running => clock - limiting[c].at < MaxDelay
    BY <1>5 DEF TickClock
  <2>2. RateLimiterTypeOK'
    BY <1>t, <2>1 DEF RateLimiterTypeOK, Times
  <2>3. CallsInTime'
    <3>1. ASSUME NEW c \in LimiterCalls, limiting[c].running
          PROVE  /\ limiting[c].slot = limiting[c].at \div Window
                 /\ limiting[c].at <= clock + 1 /\ clock + 1 <= limiting[c].at + MaxDelay
      <4>1. limiting[c].at \in Nat
        BY <1>t DEF Times
      <4> QED BY <1>t, <2>1, <3>1, <4>1 DEF CallsInTime
    <3> QED BY <2>1, <3>1 DEF CallsInTime
  <2>4. CountersBegin'
    <3>1. ASSUME NEW s \in Slots
          PROVE  counter[s].expires \in Nat
      BY <1>t
    <3> QED BY <1>t, <2>1, <3>1 DEF CountersBegin
  <2>5. LetThroughInTime'
    <3>1. ASSUME NEW i \in DOMAIN allowed PROVE allowed[i].at <= clock + 1
      BY <1>t, LetThroughTypes DEF LetThroughInTime
    <3> QED BY <2>1, <3>1 DEF LetThroughInTime
  <2> QED BY <2>1, <2>2, <2>3, <2>4, <2>5 DEF CountsApart, CountsKept
<1>6. CASE UNCHANGED limiterVars
  BY <1>6 DEF limiterVars, RateLimiterTypeOK, CallsInTime, CountersBegin, LetThroughInTime, CountsApart, CountsKept
<1> QED BY <1>1, <1>3, <1>4, <1>5, <1>6 DEF RateLimiterNext

-----------------------------------------------------------------------------
(* The quota. *)

\* A set whose elements have different numbers is no larger than the numbers.
LEMMA NumberedSet ==
    ASSUME NEW S, NEW m \in Nat, NEW n \in Nat, m <= n + 1,
           NEW f \in [S -> m .. n], \A i, j \in S : f[i] = f[j] => i = j
    PROVE  IsFiniteSet(S) /\ Cardinality(S) \in Nat /\ Cardinality(S) <= n - m + 1
<1>1. IsFiniteSet(m .. n) /\ Cardinality(m .. n) <= n - m + 1
  <2>1. m \in Int /\ n \in Int
    OBVIOUS
  <2>2. IsFiniteSet(m .. n) /\ Cardinality(m .. n) = IF m > n THEN 0 ELSE n - m + 1
    BY <2>1, FS_Interval
  <2> QED BY <2>1, <2>2
<1>2. f \in Injection(S, m .. n)
  BY DEF Injection, IsInjective
<1>3. IsFiniteSet(S) /\ Cardinality(S) <= Cardinality(m .. n)
  BY <1>1, <1>2, FS_Injection
<1>4. Cardinality(S) \in Nat /\ Cardinality(m .. n) \in Nat
  BY <1>1, <1>3, FS_CardinalityType
<1> QED BY <1>1, <1>3, <1>4

\* Requests of one count.
LEMMA OneCount ==
    ASSUME LimiterInv, NEW S \in SUBSET DOMAIN allowed,
           \A i, j \in S : allowed[i].slot = allowed[j].slot /\ allowed[i].expires = allowed[j].expires
    PROVE  IsFiniteSet(S) /\ Cardinality(S) \in Nat /\ Cardinality(S) <= Limit
<1> DEFINE f == [i \in S |-> allowed[i].nth]
<1>1. f \in [S -> 1 .. Limit]
  BY LetThroughTypes DEF LimiterInv
<1>2. \A i, j \in S : f[i] = f[j] => i = j
  BY DEF LimiterInv, CountsApart
<1> HIDE DEF f
<1>3. IsFiniteSet(S) /\ Cardinality(S) \in Nat /\ Cardinality(S) <= Limit - 1 + 1
  BY <1>1, <1>2, NumberedSet
<1> QED BY <1>3

\* Two requests of a window with different counts are at least a window's time from where
\* the earlier count began.
LEMMA CountsOfWindow ==
    ASSUME LimiterInv, NEW i \in DOMAIN allowed, NEW j \in DOMAIN allowed,
           allowed[i].slot = allowed[j].slot, allowed[i].expires < allowed[j].expires
    PROVE  /\ allowed[i].at < allowed[i].expires /\ allowed[i].expires <= allowed[j].at
           /\ allowed[i].slot * Window + Window <= allowed[j].at
           /\ allowed[i].nth = 1 => allowed[i].at + Window <= allowed[j].at
<1>1. /\ allowed[i].expires \in Nat /\ allowed[j].expires \in Nat
      /\ allowed[i].at \in Nat /\ allowed[j].at \in Nat /\ allowed[i].slot * Window \in Int
      /\ allowed[i].nth \in Nat
  BY LetThroughTypes DEF LimiterInv
<1>2. /\ allowed[i].expires + Window <= allowed[j].expires
      /\ allowed[j].expires <= allowed[j].at + Window /\ allowed[i].at < allowed[i].expires
      /\ allowed[i].slot * Window + Window <= allowed[i].expires
      /\ allowed[i].nth = 1 => allowed[i].at + Window = allowed[i].expires
  BY DEF LimiterInv, CountsApart, LetThroughInTime
<1> QED BY <1>1, <1>2

\* So there is no third count in the time of a window.
LEMMA CountsFarApart ==
    ASSUME LimiterInv, NEW t \in Nat, NEW i \in During(t), NEW j \in During(t), NEW k \in During(t),
           allowed[i].slot = allowed[j].slot, allowed[j].slot = allowed[k].slot,
           allowed[i].expires < allowed[j].expires, allowed[j].expires < allowed[k].expires
    PROVE  FALSE
<1>1. i \in DOMAIN allowed /\ j \in DOMAIN allowed /\ k \in DOMAIN allowed
  BY DEF During
<1>2. /\ allowed[i].expires \in Nat /\ allowed[j].expires \in Nat /\ allowed[k].expires \in Nat
      /\ allowed[i].at \in Nat /\ allowed[k].at \in Nat
  BY <1>1, LetThroughTypes DEF LimiterInv
<1>3. allowed[i].at < allowed[i].expires /\ allowed[i].expires + Window <= allowed[j].expires
  BY <1>1 DEF LimiterInv, CountsApart, LetThroughInTime
<1>4. allowed[j].expires <= allowed[k].at
  BY <1>1, CountsOfWindow
<1>5. t <= allowed[i].at /\ allowed[k].at < t + Window
  BY DEF During
<1> QED BY <1>2, <1>3, <1>4, <1>5

\* In the time of a window, the requests of one window have one count, or two of which the
\* first began before.
LEMMA TwoCounts ==
    ASSUME LimiterInv, NEW t \in Nat, NEW S \in SUBSET During(t),
           \A i, j \in S : allowed[i].slot = allowed[j].slot
    PROVE  IsFiniteSet(S) /\ Cardinality(S) \in Nat /\ Cardinality(S) <= 2 * Limit - 1
<1>1. S \in SUBSET DOMAIN allowed /\ \A i \in S : t <= allowed[i].at /\ allowed[i].at < t + Window
  BY DEF During
<1>2. \A i \in S : /\ allowed[i].at \in Nat /\ allowed[i].expires \in Nat
                   /\ allowed[i].nth \in Nat /\ 1 <= allowed[i].nth /\ allowed[i].nth <= Limit
  BY <1>1, LetThroughTypes DEF LimiterInv
<1>3. CASE \A i, j \in S : allowed[i].expires = allowed[j].expires
  <2>1. IsFiniteSet(S) /\ Cardinality(S) \in Nat /\ Cardinality(S) <= Limit
    BY <1>1, <1>3, OneCount
  <2> QED BY <2>1
<1>4. CASE \E i, j \in S : allowed[i].expires < allowed[j].expires
  <2>1. PICK a \in S, b \in S : allowed[a].expires < allowed[b].expires
    BY <1>4
  <2>2. ASSUME NEW i \in S, NEW j \in S, allowed[i].expires < allowed[j].expires
        PROVE  /\ allowed[i].at < allowed[i].expires /\ allowed[i].expires <= allowed[j].at
               /\ allowed[i].nth # 1
    <3>1. /\ allowed[i].at < allowed[i].expires /\ allowed[i].expires <= allowed[j].at
          /\ allowed[i].nth = 1 => allowed[i].at + Window <= allowed[j].at
      BY <1>1, <2>2, CountsOfWindow
    <3> QED BY <1>1, <1>2, <3>1
  <2>3. ASSUME NEW i \in S
        PROVE  allowed[i].expires = allowed[a].expires \/ allowed[i].expires = allowed[b].expires
    <3>1. CASE allowed[i].expires < allowed[a].expires
      BY <1>1, <2>1, <3>1, CountsFarApart
    <3>2. CASE allowed[a].expires < allowed[i].expires /\ allowed[i].expires < allowed[b].expires
      BY <1>1, <2>1, <3>2, CountsFarApart
    <3>3. CASE allowed[b].expires < allowed[i].expires
      BY <1>1, <2>1, <3>3, CountsFarApart
    <3> QED BY <1>2, <3>1, <3>2, <3>3
  <2> DEFINE f == [i \in S |-> IF allowed[i].expires = allowed[a].expires THEN allowed[i].nth
                               ELSE Limit + allowed[i].nth]
  <2>4. f \in [S -> 2 .. 2 * Limit]
    <3>1. ASSUME NEW i \in S PROVE f[i] \in 2 .. 2 * Limit
      <4>1. CASE allowed[i].expires = allowed[a].expires
        <5>1. allowed[i].nth # 1
          BY <2>1, <2>2, <4>1
        <5> QED BY <1>2, <4>1, <5>1
      <4>2. CASE allowed[i].expires # allowed[a].expires
        BY <1>2, <4>2
      <4> QED BY <4>1, <4>2
    <3> QED BY <3>1
  <2>5. \A i, j \in S : f[i] = f[j] => i = j
    <3>1. ASSUME NEW i \in S, NEW j \in S, f[i] = f[j] PROVE i = j
      <4>1. allowed[i].nth = allowed[j].nth /\ allowed[i].expires = allowed[j].expires
        BY <1>2, <2>3, <3>1
      <4>2. allowed[i].slot = allowed[j].slot /\ i \in DOMAIN allowed /\ j \in DOMAIN allowed
        BY <1>1
      <4> QED BY <4>1, <4>2 DEF LimiterInv, CountsApart
    <3> QED BY <3>1
  <2> HIDE DEF f
  <2>6. IsFiniteSet(S) /\ Cardinality(S) \in Nat /\ Cardinality(S) <= 2 * Limit - 2 + 1
    <3>1. 2 * Limit \in Nat /\ 2 <= 2 * Limit + 1
      OBVIOUS
    <3> QED BY <2>4, <2>5, <3>1, NumberedSet
  <2> QED BY <2>6
<1> QED BY <1>2, <1>3, <1>4

\* Requests let through in their window have one count.
LEMMA WindowQuota ==
    ASSUME LimiterInv, NEW s \in Slots
    PROVE  Cardinality(InWindow(s)) <= Limit
<1>1. InWindow(s) \in SUBSET DOMAIN allowed
  BY DEF InWindow
<1>2. ASSUME NEW i \in InWindow(s), NEW j \in InWindow(s)
      PROVE  allowed[i].slot = allowed[j].slot /\ ~ allowed[i].expires < allowed[j].expires
  <2>1. allowed[i].slot = s /\ allowed[j].slot = s /\ allowed[j].at \div Window = s
    BY DEF InWindow
  <2>2. allowed[j].at \in Nat /\ allowed[j].at < s * Window + Window /\ s * Window \in Int
    BY <1>1, <2>1, WindowOf, LetThroughTypes DEF LimiterInv
  <2>3. ASSUME allowed[i].expires < allowed[j].expires PROVE FALSE
    <3>1. s * Window + Window <= allowed[j].at
      BY <1>1, <2>1, <2>3, CountsOfWindow
    <3> QED BY <2>2, <3>1
  <2> QED BY <2>1, <2>3
<1>3. \A i \in InWindow(s) : allowed[i].expires \in Nat
  BY <1>1, LetThroughTypes DEF LimiterInv
<1>4. \A i, j \in InWindow(s) : allowed[i].slot = allowed[j].slot /\ allowed[i].expires = allowed[j].expires
  BY <1>2, <1>3
<1> QED BY <1>1, <1>4, OneCount

\* The time of a window from t meets the window of t, the one before and the one after.
LEMMA ThreeWindows ==
    ASSUME LimiterInv, NEW t \in Nat, NEW k, k = t \div Window
    PROVE  /\ k \in Nat /\ k * Window \in Int /\ k * Window <= t /\ t < k * Window + Window
           /\ \A i \in During(t) :
                /\ allowed[i].slot \in {k - 1, k, k + 1} /\ allowed[i].at \in Nat
                /\ allowed[i].slot = k - 1 => allowed[i].at < k * Window + MaxDelay
                /\ allowed[i].slot = k + 1 => k * Window + Window <= allowed[i].at
<1>1. k \in Nat /\ k * Window \in Int /\ k * Window <= t /\ t < k * Window + Window
  BY WindowOf, ProductInt
<1>2. ASSUME NEW i \in During(t)
      PROVE  /\ allowed[i].slot \in {k - 1, k, k + 1} /\ allowed[i].at \in Nat
             /\ allowed[i].slot = k - 1 => allowed[i].at < k * Window + MaxDelay
             /\ allowed[i].slot = k + 1 => k * Window + Window <= allowed[i].at
  <2> DEFINE s == allowed[i].slot
  <2>1. i \in DOMAIN allowed /\ t <= allowed[i].at /\ allowed[i].at < t + Window
    BY DEF During
  <2>2. s \in Nat /\ s * Window \in Int /\ allowed[i].at \in Nat /\ allowed[i].expires \in Nat
    BY <2>1, LetThroughTypes DEF LimiterInv
  <2>3. s * Window <= allowed[i].at /\ allowed[i].at < s * Window + Window + MaxDelay
    <3>1. /\ s * Window + Window <= allowed[i].expires /\ allowed[i].expires <= allowed[i].at + Window
          /\ allowed[i].at < s * Window + Window + MaxDelay
      BY <2>1 DEF LimiterInv, LetThroughInTime
    <3> QED BY <2>2, <3>1
  <2> HIDE DEF s
  <2>4. PICK x \in Int, y \in Int : x = k * Window /\ y = s * Window
    BY <1>1, <2>2
  <2>5. s + 1 < k => y + Window + Window <= x
    <3>1. ASSUME s + 1 < k PROVE y + Window + Window <= x
      <4>1. s * Window + Window <= (s + 1) * Window /\ (s + 1) * Window + Window <= k * Window
            /\ (s + 1) * Window \in Int
        BY <1>1, <2>2, <3>1, WindowsApart, ProductInt
      <4> QED BY <2>4, <4>1
    <3> QED BY <3>1
  <2>6. k + 1 < s => x + Window + Window <= y
    <3>1. ASSUME k + 1 < s PROVE x + Window + Window <= y
      <4>1. k * Window + Window <= (k + 1) * Window /\ (k + 1) * Window + Window <= s * Window
            /\ (k + 1) * Window \in Int
        BY <1>1, <2>2, <3>1, WindowsApart, ProductInt
      <4> QED BY <2>4, <4>1
    <3> QED BY <3>1
  <2>7. s = k - 1 => y + Window <= x
    BY <1>1, <2>2, <2>4, WindowsApart
  <2>8. s = k + 1 => x + Window <= y
    BY <1>1, <2>2, <2>4, WindowsApart
  <2>9. /\ x <= t /\ t < x + Window /\ y <= allowed[i].at /\ allowed[i].at < y + Window + MaxDelay
        /\ MaxDelay < Window /\ MaxDelay \in Nat /\ Window \in Nat
    BY <1>1, <2>3, <2>4
  <2>10. ~ s + 1 < k /\ ~ k + 1 < s
    BY ONLY <1>1, <2>1, <2>2, <2>4, <2>5, <2>6, <2>9
  <2>11. s = k - 1 => allowed[i].at < x + MaxDelay
    BY ONLY <1>1, <2>2, <2>4, <2>7, <2>9
  <2>12. s = k + 1 => x + Window <= allowed[i].at
    BY ONLY <1>1, <2>2, <2>4, <2>8, <2>9
  <2>13. s \in {k - 1, k, k + 1}
    BY <1>1, <2>2, <2>10
  <2> QED BY <2>2, <2>4, <2>11, <2>12, <2>13 DEF s
<1> QED BY <1>1, <1>2

\* Requests of one window of which none has a later count than another.
LEMMA OneCountOnly ==
    ASSUME LimiterInv, NEW t \in Nat, NEW S \in SUBSET During(t),
           \A i, j \in S : allowed[i].slot = allowed[j].slot,
           \A i, j \in S : ~ allowed[i].expires < allowed[j].expires
    PROVE  IsFiniteSet(S) /\ Cardinality(S) \in Nat /\ Cardinality(S) <= Limit
<1>1. S \in SUBSET DOMAIN allowed
  BY DEF During
<1>2. \A i \in S : allowed[i].expires \in Nat
  BY <1>1, LetThroughTypes DEF LimiterInv
<1>3. \A i, j \in S : allowed[i].slot = allowed[j].slot /\ allowed[i].expires = allowed[j].expires
  BY <1>2
<1> QED BY <1>1, <1>3, OneCount

\* Three sets together.
LEMMA UnionOfThree ==
    ASSUME NEW A, NEW B, NEW C, IsFiniteSet(A), IsFiniteSet(B), IsFiniteSet(C)
    PROVE  Cardinality(A \cup B \cup C) <= Cardinality(A) + Cardinality(B) + Cardinality(C)
<1>1. /\ IsFiniteSet(A \cup B)
      /\ Cardinality(A \cup B) = Cardinality(A) + Cardinality(B) - Cardinality(A \cap B)
  BY FS_Union
<1>2. Cardinality((A \cup B) \cup C)
        = Cardinality(A \cup B) + Cardinality(C) - Cardinality((A \cup B) \cap C)
  BY <1>1, FS_Union
<1>3. IsFiniteSet(A \cap B) /\ IsFiniteSet((A \cup B) \cap C)
  BY <1>1, FS_Intersection
<1>4. /\ Cardinality(A) \in Nat /\ Cardinality(B) \in Nat /\ Cardinality(C) \in Nat
      /\ Cardinality(A \cup B) \in Nat /\ Cardinality(A \cap B) \in Nat
      /\ Cardinality((A \cup B) \cap C) \in Nat
  BY <1>1, <1>3, FS_CardinalityType
<1> QED BY <1>1, <1>2, <1>4

\* In the time of a window, each of the three windows it meets lets through what its counts
\* allow: the last has one, the one before may have two, and the first only when calls come late.
LEMMA SlidingBound ==
    ASSUME LimiterInv, NEW t \in Nat
    PROVE  Cardinality(During(t)) <= SlidingQuota
<1> DEFINE k == t \div Window
           OfSlot(s) == {i \in During(t) : allowed[i].slot = s}
<1>1. /\ k \in Nat /\ k * Window \in Int /\ k * Window <= t /\ t < k * Window + Window
      /\ \A i \in During(t) :
           /\ allowed[i].slot \in {k - 1, k, k + 1} /\ allowed[i].at \in Nat
           /\ allowed[i].slot = k - 1 => allowed[i].at < k * Window + MaxDelay
           /\ allowed[i].slot = k + 1 => k * Window + Window <= allowed[i].at
  BY ThreeWindows
<1> HIDE DEF k
<1>2. \A i \in During(t) : i \in DOMAIN allowed /\ t <= allowed[i].at /\ allowed[i].at < t + Window
  BY DEF During
<1>3. PICK x \in Int : x = k * Window
  BY <1>1
<1>4. During(t) = OfSlot(k - 1) \cup OfSlot(k) \cup OfSlot(k + 1)
  BY <1>1
<1>5. \A s : /\ OfSlot(s) \in SUBSET During(t)
             /\ \A i, j \in OfSlot(s) : allowed[i].slot = allowed[j].slot
  OBVIOUS
<1>6. ASSUME NEW s
      PROVE  /\ IsFiniteSet(OfSlot(s)) /\ Cardinality(OfSlot(s)) \in Nat
             /\ Cardinality(OfSlot(s)) <= 2 * Limit - 1
  BY <1>5, TwoCounts
<1>7. ASSUME NEW s, \A i, j \in OfSlot(s) : ~ allowed[i].expires < allowed[j].expires
      PROVE  Cardinality(OfSlot(s)) <= Limit
  BY <1>5, <1>7, OneCountOnly
\* Where a request has a later count than another.
<1>8. ASSUME NEW s, NEW i \in OfSlot(s), NEW j \in OfSlot(s), allowed[i].expires < allowed[j].expires
      PROVE  /\ allowed[i].at < allowed[j].at /\ s * Window + Window <= allowed[j].at
             /\ t <= allowed[i].at /\ allowed[j].at < t + Window /\ s \in Int /\ s * Window \in Int
             /\ allowed[i].at \in Nat /\ allowed[j].at \in Nat
  <2>1. /\ i \in DOMAIN allowed /\ j \in DOMAIN allowed /\ allowed[i].slot = s /\ allowed[j].slot = s
        /\ t <= allowed[i].at /\ allowed[j].at < t + Window
    BY <1>2, <1>8
  <2>2. /\ allowed[i].at < allowed[i].expires /\ allowed[i].expires <= allowed[j].at
        /\ s * Window + Window <= allowed[j].at
    BY <1>8, <2>1, CountsOfWindow
  <2>3. /\ s \in Int /\ s * Window \in Int /\ allowed[i].at \in Nat /\ allowed[j].at \in Nat
        /\ allowed[i].expires \in Nat
    BY <2>1, LetThroughTypes DEF LimiterInv
  <2>4. allowed[i].at < allowed[j].at
    BY ONLY <2>2, <2>3
  <2> QED BY <2>1, <2>2, <2>3, <2>4
<1>9. /\ Cardinality(OfSlot(k - 1)) \in Nat /\ Cardinality(OfSlot(k)) \in Nat
      /\ Cardinality(OfSlot(k + 1)) \in Nat
      /\ Cardinality(During(t))
           <= Cardinality(OfSlot(k - 1)) + Cardinality(OfSlot(k)) + Cardinality(OfSlot(k + 1))
  BY <1>4, <1>6, UnionOfThree
<1>10. IsFiniteSet(During(t)) /\ Cardinality(During(t)) \in Nat
  <2>1. DOMAIN allowed = 1 .. Len(allowed) /\ Len(allowed) \in Nat
    BY LetThroughTypes DEF LimiterInv
  <2>2. IsFiniteSet(DOMAIN allowed)
    BY <2>1, FS_Interval
  <2> QED BY <1>2, <2>2, FS_Subset, FS_CardinalityType
<1>11. Cardinality(OfSlot(k + 1)) <= Limit
  <2>1. ASSUME NEW i \in OfSlot(k + 1), NEW j \in OfSlot(k + 1), allowed[i].expires < allowed[j].expires
        PROVE  FALSE
    <3>1. /\ (k + 1) * Window + Window <= allowed[j].at /\ allowed[j].at < t + Window
          /\ (k + 1) * Window \in Int /\ allowed[j].at \in Nat
      BY <1>8, <2>1
    <3>2. x + Window <= (k + 1) * Window
      BY <1>1, <1>3, WindowsApart
    <3>3. PICK y \in Int : y = (k + 1) * Window
      BY <3>1
    <3>4. t < x + Window /\ Window \in Nat
      BY <1>1, <1>3
    <3> QED BY ONLY <1>3, <3>1, <3>2, <3>3, <3>4, t \in Nat
  <2> QED BY <1>7, <2>1
\* Where a slot has no request, and where all of its requests are in time.
<1>12. k * Window + MaxDelay <= t => Cardinality(OfSlot(k - 1)) = 0
  <2>1. ASSUME k * Window + MaxDelay <= t, NEW i \in OfSlot(k - 1) PROVE FALSE
    <3>1. allowed[i].at < x + MaxDelay /\ t <= allowed[i].at /\ allowed[i].at \in Nat
      BY <1>1, <1>2, <1>3
    <3>2. x + MaxDelay <= t
      BY <1>3, <2>1
    <3> QED BY <3>1, <3>2
  <2>2. k * Window + MaxDelay <= t => OfSlot(k - 1) = {}
    BY <2>1
  <2> QED BY <2>2, FS_EmptySet
<1> HIDE DEF OfSlot
<1>13. CASE MaxDelay = 0
  <2>1. Cardinality(OfSlot(k - 1)) = 0
    BY <1>1, <1>12, <1>13
  <2>2. Cardinality(OfSlot(k)) <= Limit
    <3>1. ASSUME NEW i \in OfSlot(k), NEW j \in OfSlot(k), allowed[i].expires < allowed[j].expires
          PROVE  FALSE
      <4>1. x + Window <= allowed[j].at /\ allowed[j].at \in Nat /\ j \in DOMAIN allowed /\ allowed[j].slot = k
        BY <1>2, <1>3, <1>8, <3>1 DEF OfSlot
      <4>2. allowed[j].at < x + Window + MaxDelay
        BY <1>3, <4>1 DEF LimiterInv, LetThroughInTime
      <4> QED BY <1>13, <4>1, <4>2
    <3> QED BY <1>7, <3>1
  <2> QED BY <1>9, <1>10, <1>11, <1>13, <2>1, <2>2 DEF SlidingQuota
<1>14. CASE MaxDelay = 1
  <2>1. CASE x < t
    <3>1. Cardinality(OfSlot(k - 1)) = 0
      <4>1. k * Window + MaxDelay <= t
        BY <1>3, <1>14, <2>1
      <4> QED BY <4>1, <1>12
    <3>2. Cardinality(OfSlot(k)) <= 2 * Limit - 1
      BY <1>6
    <3> QED BY <1>9, <1>10, <1>11, <1>14, <3>1, <3>2 DEF SlidingQuota
  <2>2. CASE x = t
    <3>1. Cardinality(OfSlot(k - 1)) <= Limit
      <4>1. \A i \in OfSlot(k - 1) : allowed[i].at = t
        <5>1. ASSUME NEW i \in OfSlot(k - 1) PROVE allowed[i].at = t
          <6>1. allowed[i].at < x + MaxDelay /\ t <= allowed[i].at /\ allowed[i].at \in Nat
            BY <1>1, <1>2, <1>3 DEF OfSlot
          <6> QED BY <1>14, <2>2, <6>1
        <5> QED BY <5>1
      <4>2. \A i, j \in OfSlot(k - 1) : ~ allowed[i].expires < allowed[j].expires
        <5>1. ASSUME NEW i \in OfSlot(k - 1), NEW j \in OfSlot(k - 1), allowed[i].expires < allowed[j].expires
              PROVE  FALSE
          <6>1. allowed[i].at < allowed[j].at
            BY <1>8, <5>1
          <6> QED BY <4>1, <6>1
        <5> QED BY <5>1
      <4> QED BY <1>7, <4>2
    <3>2. Cardinality(OfSlot(k)) <= Limit
      <4>1. ASSUME NEW i \in OfSlot(k), NEW j \in OfSlot(k), allowed[i].expires < allowed[j].expires
            PROVE  FALSE
        <5>1. x + Window <= allowed[j].at /\ allowed[j].at \in Nat /\ allowed[j].at < t + Window
          BY <1>3, <1>8, <4>1
        <5> QED BY <2>2, <5>1
      <4> QED BY <1>7, <4>1
    <3>3. Cardinality(OfSlot(k + 1)) = 0
      <4>1. ASSUME NEW i \in OfSlot(k + 1) PROVE FALSE
        <5>1. x + Window <= allowed[i].at /\ allowed[i].at < t + Window /\ allowed[i].at \in Nat
          BY <1>1, <1>2, <1>3 DEF OfSlot
        <5> QED BY <2>2, <5>1
      <4> QED BY <4>1, FS_EmptySet
    <3> QED BY <1>9, <1>10, <1>14, <3>1, <3>2, <3>3 DEF SlidingQuota
  <2> QED BY <1>1, <1>3, <2>1, <2>2
<1>15. CASE MaxDelay > 1
  <2>1. Cardinality(OfSlot(k - 1)) <= 2 * Limit - 1 /\ Cardinality(OfSlot(k)) <= 2 * Limit - 1
    BY <1>6
  <2> QED BY <1>9, <1>10, <1>11, <1>15, <2>1 DEF SlidingQuota
<1> QED BY <1>13, <1>14, <1>15

\* The limiter's variables keep their types.
THEOREM LimiterTypeCorrect == RateLimiterSpec => []RateLimiterTypeOK
<1>1. LimiterInv => RateLimiterTypeOK
  BY DEF LimiterInv
<1> QED BY LimiterInitially, LimiterStep, <1>1, PTL DEF RateLimiterSpec

\* The quota.
THEOREM QuotaHoldsCorrect == RateLimiterSpec => []QuotaHolds
<1>1. LimiterInv => QuotaHolds
  <2>1. ASSUME LimiterInv, NEW t \in Times PROVE Cardinality(During(t)) <= SlidingQuota
    BY <2>1, SlidingBound DEF Times
  <2> QED BY <2>1, WindowQuota DEF QuotaHolds
<1> QED BY LimiterInitially, LimiterStep, <1>1, PTL DEF RateLimiterSpec
=============================================================================
