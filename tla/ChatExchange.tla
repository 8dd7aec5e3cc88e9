---------------------------- MODULE ChatExchange ----------------------------
(***************************************************************************)
(* The chat service: a question about a book is answered in a conversation *)
(* and saved as one exchange, a question and an answer, once per           *)
(* idempotency key.  Conversations are renamed and deleted, and books are  *)
(* removed, while answers are being generated.                             *)
(*                                                                         *)
(* A step is one statement or transaction on the database; finding the     *)
(* answer (module Answering) is one step that may fail.                    *)
(***************************************************************************)
EXTENDS Naturals, Sequences, FiniteSets, Idempotency

CONSTANTS
    ChatKeys,        \* idempotency keys; a question may also come without one
    Conversations,   \* conversation ids: numbers, in the order they are made
    ChatBooks,       \* books
    ChatCalls,       \* requests in progress
    MaxExchanges     \* bound: exchanges saved

ASSUME ChatExchangeAssumption ==
    /\ Conversations \subseteq Nat \ {0} /\ MaxExchanges \in Nat
    /\ "none" \notin ChatKeys \cup ChatBooks

VARIABLES
    chatRecord,      \* idempotency_record_models
    conversation,    \* conversation_models: the book and the title of each, or no row
    exchange,        \* message_models: pairs saved together
    bookRow,         \* book_models: ready, marked deleted, or gone
    chatCall,        \* the locals of each request
    removing,        \* the book whose rows are being removed
    saves,           \* history: the keys of the exchanges saved, one after the other
    late             \* history: conversations saved while their book was being removed

chatVars == <<chatRecord, conversation, exchange, bookRow, chatCall, removing, saves, late>>

NoConversation == [book |-> "none", title |-> "none"]
NoChatCall == [pc |-> "idle", key |-> "none", conv |-> 0, book |-> "none",
               title |-> "none", create |-> FALSE]
Titles == {"first", "renamed"}

ChatExchangeTypeOK ==
    /\ \A k \in ChatKeys : chatRecord[k].state \in RecordStates
    /\ conversation \in [Conversations -> [book: ChatBooks \cup {"none"}, title: Titles \cup {"none"}]]
    /\ \A e \in exchange : e.conv \in Conversations /\ e.book \in ChatBooks
    /\ bookRow \in [ChatBooks -> {"ready", "deleted", "gone"}]
    /\ removing \in ChatBooks \cup {"none"} /\ late \subseteq Conversations
    /\ saves \in Seq(ChatKeys \cup {"none"}) /\ Len(saves) <= MaxExchanges

ChatAt(c, pc) == chatCall[c].pc = pc
ChatGo(c, pc) == chatCall' = [chatCall EXCEPT ![c].pc = pc]
ChatReturn(c) == chatCall' = [chatCall EXCEPT ![c] = NoChatCall]
Exists(v) == conversation[v].book # "none"

\* Ids that no row had and no request holds: util.NewID.
UnusedConversation ==
    {v \in Conversations : /\ ~ Exists(v) /\ \A e \in exchange : e.conv # v
                           /\ \A c \in ChatCalls : chatCall[c].conv # v}
RequestHash(c) == <<chatCall[c].book, IF chatCall[c].create THEN 0 ELSE chatCall[c].conv>>
Total == Len(saves)

-----------------------------------------------------------------------------
(* A question *)

\* As it would be if the book of the request were taken in any case.
RequestedBook(v, b) == b

\* handleChats: the book of a request is the one of its conversation when it names one,
\* else the one it names.
ResolvedBook(v, b) == IF v # 0 THEN conversation[v].book ELSE b

\* The book must be there; askQuestion refuses one that is not ready.
handleChats(c) ==
    \E k \in ChatKeys \cup {"none"}, b \in ChatBooks, v \in {0} \cup {w \in Conversations : Exists(w)} :
        /\ ChatAt(c, "idle") /\ Total < MaxExchanges
        /\ bookRow[ResolvedBook(v, b)] = "ready"
        /\ chatCall' = [chatCall EXCEPT ![c] =
                          [pc |-> IF k = "none" THEN "ensure" ELSE "look", key |-> k, conv |-> v,
                           book |-> ResolvedBook(v, b), title |-> "none", create |-> v = 0]]
        /\ UNCHANGED <<chatRecord, conversation, exchange, bookRow, removing, saves, late>>

\* No step of the service marks a record failed, so none is taken up again.
beginChatIdempotency(c) ==
    /\ ChatAt(c, "look")
    /\ IF FirstLook(chatRecord[chatCall[c].key], RequestHash(c)) \in {"insert", "retry"}
       THEN ChatGo(c, "insert") ELSE ChatReturn(c)
    /\ UNCHANGED <<chatRecord, conversation, exchange, bookRow, removing, saves, late>>

\* As it would be without the unique index.
UpsertChatRecord(c) ==
    /\ ChatAt(c, "insert")
    /\ chatRecord' = [chatRecord EXCEPT ![chatCall[c].key] = Processing(RequestHash(c))]
    /\ ChatGo(c, "ensure")
    /\ UNCHANGED <<conversation, exchange, bookRow, removing, saves, late>>

\* The record is inserted; when another request was faster, this one is refused.
SaveChatIdempotencyRecord(c) ==
    LET k == chatCall[c].key
    IN  /\ ChatAt(c, "insert")
        /\ IF chatRecord[k].state = "none"
           THEN chatRecord' = [chatRecord EXCEPT ![k] = Processing(RequestHash(c))] /\ ChatGo(c, "ensure")
           ELSE UNCHANGED chatRecord /\ ChatReturn(c)
        /\ UNCHANGED <<conversation, exchange, bookRow, removing, saves, late>>

\* The conversation is read, or a new one gets its id and its title.
ensureConversation(c) ==
    LET v == chatCall[c].conv
    IN  /\ ChatAt(c, "ensure")
        /\ \/ /\ ~ chatCall[c].create /\ Exists(v)
              /\ chatCall' = [chatCall EXCEPT ![c].pc = "answer", ![c].title = conversation[v].title]
           \/ ~ chatCall[c].create /\ ~ Exists(v) /\ ChatReturn(c)
           \/ /\ chatCall[c].create /\ UnusedConversation # {}
              /\ LET w == CHOOSE w \in UnusedConversation : \A u \in UnusedConversation : w <= u
                 IN  chatCall' = [chatCall EXCEPT ![c].pc = "answer", ![c].conv = w, ![c].title = "first"]
        /\ UNCHANGED <<chatRecord, conversation, exchange, bookRow, removing, saves, late>>

\* History, plan, retrieval and generation; then the exchange is ready to be saved.
AnswerQuestion(c) ==
    /\ ChatAt(c, "answer")
    /\ ChatGo(c, "save")
    /\ UNCHANGED <<chatRecord, conversation, exchange, bookRow, removing, saves, late>>

\* An error at any step, a client that left a stream, or a service that stops: the record
\* stays as it is.
ChatFails(c) ==
    /\ ~ ChatAt(c, "idle")
    /\ ChatReturn(c)
    /\ UNCHANGED <<chatRecord, conversation, exchange, bookRow, removing, saves, late>>

\* The foreign keys of the messages: their conversation and their book have a row.
ForeignKeysHold(c) ==
    /\ chatCall[c].create \/ Exists(chatCall[c].conv)
    /\ bookRow[chatCall[c].book] # "gone"

\* One transaction: the conversation if it is new, both messages, the title the request
\* read, the completed record.
SaveConversationExchange(c) ==
    LET v == chatCall[c].conv
        b == chatCall[c].book
        k == chatCall[c].key
    IN  /\ ChatAt(c, "save") /\ ForeignKeysHold(c) /\ Total < MaxExchanges
        /\ conversation' = [conversation EXCEPT ![v].book = IF chatCall[c].create THEN b ELSE @,
                                                ![v].title = chatCall[c].title]
        /\ exchange' = exchange \cup {[conv |-> v, book |-> b, n |-> Total]}
        /\ chatRecord' = IF k = "none" THEN chatRecord
                         ELSE [chatRecord EXCEPT ![k] = Completed(RequestHash(c), v)]
        /\ saves' = Append(saves, k)
        /\ late' = IF removing = b THEN late \cup {v} ELSE late
        /\ ChatReturn(c)
        /\ UNCHANGED <<bookRow, removing>>

-----------------------------------------------------------------------------
(* Conversations and books that change meanwhile *)

\* RenameConversation reads the row and updates it by its id.
RenameConversation(c) ==
    \E v \in Conversations :
        /\ ChatAt(c, "idle") /\ Exists(v)
        /\ conversation' = [conversation EXCEPT ![v].title = "renamed"]
        /\ UNCHANGED <<chatRecord, exchange, bookRow, chatCall, removing, saves, late>>

\* Messages and row in one transaction.
DeleteConversation(c) ==
    \E v \in Conversations :
        /\ ChatAt(c, "idle") /\ Exists(v)
        /\ conversation' = [conversation EXCEPT ![v] = NoConversation]
        /\ exchange' = {e \in exchange : e.conv # v}
        /\ UNCHANGED <<chatRecord, bookRow, chatCall, removing, saves, late>>

\* The book service deletes a book, and its cleanup removes the rows: the conversations,
\* then the messages and, in the same transaction, the book.
MarkBookRowDeleted(b) ==
    /\ bookRow[b] = "ready"
    /\ bookRow' = [bookRow EXCEPT ![b] = "deleted"]
    /\ UNCHANGED <<chatRecord, conversation, exchange, chatCall, removing, saves, late>>

RemoveConversations(b) ==
    /\ bookRow[b] = "deleted" /\ removing = "none"
    /\ removing' = b
    /\ conversation' = [v \in Conversations |-> IF conversation[v].book = b THEN NoConversation ELSE conversation[v]]
    /\ exchange' = {e \in exchange : conversation[e.conv].book # b}
    /\ UNCHANGED <<chatRecord, bookRow, chatCall, saves, late>>

RemoveBook(b) ==
    /\ removing = b
    /\ removing' = "none"
    /\ bookRow' = [bookRow EXCEPT ![b] = "gone"]
    /\ exchange' = {e \in exchange : e.book # b}
    /\ UNCHANGED <<chatRecord, conversation, chatCall, saves, late>>

-----------------------------------------------------------------------------
ChatExchangeInit ==
    /\ chatRecord = [k \in ChatKeys |-> NoRecord]
    /\ conversation = [v \in Conversations |-> NoConversation]
    /\ exchange = {} /\ late = {}
    /\ bookRow = [b \in ChatBooks |-> "ready"]
    /\ chatCall = [c \in ChatCalls |-> NoChatCall]
    /\ removing = "none"
    /\ saves = <<>>

ChatExchangeNext ==
    \/ \E c \in ChatCalls :
        \/ handleChats(c) \/ beginChatIdempotency(c) \/ SaveChatIdempotencyRecord(c)
        \/ ensureConversation(c) \/ AnswerQuestion(c) \/ ChatFails(c)
        \/ SaveConversationExchange(c) \/ RenameConversation(c) \/ DeleteConversation(c)
    \/ \E b \in ChatBooks : MarkBookRowDeleted(b) \/ RemoveConversations(b) \/ RemoveBook(b)

ChatExchangeSpec == ChatExchangeInit /\ [][ChatExchangeNext]_chatVars

-----------------------------------------------------------------------------
(* What the service promises *)

\* Requests with the same key, overlapping or repeated, save one exchange, also when the
\* conversation it was saved in is deleted in between.
OneAnswerPerKey ==
    \A i, j \in DOMAIN saves : saves[i] = saves[j] /\ saves[i] # "none" => i = j

\* A conversation is about one book: every exchange in it was answered from the book the
\* conversation was made for, and a conversation goes when its book goes, unless an answer
\* was saved while the book was being removed.
ConversationKeepsBook ==
    /\ \A e \in exchange : conversation[e.conv].book = e.book
    /\ \A v \in Conversations \ late : Exists(v) => bookRow[conversation[v].book] # "gone"
=============================================================================
