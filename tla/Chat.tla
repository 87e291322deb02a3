-------------------------------- MODULE Chat --------------------------------
(****************************************************************************)
(* One group chat: members send messages over a socket, tasks deliver them, *)
(* members read them, edit and delete their own, and the owner may delete   *)
(* the chat.  The chat's row names its last message.                        *)
(*                                                                          *)
(* The text of a message is not modelled, so saving an edit only writes     *)
(* back what it had loaded.  Sockets are told after each step and keep no   *)
(* state.                                                                   *)
(****************************************************************************)
EXTENDS Naturals, FiniteSetsExt

CONSTANTS
    ChatUsers,
    MaxMessage,     \* bound on the message ids
    MaxLoaded       \* bound on the requests that have loaded rows and not saved them

ASSUME ChatAssumption == MaxMessage \in Nat /\ MaxLoaded \in Nat

VARIABLES
    members,
    messages,       \* id -> who sent it and whether it is being written, there or deleted
    lastMessage,    \* last_message, 0 if there is none
    receipts,       \* user -> message -> what he has of it
    chatTasks,      \* what is to be done after a commit or by a task: [kind, message]
    edits,          \* messages loaded by an edit that is not saved
    deletions,      \* messages loaded by a deletion that is not saved, with the chat as it was
    chatRow,        \* is the chat deleted, and what its deletion had loaded as the last message
    astray          \* history: a message committed after a later one, or the last one set from old data

chatVars == <<members, messages, lastMessage, receipts, chatTasks, edits, deletions, chatRow, astray>>

MessageIds == 1..MaxMessage
NotLoaded == MaxMessage + 1

ChatInit ==
    /\ members = ChatUsers
    /\ messages = [m \in {} |-> 0]
    /\ lastMessage = 0
    /\ receipts = [u \in ChatUsers |-> [m \in MessageIds |-> "none"]]
    /\ chatTasks = {}
    /\ edits = {}
    /\ deletions = {}
    /\ chatRow = [deleted |-> FALSE, loaded |-> NotLoaded]
    /\ astray = [late |-> {}, last |-> FALSE]

Visible == {m \in DOMAIN messages : messages[m].state # "written"}
Shown == {m \in DOMAIN messages : messages[m].state = "there"}
LoadsOne ==
    LET chats == IF chatRow.loaded = NotLoaded THEN 0 ELSE 1 IN
    Cardinality(edits) + Cardinality(deletions) + chats < MaxLoaded
Newest(S) == IF S = {} THEN 0 ELSE Max(S)

-----------------------------------------------------------------------------
(* Sending.  Ids are given out before the commit.                           *)

Send(u) ==
    LET m == Cardinality(DOMAIN messages) + 1 IN
    /\ u \in members
    /\ m <= MaxMessage
    /\ messages' = [n \in DOMAIN messages \cup {m} |->
                      IF n = m THEN [sender |-> u, state |-> "written"] ELSE messages[n]]
    /\ UNCHANGED <<members, lastMessage, receipts, chatTasks, edits, deletions, chatRow, astray>>

CommitSend(m) ==
    /\ messages[m].state = "written"
    /\ messages' = [messages EXCEPT ![m].state = "there"]
    /\ chatTasks' = chatTasks \cup {[kind |-> "hook", message |-> m]}
    /\ astray' = [astray EXCEPT !.late = IF \E n \in Visible : n > m THEN @ \cup {m} ELSE @]
    /\ UNCHANGED <<members, lastMessage, receipts, edits, deletions, chatRow>>

(* After the commit: this message is the last, whatever came since, and     *)
(* will be delivered.                                                       *)
AfterCommit(m) ==
    LET hook == [kind |-> "hook", message |-> m] IN
    /\ hook \in chatTasks
    /\ lastMessage' = m
    /\ chatTasks' = (chatTasks \ {hook}) \cup {[kind |-> "deliver", message |-> m]}
    /\ astray' = [astray EXCEPT !.last = @ \/ m # Newest(Shown)]
    /\ UNCHANGED <<members, messages, receipts, edits, deletions, chatRow>>

(* The process ends before that.                                            *)
LoseHook(m) ==
    LET hook == [kind |-> "hook", message |-> m] IN
    /\ hook \in chatTasks
    /\ chatTasks' = chatTasks \ {hook}
    /\ astray' = [astray EXCEPT !.last = TRUE]
    /\ UNCHANGED <<members, messages, lastMessage, receipts, edits, deletions, chatRow>>

(* Slip: the row that is there is overwritten. *)
Slip_Deliver(m) ==
    LET task == [kind |-> "deliver", message |-> m] IN
    /\ task \in chatTasks
    /\ chatTasks' = chatTasks \ {task}
    /\ receipts' = [u \in ChatUsers |->
                      IF u \in members \ {messages[m].sender}
                      THEN [receipts[u] EXCEPT ![m] = "delivered"] ELSE receipts[u]]
    /\ UNCHANGED <<members, messages, lastMessage, edits, deletions, chatRow, astray>>

(* deliver_message: rows that are there already are left alone.             *)
Deliver(m) ==
    LET task == [kind |-> "deliver", message |-> m] IN
    /\ task \in chatTasks
    /\ chatTasks' = chatTasks \ {task}
    /\ receipts' = [u \in ChatUsers |->
                      IF u \in members \ {messages[m].sender} /\ receipts[u][m] = "none"
                      THEN [receipts[u] EXCEPT ![m] = "delivered"] ELSE receipts[u]]
    /\ UNCHANGED <<members, messages, lastMessage, edits, deletions, chatRow, astray>>

(* Slip: only what was delivered is marked. *)
Slip_MarkAsRead(u, upTo) ==
    /\ receipts' = [receipts EXCEPT ![u] =
                      [m \in MessageIds |-> IF m <= upTo /\ @[m] = "delivered" THEN "read" ELSE @[m]]]
    /\ UNCHANGED <<members, messages, lastMessage, chatTasks, edits, deletions, chatRow, astray>>

(* mark_message_as_read: everything the others sent up to that message, the *)
(* deleted messages too.                                                    *)
MarkAsRead(u, upTo) ==
    /\ receipts' = [receipts EXCEPT ![u] =
                      [m \in MessageIds |->
                         IF m \in Visible /\ m <= upTo /\ messages[m].sender # u THEN "read" ELSE @[m]]]
    /\ UNCHANGED <<members, messages, lastMessage, chatTasks, edits, deletions, chatRow, astray>>

-----------------------------------------------------------------------------
(* Editing and deleting a message: the rows are loaded and saved whole.     *)

StartEdit(m) ==
    /\ m \in Shown \ edits
    /\ LoadsOne
    /\ edits' = edits \cup {m}
    /\ UNCHANGED <<members, messages, lastMessage, receipts, chatTasks, deletions, chatRow, astray>>

SaveEdit(m) ==
    /\ m \in edits
    /\ edits' = edits \ {m}
    /\ messages' = [messages EXCEPT ![m].state = "there"]
    /\ chatTasks' = chatTasks \cup {[kind |-> "refresh", message |-> 0]}
    /\ UNCHANGED <<members, lastMessage, receipts, deletions, chatRow, astray>>

(* update_last_message_id_of_chat: the largest id, deleted or not; a chat   *)
(* without a last message stays without.                                    *)
RefreshLast ==
    LET task == [kind |-> "refresh", message |-> 0] IN
    /\ task \in chatTasks
    /\ chatTasks' = chatTasks \ {task}
    /\ lastMessage' = IF lastMessage = 0 THEN 0 ELSE Newest(Visible)
    /\ astray' = [astray EXCEPT !.last = @ \/ lastMessage' # Newest(Shown)]
    /\ UNCHANGED <<members, messages, receipts, edits, deletions, chatRow>>

StartDelete(m) ==
    /\ m \in Shown
    /\ m \notin {d.message : d \in deletions}
    /\ LoadsOne
    /\ deletions' = deletions \cup {[message |-> m, chatDeleted |-> chatRow.deleted]}
    /\ UNCHANGED <<members, messages, lastMessage, receipts, chatTasks, edits, chatRow, astray>>

(* Slip: the last message stays, deleted. *)
Slip_SaveDelete(d) ==
    /\ deletions' = deletions \ {d}
    /\ messages' = [messages EXCEPT ![d.message].state = "deleted"]
    /\ chatRow' = [chatRow EXCEPT !.deleted = d.chatDeleted]
    /\ UNCHANGED <<members, lastMessage, receipts, chatTasks, edits, astray>>

SaveDelete(d) ==
    /\ deletions' = deletions \ {d}
    /\ messages' = [messages EXCEPT ![d.message].state = "deleted"]
    /\ lastMessage' = Newest(Shown \ {d.message})
    /\ chatRow' = [chatRow EXCEPT !.deleted = d.chatDeleted]
    /\ UNCHANGED <<members, receipts, chatTasks, edits, astray>>

-----------------------------------------------------------------------------
(* The chat.                                                                *)

StartDeleteChat ==
    /\ chatRow.loaded = NotLoaded
    /\ LoadsOne
    /\ chatRow' = [chatRow EXCEPT !.loaded = lastMessage]
    /\ UNCHANGED <<members, messages, lastMessage, receipts, chatTasks, edits, deletions, astray>>

SaveDeleteChat ==
    /\ chatRow.loaded # NotLoaded
    /\ chatRow' = [deleted |-> TRUE, loaded |-> NotLoaded]
    /\ lastMessage' = chatRow.loaded
    /\ astray' = [astray EXCEPT !.last = @ \/ lastMessage' # Newest(Shown)]
    /\ UNCHANGED <<members, messages, receipts, chatTasks, edits, deletions>>

AddMember(u) ==
    /\ members' = members \cup {u}
    /\ UNCHANGED <<messages, lastMessage, receipts, chatTasks, edits, deletions, chatRow, astray>>

RemoveMember(u) ==
    /\ members' = members \ {u}
    /\ UNCHANGED <<messages, lastMessage, receipts, chatTasks, edits, deletions, chatRow, astray>>

-----------------------------------------------------------------------------

MessageStep(m) ==
    \/ CommitSend(m) \/ AfterCommit(m) \/ LoseHook(m) \/ Deliver(m)
    \/ StartEdit(m) \/ SaveEdit(m) \/ StartDelete(m)

ChatNext ==
    \/ \E u \in ChatUsers : \/ Send(u) \/ AddMember(u) \/ RemoveMember(u)
                            \/ \E upTo \in DOMAIN messages : MarkAsRead(u, upTo)
    \/ \E m \in DOMAIN messages : MessageStep(m)
    \/ \E d \in deletions : SaveDelete(d)
    \/ RefreshLast
    \/ StartDeleteChat
    \/ SaveDeleteChat

ChatSpec == ChatInit /\ [][ChatNext]_chatVars

-----------------------------------------------------------------------------
(* Properties.                                                              *)

(* A receipt never goes back: neither a delivery that comes after the       *)
(* reading nor a second reading makes a read message unread, and nobody has *)
(* one of his own message.                                                  *)
ReadStaysRead ==
    [][\A u \in ChatUsers, m \in MessageIds :
          /\ receipts[u][m] = "read" => receipts'[u][m] = "read"
          /\ receipts[u][m] = "delivered" => receipts'[u][m] # "none"
          /\ receipts'[u][m] # "none" => messages[m].sender # u]_chatVars

(* What a user has read has no gap: below a message he has read, every      *)
(* message of the others is read, delivered or not, unless it was committed *)
(* after a later one.  The first unread message a client is shown comes     *)
(* after all he has read.                                                   *)
NoGapBelowRead ==
    \A u \in ChatUsers, m, n \in Visible :
       /\ receipts[u][m] = "read" /\ n < m /\ messages[n].sender # u
       => receipts[u][n] = "read" \/ n \in astray.late

(* At rest the chat names its newest message that is not deleted, unless a  *)
(* hook was lost or overtaken, or the last message was set from a row       *)
(* loaded before or to a deleted message.                                   *)
LastMessageIsNewest ==
    chatTasks = {} /\ ~astray.last => lastMessage = Newest(Shown)
=============================================================================
