----------------------------- MODULE ChatProofs -----------------------------
(****************************************************************************)
(* For any number of users, messages and requests: receipts never go back,  *)
(* what a user has read has no gap, and a chat at rest names its newest     *)
(* message.  The invariant says that whatever is remembered of a message,   *)
(* by receipts, tasks or requests, is of one that was committed.            *)
(****************************************************************************)
EXTENDS Chat, FiniteSetTheorems, TLAPS

MessageRow == [sender : ChatUsers, state : {"written", "there", "deleted"}]

ChatTyped ==
    /\ DOMAIN messages \subseteq MessageIds
    /\ DOMAIN messages = 1..Cardinality(DOMAIN messages)
    /\ IsFiniteSet(DOMAIN messages)
    /\ \A m \in DOMAIN messages : messages[m] \in MessageRow
    /\ receipts \in [ChatUsers -> [MessageIds -> {"none", "delivered", "read"}]]
    /\ astray \in [late : SUBSET MessageIds, last : BOOLEAN]

OfCommitted ==
    /\ edits \subseteq Visible
    /\ \A d \in deletions : d.message \in Visible
    /\ \A t \in chatTasks : t.kind # "refresh" => t.message \in Visible
    /\ \A u \in ChatUsers, m \in MessageIds :
          receipts[u][m] # "none" => m \in Visible /\ messages[m].sender # u

(* Between a commit or an edit and the step that sets the last message,     *)
(* there is a hook or a task for it.                                        *)
NewestOrPending ==
    \/ astray.last
    \/ lastMessage = Newest(Shown)
    \/ \E t \in chatTasks : t.kind # "deliver"

ChatInv == ChatTyped /\ OfCommitted /\ NoGapBelowRead /\ NewestOrPending

-----------------------------------------------------------------------------
(* How the table of messages changes.                                       *)

(* What is visible and shown depends on the messages alone.                 *)
LEMMA SameMessages ==
    ASSUME UNCHANGED messages
    PROVE  Visible' = Visible /\ Shown' = Shown
  BY DEF Visible, Shown

(* A message that becomes visible, or is deleted, keeps its sender.         *)
LEMMA StateChange ==
    ASSUME ChatTyped, NEW m \in DOMAIN messages, NEW st \in {"there", "deleted"},
           messages' = [messages EXCEPT ![m].state = st]
    PROVE  /\ DOMAIN messages' = DOMAIN messages
           /\ \A n \in DOMAIN messages : /\ messages'[n] \in MessageRow
                                         /\ messages'[n].sender = messages[n].sender
           /\ Visible' = Visible \cup {m}
           /\ Shown' = IF st = "there" THEN Shown \cup {m} ELSE Shown \ {m}
  <1>1. DOMAIN messages' = DOMAIN messages /\ \A n \in DOMAIN messages \ {m} : messages'[n] = messages[n]
    OBVIOUS
  <1>2. messages[m] \in MessageRow
    BY DEF ChatTyped
  <1>3. messages'[m] = [messages[m] EXCEPT !.state = st]
    OBVIOUS
  <1>4. messages'[m] \in MessageRow /\ messages'[m].sender = messages[m].sender /\ messages'[m].state = st
    BY <1>2, <1>3 DEF MessageRow
  <1>5. \A n \in DOMAIN messages : messages'[n] \in MessageRow /\ messages'[n].sender = messages[n].sender
    BY <1>1, <1>4 DEF ChatTyped
  <1>6. Visible' = Visible \cup {m}
    BY <1>1, <1>4 DEF Visible
  <1>7. Shown' = IF st = "there" THEN Shown \cup {m} ELSE Shown \ {m}
    BY <1>1, <1>4 DEF Shown
  <1>8. QED
    BY <1>1, <1>5, <1>6, <1>7

(* Steps that change neither messages nor receipts.                         *)
LEMMA OthersKeep ==
    ASSUME ChatInv, UNCHANGED <<messages, receipts>>,
           astray' \in [late : SUBSET MessageIds, last : BOOLEAN], astray'.late = astray.late
    PROVE  ChatTyped' /\ NoGapBelowRead' /\ Visible' = Visible /\ Shown' = Shown
  <1>1. Visible' = Visible /\ Shown' = Shown
    BY SameMessages
  <1>2. QED
    BY <1>1 DEF ChatInv, ChatTyped, NoGapBelowRead

(* The note whether the last message is astray is apart from the late ones. *)
LEMMA AstrayLast ==
    ASSUME ChatTyped, NEW b \in BOOLEAN, astray' = [astray EXCEPT !.last = b]
    PROVE  /\ astray' \in [late : SUBSET MessageIds, last : BOOLEAN]
           /\ astray'.late = astray.late
           /\ astray'.last = b
  BY DEF ChatTyped

-----------------------------------------------------------------------------
(* The steps.                                                               *)

(* An empty chat.                                                           *)
LEMMA ChatInitially == ChatInit => ChatInv
  <1> SUFFICES ASSUME ChatInit PROVE ChatInv
    OBVIOUS
  <1>1. DOMAIN messages = {}
    BY DEF ChatInit
  <1>2. Visible = {} /\ Shown = {}
    BY <1>1 DEF Visible, Shown
  <1>3. ChatTyped
    <2>1. Cardinality({}) = 0 /\ IsFiniteSet({}) /\ 1..0 = {}
      BY FS_EmptySet
    <2>2. receipts \in [ChatUsers -> [MessageIds -> {"none", "delivered", "read"}]]
      BY DEF ChatInit
    <2>3. astray \in [late : SUBSET MessageIds, last : BOOLEAN]
      BY DEF ChatInit
    <2>4. QED
      BY <1>1, <2>1, <2>2, <2>3 DEF ChatTyped
  <1>4. OfCommitted /\ NoGapBelowRead
    BY <1>2 DEF ChatInit, OfCommitted, NoGapBelowRead
  <1>5. NewestOrPending
    BY <1>2 DEF ChatInit, NewestOrPending, Newest
  <1>6. QED
    BY <1>3, <1>4, <1>5 DEF ChatInv

(* A message written, not committed.                                        *)
LEMMA SendKeeps ==
    ASSUME ChatInv, NEW u \in ChatUsers, Send(u)
    PROVE  ChatInv' /\ \A m \in DOMAIN messages : messages'[m].sender = messages[m].sender
  <1> DEFINE m == Cardinality(DOMAIN messages) + 1
             row == [sender |-> u, state |-> "written"]
  <1>1. Cardinality(DOMAIN messages) \in Nat
    BY FS_CardinalityType DEF ChatInv, ChatTyped
  <1>2. /\ m \in Nat \ {0} /\ m <= MaxMessage
        /\ messages' = [n \in DOMAIN messages \cup {m} |-> IF n = m THEN row ELSE messages[n]]
        /\ UNCHANGED <<lastMessage, receipts, chatTasks, edits, deletions, astray>>
    BY <1>1 DEF Send
  <1>3. m \notin DOMAIN messages /\ m \in MessageIds
    <2>1. DOMAIN messages = 1..(m - 1)
      BY <1>1 DEF ChatInv, ChatTyped
    <2> HIDE DEF m
    <2>2. QED
      BY <1>2, <2>1, ChatAssumption DEF MessageIds
  <1>4. DOMAIN messages \cup {m} = 1..m
    <2>1. DOMAIN messages = 1..(m - 1)
      BY <1>1 DEF ChatInv, ChatTyped
    <2> HIDE DEF m
    <2>2. QED
      BY <1>2, <2>1
  <1> HIDE DEF m
  <1>5. /\ DOMAIN messages' = DOMAIN messages \cup {m}
        /\ \A n \in DOMAIN messages : messages'[n] = messages[n]
        /\ messages'[m] = row
    BY <1>2, <1>3
  <1>6. row \in MessageRow
    BY DEF MessageRow
  <1>7. Visible' = Visible /\ Shown' = Shown
    BY <1>3, <1>5 DEF Visible, Shown
  <1>8. ChatTyped'
    <2>1. IsFiniteSet(1..m) /\ Cardinality(1..m) = m
      BY <1>2, FS_Interval
    <2>2. DOMAIN messages' = 1..Cardinality(DOMAIN messages') /\ IsFiniteSet(DOMAIN messages')
      BY <1>4, <1>5, <2>1
    <2>3. \A n \in DOMAIN messages' : messages'[n] \in MessageRow
      BY <1>5, <1>6 DEF ChatInv, ChatTyped
    <2>4. DOMAIN messages' \subseteq MessageIds
      BY <1>3, <1>5 DEF ChatInv, ChatTyped
    <2>5. QED
      BY <1>2, <2>2, <2>3, <2>4 DEF ChatInv, ChatTyped
  <1>9. OfCommitted'
    <2>1. Visible \subseteq DOMAIN messages
      BY DEF Visible
    <2>2. QED
      BY <1>2, <1>5, <1>7, <2>1 DEF ChatInv, OfCommitted
  <1>10. NoGapBelowRead'
    <2>1. Visible \subseteq DOMAIN messages
      BY DEF Visible
    <2>2. QED
      BY <1>2, <1>5, <1>7, <2>1 DEF ChatInv, NoGapBelowRead
  <1>11. NewestOrPending'
    BY <1>2, <1>7 DEF ChatInv, NewestOrPending
  <1>12. QED
    BY <1>5, <1>8, <1>9, <1>10, <1>11 DEF ChatInv

(* A commit below a message already read makes the new one late.            *)
LEMMA CommitKeeps ==
    ASSUME ChatInv, NEW m \in DOMAIN messages, CommitSend(m)
    PROVE  ChatInv' /\ \A n \in DOMAIN messages : messages'[n].sender = messages[n].sender
  <1>1. /\ messages[m].state = "written"
        /\ messages' = [messages EXCEPT ![m].state = "there"]
        /\ chatTasks' = chatTasks \cup {[kind |-> "hook", message |-> m]}
        /\ astray' = [astray EXCEPT !.late = IF \E n \in Visible : n > m THEN @ \cup {m} ELSE @]
        /\ UNCHANGED <<lastMessage, receipts, edits, deletions>>
    BY DEF CommitSend
  <1>2. /\ DOMAIN messages' = DOMAIN messages
        /\ \A n \in DOMAIN messages : /\ messages'[n] \in MessageRow
                                      /\ messages'[n].sender = messages[n].sender
        /\ Visible' = Visible \cup {m}
    BY <1>1, StateChange DEF ChatInv
  <1>3. m \notin Visible /\ Visible \subseteq DOMAIN messages /\ m \in MessageIds
    BY <1>1 DEF Visible, ChatInv, ChatTyped
  <1>4. /\ astray' \in [late : SUBSET MessageIds, last : BOOLEAN]
        /\ astray.late \subseteq astray'.late
        /\ (\E n \in Visible : n > m) => m \in astray'.late
    BY <1>1, <1>3 DEF ChatInv, ChatTyped
  <1>5. ChatTyped'
    BY <1>1, <1>2, <1>4 DEF ChatInv, ChatTyped
  <1>6. OfCommitted'
    BY <1>1, <1>2, <1>3 DEF ChatInv, OfCommitted
  <1>7. NoGapBelowRead'
    <2> SUFFICES ASSUME NEW v \in ChatUsers, NEW k \in Visible', NEW n \in Visible',
                        receipts[v][k] = "read", n < k, messages'[n].sender # v
                 PROVE  receipts[v][n] = "read" \/ n \in astray'.late
      BY <1>1 DEF NoGapBelowRead
    <2>1. k \in MessageIds /\ n \in MessageIds
      BY <1>2, <1>3 DEF ChatInv, ChatTyped
    <2>2. k \in Visible
      BY <2>1 DEF ChatInv, OfCommitted
    <2>3. CASE n = m
      <3>1. k > m
        BY <2>1, <2>3 DEF MessageIds
      <3>2. QED
        BY <1>4, <2>2, <2>3, <3>1
    <2>4. CASE n # m
      <3>1. n \in Visible /\ messages[n].sender # v
        BY <1>2, <1>3, <2>4
      <3>2. QED
        BY <1>4, <2>2, <3>1 DEF ChatInv, NoGapBelowRead
    <2>5. QED
      BY <2>3, <2>4
  <1>8. NewestOrPending'
    <2>1. [kind |-> "hook", message |-> m] \in chatTasks'
      BY <1>1
    <2>2. QED
      BY <2>1 DEF NewestOrPending
  <1>9. QED
    BY <1>2, <1>5, <1>6, <1>7, <1>8 DEF ChatInv

(* The hook after a commit names its message, whatever is newer.            *)
LEMMA AfterCommitKeeps ==
    ASSUME ChatInv, NEW m \in DOMAIN messages, AfterCommit(m)
    PROVE  ChatInv'
  <1>1. /\ [kind |-> "hook", message |-> m] \in chatTasks
        /\ lastMessage' = m
        /\ \A t \in chatTasks' : t \in chatTasks \/ t = [kind |-> "deliver", message |-> m]
        /\ astray' = [astray EXCEPT !.last = astray.last \/ m # Newest(Shown)]
        /\ UNCHANGED <<messages, receipts, edits, deletions>>
    BY DEF AfterCommit
  <1>2. /\ astray' \in [late : SUBSET MessageIds, last : BOOLEAN]
        /\ astray'.late = astray.late
        /\ astray'.last = (astray.last \/ m # Newest(Shown))
    <2>1. astray.last \in BOOLEAN
      BY DEF ChatInv, ChatTyped
    <2>2. (astray.last \/ m # Newest(Shown)) \in BOOLEAN
      BY <2>1
    <2>3. QED
      BY <1>1, <2>2, AstrayLast DEF ChatInv
  <1>3. ChatTyped' /\ NoGapBelowRead' /\ Visible' = Visible /\ Shown' = Shown
    BY <1>1, <1>2, OthersKeep
  <1>4. m \in Visible
    BY <1>1 DEF ChatInv, OfCommitted
  <1>5. OfCommitted'
    BY <1>1, <1>3, <1>4 DEF ChatInv, OfCommitted
  <1>6. NewestOrPending'
    BY <1>1, <1>2, <1>3 DEF NewestOrPending
  <1>7. QED
    BY <1>3, <1>5, <1>6 DEF ChatInv

(* The process ends before the hook.                                        *)
LEMMA LoseHookKeeps ==
    ASSUME ChatInv, NEW m \in DOMAIN messages, LoseHook(m)
    PROVE  ChatInv'
  <1>1. /\ chatTasks' \subseteq chatTasks
        /\ astray' = [astray EXCEPT !.last = TRUE]
        /\ UNCHANGED <<messages, receipts, edits, deletions>>
    BY DEF LoseHook
  <1>2. /\ astray' \in [late : SUBSET MessageIds, last : BOOLEAN]
        /\ astray'.late = astray.late
        /\ astray'.last
    BY <1>1, AstrayLast DEF ChatInv
  <1>3. ChatTyped' /\ NoGapBelowRead' /\ Visible' = Visible
    BY <1>1, <1>2, OthersKeep
  <1>4. OfCommitted'
    BY <1>1, <1>3 DEF ChatInv, OfCommitted
  <1>5. QED
    BY <1>2, <1>3, <1>4 DEF ChatInv, NewestOrPending

(* Delivery touches only receipts that are not there yet.                   *)
LEMMA DeliverKeeps ==
    ASSUME ChatInv, NEW m \in DOMAIN messages, Deliver(m)
    PROVE  /\ ChatInv'
           /\ \A u \in ChatUsers, n \in MessageIds :
                 \/ receipts'[u][n] = receipts[u][n]
                 \/ receipts[u][n] = "none" /\ receipts'[u][n] = "delivered"
  <1>1. /\ [kind |-> "deliver", message |-> m] \in chatTasks
        /\ chatTasks' = chatTasks \ {[kind |-> "deliver", message |-> m]}
        /\ UNCHANGED <<messages, lastMessage, edits, deletions, astray>>
    BY DEF Deliver
  <1>2. Visible' = Visible /\ Shown' = Shown
    BY <1>1, SameMessages
  <1>3. m \in Visible /\ m \in MessageIds
    BY <1>1 DEF ChatInv, ChatTyped, OfCommitted
  <1>4. receipts \in [ChatUsers -> [MessageIds -> {"none", "delivered", "read"}]]
    BY DEF ChatInv, ChatTyped
  <1>5. ASSUME NEW u \in ChatUsers
        PROVE  /\ receipts'[u] \in [MessageIds -> {"none", "delivered", "read"}]
               /\ \A n \in MessageIds \ {m} : receipts'[u][n] = receipts[u][n]
               /\ \/ receipts'[u][m] = receipts[u][m]
                  \/ /\ receipts[u][m] = "none" /\ receipts'[u][m] = "delivered"
                     /\ messages[m].sender # u
    <2>1. CASE u \in members \ {messages[m].sender} /\ receipts[u][m] = "none"
      <3>1. receipts'[u] = [receipts[u] EXCEPT ![m] = "delivered"]
        BY <2>1 DEF Deliver
      <3>2. QED
        BY <1>3, <1>4, <2>1, <3>1
    <2>2. CASE ~(u \in members \ {messages[m].sender} /\ receipts[u][m] = "none")
      <3>1. receipts'[u] = receipts[u]
        BY <2>2 DEF Deliver
      <3>2. QED
        BY <1>4, <3>1
    <2>3. QED
      BY <2>1, <2>2
  <1>6. ChatTyped'
    <2>1. receipts' = [u \in ChatUsers |-> receipts'[u]]
      BY DEF Deliver
    <2>2. receipts' \in [ChatUsers -> [MessageIds -> {"none", "delivered", "read"}]]
      BY <1>5, <2>1
    <2>3. QED
      BY <1>1, <2>2 DEF ChatInv, ChatTyped
  <1>7. OfCommitted'
    BY <1>1, <1>2, <1>3, <1>5 DEF ChatInv, OfCommitted
  <1>8. \A u \in ChatUsers, n \in MessageIds :
           /\ receipts'[u][n] = "read" => receipts[u][n] = "read"
           /\ receipts[u][n] = "read" => receipts'[u][n] = "read"
    BY <1>5
  <1>9. NoGapBelowRead'
    <2>1. Visible \subseteq MessageIds
      BY DEF Visible, ChatInv, ChatTyped
    <2>2. QED
      BY <1>1, <1>2, <1>8, <2>1 DEF ChatInv, NoGapBelowRead
  <1>10. NewestOrPending'
    BY <1>1, <1>2 DEF ChatInv, NewestOrPending
  <1>11. QED
    BY <1>5, <1>6, <1>7, <1>9, <1>10 DEF ChatInv

(* Reading marks all that is shown up to a message.                         *)
LEMMA MarkKeeps ==
    ASSUME ChatInv, NEW u \in ChatUsers, NEW upTo \in DOMAIN messages, MarkAsRead(u, upTo)
    PROVE  /\ ChatInv'
           /\ \A v \in ChatUsers, n \in MessageIds :
                 receipts'[v][n] = receipts[v][n] \/ receipts'[v][n] = "read"
  <1> DEFINE Others == {m \in Visible : m <= upTo /\ messages[m].sender # u}
  <1>1. UNCHANGED <<messages, lastMessage, chatTasks, edits, deletions, astray>>
    BY DEF MarkAsRead
  <1>2. Visible' = Visible /\ Shown' = Shown /\ Visible \subseteq MessageIds
    BY <1>1, SameMessages DEF Visible, ChatInv, ChatTyped
  <1>3. receipts \in [ChatUsers -> [MessageIds -> {"none", "delivered", "read"}]]
    BY DEF ChatInv, ChatTyped
  <1>4. /\ DOMAIN receipts' = ChatUsers
        /\ \A v \in ChatUsers \ {u} : receipts'[v] = receipts[v]
        /\ receipts'[u] = [m \in MessageIds |-> IF m \in Others THEN "read" ELSE receipts[u][m]]
    BY <1>3 DEF MarkAsRead
  <1>5. receipts' \in [ChatUsers -> [MessageIds -> {"none", "delivered", "read"}]]
    <2>1. receipts'[u] \in [MessageIds -> {"none", "delivered", "read"}]
      BY <1>3, <1>4
    <2>2. receipts' = [v \in ChatUsers |-> receipts'[v]]
      BY <1>3 DEF MarkAsRead
    <2>3. QED
      BY <1>3, <1>4, <2>1, <2>2
  <1>6. \A n \in MessageIds : receipts'[u][n] = IF n \in Others THEN "read" ELSE receipts[u][n]
    BY <1>4
  <1>7. ChatTyped'
    BY <1>1, <1>5 DEF ChatInv, ChatTyped
  <1>8. OfCommitted'
    <2>1. \A v \in ChatUsers, m \in MessageIds :
             receipts'[v][m] # "none" => m \in Visible /\ messages[m].sender # v
      BY <1>4, <1>6 DEF ChatInv, OfCommitted
    <2>2. QED
      BY <1>1, <1>2, <2>1 DEF ChatInv, OfCommitted
  <1>9. NoGapBelowRead'
    <2> SUFFICES ASSUME NEW v \in ChatUsers, NEW m \in Visible, NEW n \in Visible,
                        receipts'[v][m] = "read", n < m, messages[n].sender # v
                 PROVE  receipts'[v][n] = "read" \/ n \in astray.late
      BY <1>1, <1>2 DEF NoGapBelowRead
    <2>1. CASE v # u
      BY <1>4, <2>1 DEF ChatInv, NoGapBelowRead
    <2>2. CASE v = u /\ m \in Others
      <3>1. upTo \in Nat /\ m \in Nat /\ n \in Nat
        BY <1>2 DEF ChatInv, ChatTyped, MessageIds
      <3>2. n \in Others
        BY <2>2, <3>1
      <3>3. QED
        BY <1>2, <1>6, <2>2, <3>2
    <2>3. CASE v = u /\ m \notin Others
      <3>1. receipts[u][m] = "read"
        BY <1>2, <1>6, <2>3
      <3>2. receipts[u][n] = "read" \/ n \in astray.late
        BY <2>3, <3>1 DEF ChatInv, NoGapBelowRead
      <3>3. QED
        BY <1>2, <1>6, <2>3, <3>2
    <2>4. QED
      BY <2>1, <2>2, <2>3
  <1>10. NewestOrPending'
    BY <1>1, <1>2 DEF ChatInv, NewestOrPending
  <1>11. QED
    BY <1>4, <1>6, <1>7, <1>8, <1>9, <1>10 DEF ChatInv

(* Edits and deletions in two steps, with the row as loaded.                *)
LEMMA EditKeeps ==
    ASSUME ChatInv, NEW m \in DOMAIN messages, StartEdit(m) \/ SaveEdit(m) \/ StartDelete(m)
    PROVE  ChatInv' /\ \A n \in DOMAIN messages : messages'[n].sender = messages[n].sender
  <1>1. Shown \subseteq Visible
    BY DEF Shown, Visible
  <1>2. CASE StartEdit(m)
    <2>1. /\ m \in Shown /\ edits' = edits \cup {m}
          /\ UNCHANGED <<messages, lastMessage, receipts, chatTasks, deletions, astray>>
      BY <1>2 DEF StartEdit
    <2>2. ChatTyped' /\ NoGapBelowRead' /\ Visible' = Visible /\ Shown' = Shown
      BY <2>1, OthersKeep DEF ChatInv, ChatTyped
    <2>3. OfCommitted' /\ NewestOrPending'
      BY <1>1, <2>1, <2>2 DEF ChatInv, OfCommitted, NewestOrPending
    <2>4. QED
      BY <2>1, <2>2, <2>3 DEF ChatInv
  <1>3. CASE StartDelete(m)
    <2>1. /\ m \in Shown
          /\ deletions' = deletions \cup {[message |-> m, chatDeleted |-> chatRow.deleted]}
          /\ UNCHANGED <<messages, lastMessage, receipts, chatTasks, edits, astray>>
      BY <1>3 DEF StartDelete
    <2>2. ChatTyped' /\ NoGapBelowRead' /\ Visible' = Visible /\ Shown' = Shown
      BY <2>1, OthersKeep DEF ChatInv, ChatTyped
    <2>3. OfCommitted' /\ NewestOrPending'
      BY <1>1, <2>1, <2>2 DEF ChatInv, OfCommitted, NewestOrPending
    <2>4. QED
      BY <2>1, <2>2, <2>3 DEF ChatInv
  <1>4. CASE SaveEdit(m)
    <2>1. /\ m \in edits /\ edits' \subseteq edits
          /\ messages' = [messages EXCEPT ![m].state = "there"]
          /\ chatTasks' = chatTasks \cup {[kind |-> "refresh", message |-> 0]}
          /\ UNCHANGED <<lastMessage, receipts, deletions, astray>>
      BY <1>4 DEF SaveEdit
    <2>2. m \in Visible
      BY <2>1 DEF ChatInv, OfCommitted
    <2>3. /\ DOMAIN messages' = DOMAIN messages
          /\ \A n \in DOMAIN messages : /\ messages'[n] \in MessageRow
                                        /\ messages'[n].sender = messages[n].sender
          /\ Visible' = Visible
      <3>1. /\ DOMAIN messages' = DOMAIN messages
            /\ \A n \in DOMAIN messages : /\ messages'[n] \in MessageRow
                                          /\ messages'[n].sender = messages[n].sender
            /\ Visible' = Visible \cup {m}
        BY <2>1, StateChange DEF ChatInv
      <3>2. Visible \cup {m} = Visible
        BY <2>2
      <3>3. QED
        BY <3>1, <3>2
    <2>4. ChatTyped'
      BY <2>1, <2>3 DEF ChatInv, ChatTyped
    <2>5. Visible \subseteq DOMAIN messages
      BY DEF Visible
    <2>6. OfCommitted' /\ NoGapBelowRead'
      BY <2>1, <2>3, <2>5 DEF ChatInv, OfCommitted, NoGapBelowRead
    <2>7. NewestOrPending'
      <3>1. [kind |-> "refresh", message |-> 0] \in chatTasks'
        BY <2>1
      <3>2. QED
        BY <3>1 DEF NewestOrPending
    <2>8. QED
      BY <2>3, <2>4, <2>6, <2>7 DEF ChatInv
  <1>5. QED
    BY <1>2, <1>3, <1>4

(* A deletion that names the newest of the rest.                            *)
LEMMA SaveDeleteKeeps ==
    ASSUME ChatInv, NEW d \in deletions, SaveDelete(d)
    PROVE  ChatInv' /\ \A n \in DOMAIN messages : messages'[n].sender = messages[n].sender
  <1> DEFINE m == d.message
  <1>1. /\ deletions' \subseteq deletions
        /\ messages' = [messages EXCEPT ![m].state = "deleted"]
        /\ lastMessage' = Newest(Shown \ {m})
        /\ UNCHANGED <<receipts, chatTasks, edits, astray>>
    BY DEF SaveDelete
  <1>2. m \in Visible /\ Visible \subseteq DOMAIN messages
    BY DEF ChatInv, OfCommitted, Visible
  <1> HIDE DEF m
  <1>3. /\ DOMAIN messages' = DOMAIN messages
        /\ \A n \in DOMAIN messages : /\ messages'[n] \in MessageRow
                                      /\ messages'[n].sender = messages[n].sender
        /\ Visible' = Visible
        /\ Shown' = Shown \ {m}
    <2>1. m \in DOMAIN messages
      BY <1>2
    <2>2. /\ DOMAIN messages' = DOMAIN messages
          /\ \A n \in DOMAIN messages : /\ messages'[n] \in MessageRow
                                        /\ messages'[n].sender = messages[n].sender
          /\ Visible' = Visible \cup {m}
          /\ Shown' = IF "deleted" = "there" THEN Shown \cup {m} ELSE Shown \ {m}
      BY <1>1, <2>1, StateChange DEF ChatInv
    <2>3. Visible \cup {m} = Visible
      BY <1>2
    <2>4. QED
      BY <2>2, <2>3
  <1>4. ChatTyped'
    BY <1>1, <1>3 DEF ChatInv, ChatTyped
  <1>5. OfCommitted' /\ NoGapBelowRead'
    BY <1>1, <1>2, <1>3 DEF ChatInv, OfCommitted, NoGapBelowRead
  <1>6. NewestOrPending'
    <2>1. lastMessage' = Newest(Shown')
      BY <1>1, <1>3 DEF Newest
    <2>2. QED
      BY <2>1 DEF NewestOrPending, Newest
  <1>7. QED
    BY <1>3, <1>4, <1>5, <1>6 DEF ChatInv

(* Setting the last message from a row or from the largest id is marked as  *)
(* astray unless it is the newest.                                          *)
LEMMA LastSetKeeps ==
    ASSUME ChatInv, UNCHANGED <<messages, receipts, edits, deletions>>, chatTasks' \subseteq chatTasks,
           astray' = [astray EXCEPT !.last = astray.last \/ lastMessage' # Newest(Shown)]
    PROVE  ChatInv'
  <1>1. /\ astray' \in [late : SUBSET MessageIds, last : BOOLEAN]
        /\ astray'.late = astray.late
        /\ astray'.last = (astray.last \/ lastMessage' # Newest(Shown))
    <2>1. astray.last \in BOOLEAN
      BY DEF ChatInv, ChatTyped
    <2>2. (astray.last \/ lastMessage' # Newest(Shown)) \in BOOLEAN
      BY <2>1
    <2>3. QED
      BY <2>2, AstrayLast DEF ChatInv
  <1>2. ChatTyped' /\ NoGapBelowRead' /\ Visible' = Visible /\ Shown' = Shown
    BY <1>1, OthersKeep
  <1>3. OfCommitted'
    BY <1>2 DEF ChatInv, OfCommitted
  <1>4. Newest(Shown') = Newest(Shown)
    BY <1>2
  <1>5. NewestOrPending'
    BY <1>1, <1>2 DEF NewestOrPending, Newest
  <1>6. QED
    BY <1>2, <1>3, <1>5 DEF ChatInv

(* Steps that touch members or the chat's row only.                         *)
LEMMA ChatRowKeeps ==
    ASSUME ChatInv, UNCHANGED <<messages, receipts, edits, deletions, chatTasks, astray, lastMessage>>
    PROVE  ChatInv'
  <1>1. ChatTyped' /\ NoGapBelowRead' /\ Visible' = Visible /\ Shown' = Shown
    BY OthersKeep DEF ChatInv, ChatTyped
  <1>2. OfCommitted' /\ NewestOrPending'
    BY <1>1 DEF ChatInv, OfCommitted, NewestOrPending
  <1>3. QED
    BY <1>1, <1>2 DEF ChatInv

(* What every step does to receipts and senders.                            *)
ReceiptsGrow ==
    /\ \A u \in ChatUsers, m \in MessageIds :
          \/ receipts'[u][m] = receipts[u][m]
          \/ receipts[u][m] = "none" /\ receipts'[u][m] = "delivered"
          \/ receipts'[u][m] = "read"
    /\ \A m \in DOMAIN messages : messages'[m].sender = messages[m].sender

(* Every step keeps the invariant and lets no receipt go back.              *)
LEMMA ChatStepKeeps ==
    ASSUME ChatInv, [ChatNext]_chatVars
    PROVE  ChatInv' /\ ReceiptsGrow
  <1>1. CASE UNCHANGED chatVars
    <2>1. ChatInv'
      BY <1>1, ChatRowKeeps DEF chatVars
    <2>2. QED
      BY <1>1, <2>1 DEF chatVars, ReceiptsGrow
  <1>2. ASSUME NEW u \in ChatUsers, Send(u)
        PROVE  ChatInv' /\ ReceiptsGrow
    <2>1. UNCHANGED receipts
      BY <1>2 DEF Send
    <2>2. QED
      BY <1>2, <2>1, SendKeeps DEF ReceiptsGrow
  <1>3. ASSUME NEW u \in ChatUsers, AddMember(u) \/ RemoveMember(u)
        PROVE  ChatInv' /\ ReceiptsGrow
    BY <1>3, ChatRowKeeps DEF AddMember, RemoveMember, ReceiptsGrow
  <1>4. ASSUME NEW u \in ChatUsers, NEW upTo \in DOMAIN messages, MarkAsRead(u, upTo)
        PROVE  ChatInv' /\ ReceiptsGrow
    <2>1. UNCHANGED messages
      BY <1>4 DEF MarkAsRead
    <2>2. QED
      BY <1>4, <2>1, MarkKeeps DEF ReceiptsGrow
  <1>5. ASSUME NEW m \in DOMAIN messages, MessageStep(m)
        PROVE  ChatInv' /\ ReceiptsGrow
    <2>1. CASE CommitSend(m)
      <3>1. UNCHANGED receipts
        BY <2>1 DEF CommitSend
      <3>2. QED
        BY <2>1, <3>1, CommitKeeps DEF ReceiptsGrow
    <2>2. CASE AfterCommit(m)
      BY <2>2, AfterCommitKeeps DEF AfterCommit, ReceiptsGrow
    <2>3. CASE LoseHook(m)
      BY <2>3, LoseHookKeeps DEF LoseHook, ReceiptsGrow
    <2>4. CASE Deliver(m)
      <3>1. UNCHANGED messages
        BY <2>4 DEF Deliver
      <3>2. QED
        BY <2>4, <3>1, DeliverKeeps DEF ReceiptsGrow
    <2>5. CASE StartEdit(m) \/ SaveEdit(m) \/ StartDelete(m)
      <3>1. UNCHANGED receipts
        BY <2>5 DEF StartEdit, SaveEdit, StartDelete
      <3>2. QED
        BY <2>5, <3>1, EditKeeps DEF ReceiptsGrow
    <2>6. QED
      BY <1>5, <2>1, <2>2, <2>3, <2>4, <2>5 DEF MessageStep
  <1>6. ASSUME NEW d \in deletions, SaveDelete(d)
        PROVE  ChatInv' /\ ReceiptsGrow
    <2>1. UNCHANGED receipts
      BY <1>6 DEF SaveDelete
    <2>2. QED
      BY <1>6, <2>1, SaveDeleteKeeps DEF ReceiptsGrow
  <1>7. CASE RefreshLast
    <2>1. ChatInv'
      BY <1>7, LastSetKeeps DEF RefreshLast
    <2>2. QED
      BY <1>7, <2>1 DEF RefreshLast, ReceiptsGrow
  <1>8. CASE SaveDeleteChat
    <2>1. ChatInv'
      BY <1>8, LastSetKeeps DEF SaveDeleteChat
    <2>2. QED
      BY <1>8, <2>1 DEF SaveDeleteChat, ReceiptsGrow
  <1>9. CASE StartDeleteChat
    BY <1>9, ChatRowKeeps DEF StartDeleteChat, ReceiptsGrow
  <1>10. QED
    BY <1>1, <1>2, <1>3, <1>4, <1>5, <1>6, <1>7, <1>8, <1>9 DEF ChatNext

(* The inductive invariant of the chat.                                     *)
THEOREM ChatInvariant == ChatSpec => []ChatInv
  <1>1. ChatInit => ChatInv
    BY ChatInitially
  <1>2. ChatInv /\ [ChatNext]_chatVars => ChatInv'
    BY ChatStepKeeps
  <1>3. QED
    BY <1>1, <1>2, PTL DEF ChatSpec

(* Whatever order messages are committed, delivered and read in, below a    *)
(* message a user has read only late ones are unread.                       *)
THEOREM ReadingHasNoGap == ChatSpec => []NoGapBelowRead
  <1>1. ChatInv => NoGapBelowRead
    BY DEF ChatInv
  <1>2. QED
    BY <1>1, ChatInvariant, PTL

(* A chat at rest names its newest message unless the last message went     *)
(* astray.                                                                  *)
THEOREM ChatAtRestNamesNewest == ChatSpec => []LastMessageIsNewest
  <1>1. ChatInv => LastMessageIsNewest
    BY DEF ChatInv, NewestOrPending, LastMessageIsNewest
  <1>2. QED
    BY <1>1, ChatInvariant, PTL

-----------------------------------------------------------------------------
(* Receipts.                                                                *)

ReceiptsStand ==
    \A u \in ChatUsers, m \in MessageIds :
       /\ receipts[u][m] = "read" => receipts'[u][m] = "read"
       /\ receipts[u][m] = "delivered" => receipts'[u][m] # "none"
       /\ receipts'[u][m] # "none" => messages[m].sender # u

(* No step takes a receipt back or gives one to the sender.                 *)
LEMMA ReceiptsStandStep ==
    ASSUME ChatInv, [ChatNext]_chatVars
    PROVE  ReceiptsStand
  <1>1. ChatInv' /\ ReceiptsGrow
    BY ChatStepKeeps
  <1> SUFFICES ASSUME NEW u \in ChatUsers, NEW m \in MessageIds
               PROVE  /\ receipts[u][m] = "read" => receipts'[u][m] = "read"
                      /\ receipts[u][m] = "delivered" => receipts'[u][m] # "none"
                      /\ receipts'[u][m] # "none" => messages[m].sender # u
    BY DEF ReceiptsStand
  <1>2. /\ receipts[u][m] = "read" => receipts'[u][m] = "read"
        /\ receipts[u][m] = "delivered" => receipts'[u][m] # "none"
    BY <1>1 DEF ReceiptsGrow
  <1>3. ASSUME receipts'[u][m] # "none"
        PROVE  messages[m].sender # u
    <2>1. CASE UNCHANGED receipts
      BY <1>3, <2>1 DEF ChatInv, OfCommitted
    <2>2. CASE UNCHANGED messages
      <3>1. m \in Visible' /\ messages'[m].sender # u
        BY <1>1, <1>3 DEF ChatInv, OfCommitted
      <3>2. QED
        BY <2>2, <3>1
    <2>3. UNCHANGED receipts \/ UNCHANGED messages
      BY DEF ChatNext, chatVars, MessageStep, Send, AddMember, RemoveMember, MarkAsRead, CommitSend,
             AfterCommit, LoseHook, Deliver, StartEdit, SaveEdit, StartDelete, SaveDelete,
             RefreshLast, StartDeleteChat, SaveDeleteChat
    <2>4. QED
      BY <2>1, <2>2, <2>3
  <1>4. QED
    BY <1>2, <1>3

(* A receipt never goes back, and nobody has one of his own message.        *)
THEOREM ReceiptsNeverGoBack == ChatSpec => ReadStaysRead
  <1>1. ChatInv /\ [ChatNext]_chatVars => [ReceiptsStand]_chatVars
    BY ReceiptsStandStep
  <1>2. ChatSpec => [][ReceiptsStand]_chatVars
    BY <1>1, ChatInvariant, PTL DEF ChatSpec
  <1>3. QED
    BY <1>2 DEF ReadStaysRead, ReceiptsStand
=============================================================================
