------------------------- MODULE ConversationSlots -------------------------
(***************************************************************************)
(* The slot choice of napi/conversation_slots.h, as a pure function of the *)
(* slot tables.  A table lookup that finds nothing (the code returns       *)
(* busy.size()) is the empty set; a hit is the singleton of the slot.      *)
(***************************************************************************)
EXTENDS Integers

CONSTANT NoConv     \* conversation id 0: a request that owns no cache

\* Slot i is preferred to slot j by the scan: used longer ago, ties to the
\* lower index because the scan keeps the first of equals.
OlderSlot(recency, i, j) ==
    \/ recency[i] < recency[j]
    \/ recency[i] = recency[j] /\ i <= j

\* The slots of the pool that hold the conversation's cache.
OwnedSlots(owners, pool, conversation) ==
    {i \in pool : conversation # NoConv /\ owners[i] = conversation}

\* Bug: a request of the conversation joins the slot that is in use.
JoinOwnedSlot(busy, owners, recency, pool, conversation) ==
    LET owned == OwnedSlots(owners, pool, conversation)
        idle  == pool \ busy
    IN  IF owned # {} THEN owned
        ELSE {i \in idle : \A j \in idle : OlderSlot(recency, i, j)}

\* Bug: a conversation whose slot is busy gets a second one.
SplitConversation(busy, owners, recency, pool, conversation) ==
    LET idle  == pool \ busy
        owned == OwnedSlots(owners, idle, conversation)
    IN  IF owned # {} THEN owned
        ELSE {i \in idle : \A j \in idle : OlderSlot(recency, i, j)}

\* A conversation that owns a slot gets that slot or, while it is busy,
\* nothing; any other request evicts the least recently used idle slot.
SelectConversationSlot(busy, owners, recency, pool, conversation) ==
    LET owned == OwnedSlots(owners, pool, conversation)
        idle  == pool \ busy
    IN  IF owned # {}
        THEN {i \in owned : i \notin busy /\ \A j \in owned : i <= j}
        ELSE {i \in idle : \A j \in idle : OlderSlot(recency, i, j)}
=============================================================================
