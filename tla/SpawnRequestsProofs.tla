------------------------- MODULE SpawnRequestsProofs -------------------------
(***************************************************************************)
(* Requests for specialists, for any set of requesters, titles and names   *)
(* and any bounds: types, one card for each specialist, the worker that    *)
(* was told of the card it owns, and answers that stay.                    *)
(***************************************************************************)
EXTENDS SpawnRequests, CardsProofs, FiniteSetTheorems

Taken == {n \in Names : agents[n].exists}

SoundBoard(board) ==
    /\ board \in Seq(CardRow)
    /\ \A c \in DOMAIN board : SoundCard(board[c].row)

(* The types, and the numbers that stand for cards in other variables.      *)
TypeInv ==
    /\ TypeOK
    /\ SoundBoard(cards)
    /\ Len(cards) <= Len(requests)
    /\ IsFiniteSet(InCall) /\ Len(requests) + Cardinality(InCall) <= MaxRequests
    /\ \A q \in InCall : asking[q].card \in DOMAIN cards \cup {0}
    /\ \A n \in Names : proc[n] \in DOMAIN cards \cup {Dead}
    /\ phase \in {"prompt", "assign", "mark"} => chosen \in Taken

(* Names are given out in order; who has no row owns no card, and nobody    *)
(* owns two.                                                                *)
OwnInv ==
    /\ \E k \in Nat : Taken = 1..k
    /\ \A n \in Names \ Taken : HeldCards(n) = {}
    /\ \A n \in Names : \A c, d \in HeldCards(n) : c = d
    /\ phase = "assign" => HeldCards(chosen) = {}

(* Between the assignment and the prompt only the worker of the request at  *)
(* hand may own a card it was not told of, and it is the request's card; a  *)
(* new worker reads of its card before it owns it.                          *)
ToldInv ==
    crashes = 0 =>
        /\ \A n \in Names : Alive(n) =>
              HeldCards(n) \subseteq {proc[n]} \/ (phase = "prompt" /\ n = chosen)
        /\ \A r \in picked : First(r) =>
              /\ phase = "assign" => proc[chosen] \in {Dead, requests[r].card}
              /\ phase = "prompt" => HeldCards(chosen) \subseteq {requests[r].card}

-----------------------------------------------------------------------------
(***************************************************************************)
(* Writes to the tables.                                                   *)
(***************************************************************************)

(* No worker gains a card.                                                  *)
Loosens == \A n \in Names : HeldCards(n)' \subseteq HeldCards(n)

(* A card is written and stays what it was, or leaves development.          *)
Fits(old, new) ==
    /\ new \in CardRow /\ SoundCard(new.row)
    /\ new.row.stage = "development" => old.row.stage = "development" /\ new.row.owner = old.row.owner

(* Held cards are the cards of the owner in development.                    *)
LEMMA HeldAre ==
    ASSUME NEW n \in Names
    PROVE  HeldCards(n) = {c \in DOMAIN cards : Row(c).stage = "development" /\ Row(c).owner = n}
  BY DEF HeldCards, HeldBy

(* The same after a step.                                                   *)
LEMMA HeldAreNext ==
    ASSUME NEW n \in Names
    PROVE  HeldCards(n)' = {c \in DOMAIN cards' : cards'[c].row.stage = "development" /\ cards'[c].row.owner = n}
  BY DEF HeldCards, HeldBy, Row

(* A row of the board, and a row that is written.                           *)
LEMMA RowAt ==
    ASSUME NEW board, SoundBoard(board), NEW c \in DOMAIN board
    PROVE  board[c] \in CardRow /\ SoundCard(board[c].row)
  BY DEF SoundBoard

LEMMA PutRow ==
    ASSUME NEW old \in CardRow, NEW card, SoundCard(card)
    PROVE  [old EXCEPT !.row = card] \in CardRow /\ [old EXCEPT !.row = card].row = card
  <1>1. card \in Card
    BY DEF SoundCard
  <1> QED BY <1>1 DEF CardRow

(* Writing rows that fit keeps the board sound and takes cards only away.   *)
LEMMA RowsFit ==
    ASSUME SoundBoard(cards),
           cards' = [c \in DOMAIN cards |-> cards'[c]],
           \A c \in DOMAIN cards : Fits(cards[c], cards'[c])
    PROVE  SoundBoard(cards') /\ Len(cards') = Len(cards) /\ DOMAIN cards' = DOMAIN cards /\ Loosens
  <1>1. DOMAIN cards' = DOMAIN cards /\ DOMAIN cards = 1..Len(cards) /\ Len(cards) \in Nat
    BY DEF SoundBoard
  <1>2. cards' \in Seq(CardRow)
    BY <1>1 DEF Fits
  <1>3. Len(cards') = Len(cards)
    BY <1>1, <1>2
  <1>4. Loosens
    BY <1>1, HeldAre, HeldAreNext DEF Fits, Loosens, Row
  <1> QED BY <1>1, <1>2, <1>3, <1>4 DEF SoundBoard, Fits

(* One row is written.                                                      *)
LEMMA RowFits ==
    ASSUME SoundBoard(cards), NEW c \in DOMAIN cards, NEW card, SoundCard(card),
           cards' = [cards EXCEPT ![c].row = card],
           card.stage = "development" => Row(c).stage = "development" /\ card.owner = Row(c).owner
    PROVE  SoundBoard(cards') /\ Len(cards') = Len(cards) /\ DOMAIN cards' = DOMAIN cards /\ Loosens
  <1>0. cards' = [cards EXCEPT ![c] = [cards[c] EXCEPT !.row = card]]
    OBVIOUS
  <1>1. ASSUME NEW d \in DOMAIN cards PROVE Fits(cards[d], cards'[d])
    <2>1. CASE d = c
      <3>1. cards'[d] = [cards[d] EXCEPT !.row = card] /\ cards[d] \in CardRow
        BY <1>0, <2>1, RowAt
      <3>2. cards'[d] \in CardRow /\ cards'[d].row = card
        BY <3>1, PutRow
      <3> QED BY <2>1, <3>2 DEF Fits, Row
    <2>2. CASE d # c
      BY <1>0, <2>2, RowAt DEF Fits
    <2> QED BY <2>1, <2>2
  <1>2. cards' = [d \in DOMAIN cards |-> cards'[d]]
    OBVIOUS
  <1> QED BY <1>1, <1>2, RowsFit

(* requeue_agent_cards takes its cards from a worker.                       *)
LEMMA ReturnFits ==
    ASSUME SoundBoard(cards), NEW n \in Names, ReturnCards(n)
    PROVE  /\ SoundBoard(cards') /\ Len(cards') = Len(cards) /\ DOMAIN cards' = DOMAIN cards /\ Loosens
           /\ HeldCards(n)' = {}
  <1>1. ASSUME NEW d \in DOMAIN cards
        PROVE  Fits(cards[d], cards'[d]) /\ (d \in HeldCards(n) => cards'[d].row.stage = "planned")
    <2> DEFINE card == RequeueCard(cards[d].row)
    <2>1. cards[d] \in CardRow /\ SoundCard(cards[d].row)
      BY RowAt
    <2>2. SoundCard(card) /\ card.stage = "planned"
      BY <2>1, RequeueSound
    <2> HIDE DEF card
    <2>3. CASE d \in HeldCards(n)
      <3>1. cards'[d] = [cards[d] EXCEPT !.row = card]
        BY <2>3 DEF ReturnCards, card
      <3>2. cards'[d] \in CardRow /\ cards'[d].row = card
        BY <2>1, <2>2, <3>1, PutRow
      <3> QED BY <2>2, <3>2 DEF Fits
    <2>4. CASE d \notin HeldCards(n)
      BY <2>1, <2>4 DEF ReturnCards, Fits
    <2> QED BY <2>3, <2>4
  <1>2. cards' = [d \in DOMAIN cards |-> cards'[d]]
    BY DEF ReturnCards
  <1>3. SoundBoard(cards') /\ Len(cards') = Len(cards) /\ DOMAIN cards' = DOMAIN cards /\ Loosens
    BY <1>1, <1>2, RowsFit
  <1>4. \A c \in HeldCards(n) : cards'[c].row.stage = "planned"
    BY <1>1 DEF HeldCards
  <1>5. HeldCards(n)' \subseteq HeldCards(n)
    BY <1>3 DEF Loosens
  <1>6. HeldCards(n)' = {}
    BY <1>4, <1>5, HeldAreNext
  <1> QED BY <1>3, <1>6

(* assign_card gives the card to the worker, whoever had it, and leaves     *)
(* every other row; it changes no request but its status.                   *)
LEMMA AssignGives ==
    ASSUME TypeInv, NEW c \in DOMAIN cards, NEW n \in Names, Assign(c, n)
    PROVE  /\ SoundBoard(cards') /\ Len(cards') = Len(cards) /\ DOMAIN cards' = DOMAIN cards
           /\ HeldCards(n)' \subseteq HeldCards(n) \cup {c}
           /\ \A m \in Names \ {n} : HeldCards(m)' \subseteq HeldCards(m)
  <1> DEFINE card == AssignCard(Row(c), n, None)
  <1>1. SoundCard(card) /\ card.stage = "development" /\ card.owner = n
    <2>1. SoundCard(Row(c)) /\ n \in AgentIds
      BY RowAt DEF TypeInv, Row, Names
    <2> QED BY <2>1, AssignSound
  <1> HIDE DEF card
  <1>2. cards' = [cards EXCEPT ![c] = [cards[c] EXCEPT !.row = card]]
    BY DEF Assign, card, Row
  <1>3. [cards[c] EXCEPT !.row = card] \in CardRow /\ [cards[c] EXCEPT !.row = card].row = card
    BY <1>1, RowAt, PutRow DEF TypeInv
  <1>4. \A d \in DOMAIN cards : cards'[d].row = IF d = c THEN card ELSE cards[d].row
    BY <1>2, <1>3
  <1>6. cards' \in Seq(CardRow) /\ DOMAIN cards' = DOMAIN cards /\ Len(cards') = Len(cards)
    BY <1>2, <1>3 DEF TypeInv, SoundBoard
  <1>5. SoundBoard(cards')
    BY <1>1, <1>4, <1>6 DEF TypeInv, SoundBoard
  <1> QED BY <1>1, <1>4, <1>5, <1>6, HeldAre, HeldAreNext DEF Row

(* Requests keep their cards: what a step does to the rows of the table.    *)
KeepsRequests ==
    /\ requests' \in Seq(RequestRow) /\ Len(requests') = Len(requests)
    /\ DOMAIN requests' = DOMAIN requests
    /\ \A r \in DOMAIN requests : requests'[r].card = requests[r].card

LEMMA AssignKeeps ==
    ASSUME TypeInv, NEW c, NEW n, Assign(c, n)
    PROVE  KeepsRequests
  <1>1. requests \in Seq(RequestRow) /\ "cancelled" \in RequestStatuses
    BY DEF TypeInv, TypeOK, RequestStatuses
  <1>2. ASSUME NEW r \in DOMAIN requests
        PROVE  requests'[r] \in RequestRow /\ requests'[r].card = requests[r].card
    <2>1. requests[r] \in RequestRow
      BY <1>1
    <2>2. requests'[r] \in {requests[r], [requests[r] EXCEPT !.status = "cancelled"]}
      BY DEF Assign
    <2> QED BY <1>1, <2>1, <2>2 DEF RequestRow
  <1>3. requests' = [r \in DOMAIN requests |-> requests'[r]] /\ DOMAIN requests' = DOMAIN requests
    BY DEF Assign
  <1>4. requests' \in Seq(RequestRow) /\ Len(requests') = Len(requests)
    BY <1>1, <1>2, <1>3
  <1> QED BY <1>2, <1>3, <1>4 DEF KeepsRequests

LEMMA MarkKeeps ==
    ASSUME TypeInv, NEW r \in picked, NEW status \in RequestStatuses, NEW agent \in Names \cup {None},
           MarkRequest(r, status, agent)
    PROVE  KeepsRequests /\ picked' \subseteq DOMAIN requests' /\ phase' = "next" /\ chosen' = None
  <1>1. requests \in Seq(RequestRow) /\ picked \subseteq DOMAIN requests
    BY DEF TypeInv, TypeOK
  <1> DEFINE marked == [requests[r] EXCEPT !.status = status, !.agent = agent]
  <1>2. requests' = [requests EXCEPT ![r] = marked]
    BY <1>1 DEF MarkRequest
  <1>3. requests[r] \in RequestRow
    BY <1>1
  <1>5. marked \in RequestRow /\ marked.card = requests[r].card
    BY <1>3 DEF RequestRow
  <1> HIDE DEF marked
  <1>6. requests' \in Seq(RequestRow) /\ Len(requests') = Len(requests) /\ DOMAIN requests' = DOMAIN requests
    BY <1>1, <1>2, <1>5
  <1>4. \A s \in DOMAIN requests : requests'[s].card = requests[s].card
    BY <1>1, <1>2, <1>5
  <1> QED BY <1>1, <1>4, <1>6 DEF KeepsRequests, MarkRequest

-----------------------------------------------------------------------------
(***************************************************************************)
(* The types, action by action, with the cards every action but the two    *)
(* assignments leaves with the workers.                                    *)
(***************************************************************************)

(* The handler's and the workers' steps keep the requests and the calls.    *)
LEMMA CallsKept ==
    ASSUME TypeInv, KeepsRequests, UNCHANGED asking, SoundBoard(cards'),
           Len(cards') = Len(cards), DOMAIN cards' = DOMAIN cards
    PROVE  /\ SoundBoard(cards')
           /\ cards' \in Seq(CardRow) /\ requests' \in Seq(RequestRow)
           /\ asking' \in [Requesters -> [title : Titles, card : Numbers] \cup {None}]
           /\ Len(cards') <= Len(requests')
           /\ IsFiniteSet(InCall') /\ Len(requests') + Cardinality(InCall') <= MaxRequests
           /\ \A q \in InCall' : asking'[q].card \in DOMAIN cards' \cup {0}
           /\ \A r \in DOMAIN requests' : requests'[r].card \in DOMAIN cards'
  BY DEF TypeInv, TypeOK, KeepsRequests, InCall, SoundBoard

(* A step that changes no request keeps them.                               *)
LEMMA SameRequests ==
    ASSUME TypeInv, UNCHANGED requests
    PROVE  KeepsRequests
  BY DEF TypeInv, TypeOK, KeepsRequests

(* A step that changes no card keeps the board.                             *)
LEMMA SameCards ==
    ASSUME TypeInv, UNCHANGED cards
    PROVE  SoundBoard(cards') /\ Len(cards') = Len(cards) /\ DOMAIN cards' = DOMAIN cards /\ Loosens
  BY DEF TypeInv, SoundBoard, Loosens, HeldCards, Row

LEMMA InitTypes == Init => TypeInv
  <1> SUFFICES ASSUME Init PROVE TypeInv
    OBVIOUS
  <1>1. InCall = {}
    BY DEF Init, InCall
  <1>2. IsFiniteSet(InCall) /\ Cardinality(InCall) = 0
    BY <1>1, FS_EmptySet
  <1>3. cards \in Seq(CardRow) /\ requests \in Seq(RequestRow) /\ Len(cards) = 0 /\ Len(requests) = 0
    BY DEF Init
  <1>4. agents \in [Names -> AgentRow]
    BY DEF Init, AgentRow
  <1>5. SoundBoard(cards)
    BY <1>3 DEF SoundBoard
  <1> QED BY <1>1, <1>2, <1>3, <1>4, <1>5, SpawnConstants DEF Init, TypeInv, TypeOK, Numbers

LEMMA AskTypes ==
    ASSUME TypeInv, NEW q \in Requesters, NEW t \in Titles, Ask(q, t)
    PROVE  TypeInv' /\ Loosens /\ Taken' = Taken
  <1>1. PICK c \in Numbers : Found(t, c) /\ asking' = [asking EXCEPT ![q] = [title |-> t, card |-> c]]
    BY DEF Ask
  <1>2. c \in DOMAIN cards \cup {0}
    BY <1>1 DEF Found
  <1>3. asking' \in [Requesters -> [title : Titles, card : Numbers] \cup {None}]
    BY <1>1 DEF TypeInv, TypeOK
  <1>4. InCall' \in {InCall, InCall \cup {q}} /\ q \notin InCall
    BY <1>1 DEF Ask, InCall, TypeInv, TypeOK
  <1>5. IsFiniteSet(InCall') /\ Cardinality(InCall') <= Cardinality(InCall) + 1 /\ Cardinality(InCall') \in Nat
    <2>1. IsFiniteSet(InCall)
      BY DEF TypeInv
    <2>2. /\ Cardinality(InCall) \in Nat
          /\ IsFiniteSet(InCall \cup {q}) /\ Cardinality(InCall \cup {q}) = Cardinality(InCall) + 1
      BY <1>4, <2>1, FS_AddElement, FS_CardinalityType
    <2>3. CASE InCall' = InCall
      BY <2>1, <2>2, <2>3
    <2>4. CASE InCall' = InCall \cup {q}
      BY <2>2, <2>4
    <2> QED BY <1>4, <2>3, <2>4
  <1>6. Len(requests') + Cardinality(InCall') <= MaxRequests
    <2>1. Cardinality(InCall) \in Nat /\ Len(requests) \in Nat /\ MaxRequests \in Nat
      BY FS_CardinalityType, SpawnConstants DEF TypeInv, TypeOK
    <2> QED BY <1>5, <2>1 DEF Ask
  <1>7. \A p \in InCall' : asking'[p].card \in DOMAIN cards' \cup {0}
    BY <1>1, <1>2 DEF Ask, InCall, TypeInv, TypeOK
  <1>8. UNCHANGED <<cards, requests, agents, proc, handler, faults, crashes>>
    BY DEF Ask
  <1>9. Loosens /\ SoundBoard(cards')
    BY <1>8, SameCards
  <1> QED BY <1>3, <1>5, <1>6, <1>7, <1>8, <1>9 DEF TypeInv, TypeOK, Taken, handler

LEMMA StoreTypes ==
    ASSUME TypeInv, NEW q \in Requesters, Store(q)
    PROVE  TypeInv' /\ Loosens /\ Taken' = Taken
  <1> DEFINE call == asking[q]
             row == [title |-> call.title, row |-> QueueWorklane("Architect", FALSE)]
             request(c) == [from |-> q, title |-> call.title, status |-> "queued", agent |-> None, card |-> c]
  <1>1. call \in [title : Titles, card : Numbers] /\ q \in InCall /\ call.card \in DOMAIN cards \cup {0}
    BY DEF Store, TypeInv, TypeOK, InCall
  <1>2. SoundCard(row.row) /\ row.row.stage = "planned" /\ row \in CardRow
    <2>1. "Architect" \in Roles
      BY DEF Roles
    <2>2. SoundCard(row.row)
      BY <2>1, QueueSound
    <2> QED BY <1>1, <2>2 DEF CardRow, QueueWorklane, SoundCard
  <1>3. InCall' = InCall \ {q}
    BY DEF Store, InCall, TypeInv, TypeOK
  <1>4. IsFiniteSet(InCall') /\ Cardinality(InCall') = Cardinality(InCall) - 1 /\ Cardinality(InCall') \in Nat
        /\ Cardinality(InCall) \in Nat
    BY <1>1, <1>3, FS_RemoveElement, FS_CardinalityType DEF TypeInv
  <1>5. asking' \in [Requesters -> [title : Titles, card : Numbers] \cup {None}]
    BY DEF Store, TypeInv, TypeOK
  <1>6. PICK c \in DOMAIN cards' : requests' = Append(requests, request(c)) /\ cards' \in {cards, Append(cards, row)}
    <2>1. CASE call.card = 0
      <3>1. cards' = Append(cards, row) /\ Len(cards) + 1 \in DOMAIN cards'
        BY <1>2, <2>1 DEF Store, TypeInv, TypeOK
      <3> QED BY <2>1, <3>1 DEF Store
    <2>2. CASE call.card # 0
      BY <1>1, <2>2 DEF Store
    <2> QED BY <2>1, <2>2
  <1> HIDE DEF row
  <1>7. /\ cards' \in Seq(CardRow) /\ Len(cards') <= Len(cards) + 1 /\ DOMAIN cards \subseteq DOMAIN cards'
        /\ DOMAIN cards' = 1..Len(cards') /\ Len(cards') \in Nat
        /\ \A d \in DOMAIN cards : cards'[d] = cards[d]
        /\ \A d \in DOMAIN cards' \ DOMAIN cards : cards'[d] = row
    <2>1. cards \in Seq(CardRow) /\ row \in CardRow
      BY <1>2 DEF TypeInv, TypeOK
    <2>2. CASE cards' = cards
      BY <2>1, <2>2
    <2>3. CASE cards' = Append(cards, row)
      BY <2>1, <2>3
    <2> QED BY <1>6, <2>2, <2>3
  <1>8. SoundBoard(cards')
    BY <1>2, <1>7 DEF TypeInv, SoundBoard
  <1>9. Loosens
    BY <1>2, <1>7, HeldAre, HeldAreNext DEF Loosens, Row
  <1>10. /\ Len(requests) + 1 <= MaxRequests /\ Len(cards) <= Len(requests)
         /\ Len(requests) \in Nat /\ Len(cards) \in Nat
    BY <1>1, <1>4, SpawnConstants DEF TypeInv, TypeOK
  <1>11. request(c) \in RequestRow
    BY <1>1, <1>7, <1>10, SpawnConstants DEF RequestRow, RequestStatuses, Numbers
  <1>18. request(c).card = c
    OBVIOUS
  <1> DEFINE new == request(c)
  <1> HIDE DEF new
  <1>19. requests \in Seq(RequestRow) /\ new \in RequestRow /\ requests' = Append(requests, new) /\ new.card = c
    BY <1>6, <1>11, <1>18 DEF TypeInv, TypeOK, new
  <1>12. /\ requests' \in Seq(RequestRow) /\ Len(requests') = Len(requests) + 1
         /\ DOMAIN requests \subseteq DOMAIN requests'
         /\ \A r \in DOMAIN requests : requests'[r] = requests[r]
         /\ \A r \in DOMAIN requests' \ DOMAIN requests : requests'[r] = new
    BY <1>19
  <1>13. \A r \in DOMAIN requests' : requests'[r].card \in DOMAIN cards'
    BY <1>7, <1>12, <1>19 DEF TypeInv, TypeOK
  <1>14. Len(cards') <= Len(requests') /\ Len(requests') + Cardinality(InCall') <= MaxRequests
    BY <1>4, <1>7, <1>10, <1>12, SpawnConstants DEF TypeInv
  <1>15. \A p \in InCall' : asking'[p].card \in DOMAIN cards' \cup {0}
    BY <1>3, <1>7 DEF Store, TypeInv, TypeOK, InCall
  <1>16. picked' \subseteq DOMAIN requests'
    BY <1>12 DEF Store, handler, TypeInv, TypeOK
  <1>17. UNCHANGED <<agents, proc, handler, faults, crashes>>
    BY DEF Store
  <1> QED BY <1>4, <1>5, <1>7, <1>8, <1>9, <1>12, <1>13, <1>14, <1>15, <1>16, <1>17
          DEF TypeInv, TypeOK, Taken, handler

(* What is left to show of a step that adds neither card nor request.       *)
LEMMA TypeStep ==
    ASSUME TypeInv, KeepsRequests, UNCHANGED asking,
           SoundBoard(cards'), Len(cards') = Len(cards), DOMAIN cards' = DOMAIN cards,
           agents' \in [Names -> AgentRow],
           proc' \in [Names -> DOMAIN cards \cup {Dead}],
           phase' \in {"idle", "select", "next", "prompt", "assign", "mark"},
           picked' \subseteq DOMAIN requests,
           chosen' \in Names \cup {None},
           phase' \in {"prompt", "assign", "mark"} => chosen' \in Taken',
           faults' \in 0..MaxFaults, crashes' \in 0..MaxCrashes
    PROVE  TypeInv'
  <1>1. DOMAIN cards \subseteq Numbers
    BY SpawnConstants, FS_CardinalityType DEF TypeInv, TypeOK, Numbers
  <1>2. proc' \in [Names -> Numbers \cup {Dead}]
    BY <1>1
  <1>3. picked' \subseteq DOMAIN requests'
    BY DEF KeepsRequests
  <1>4. \A n \in Names : proc'[n] \in DOMAIN cards' \cup {Dead}
    OBVIOUS
  <1> QED BY <1>2, <1>3, <1>4, CallsKept DEF TypeInv, TypeOK

(* What the actions share: the processes and the counters stay in range.    *)
LEMMA Ranges ==
    ASSUME TypeInv
    PROVE  /\ proc \in [Names -> DOMAIN cards \cup {Dead}]
           /\ faults \in 0..MaxFaults /\ (Fault => faults' \in 0..MaxFaults)
           /\ agents \in [Names -> AgentRow]
           /\ picked \subseteq DOMAIN requests
           /\ \A r \in picked : requests[r].card \in DOMAIN cards
  <1>1. proc \in [Names -> DOMAIN cards \cup {Dead}]
    BY DEF TypeInv, TypeOK
  <1> QED BY <1>1, SpawnConstants DEF TypeInv, TypeOK, Fault

(* A row that is ended keeps its type and its name.                         *)
LEMMA EndKeeps ==
    ASSUME TypeInv, NEW n \in Names, EndAgent(n)
    PROVE  agents' \in [Names -> AgentRow] /\ Taken' = Taken
  BY DEF EndAgent, TypeInv, TypeOK, AgentRow, Taken

LEMMA TearDownKeeps ==
    ASSUME TypeInv, NEW n \in Names, TearDown(n)
    PROVE  /\ SoundBoard(cards') /\ Len(cards') = Len(cards) /\ DOMAIN cards' = DOMAIN cards
           /\ Loosens /\ Taken' = Taken /\ agents' \in [Names -> AgentRow]
           /\ proc' \in [Names -> DOMAIN cards \cup {Dead}]
  BY ReturnFits, EndKeeps, Ranges DEF TearDown, TypeInv

LEMMA ReconcileTypes ==
    ASSUME TypeInv, ReconcileRequests
    PROVE  TypeInv' /\ Loosens /\ Taken' = Taken
  <1>1. requests \in Seq(RequestRow) /\ "cancelled" \in RequestStatuses
    BY DEF TypeInv, TypeOK, RequestStatuses
  <1>2. ASSUME NEW r \in DOMAIN requests
        PROVE  requests'[r] \in RequestRow /\ requests'[r].card = requests[r].card
    <2>1. requests[r] \in RequestRow
      BY <1>1
    <2>2. requests'[r] \in {requests[r], [requests[r] EXCEPT !.status = "cancelled"]}
      BY DEF ReconcileRequests
    <2> QED BY <1>1, <2>1, <2>2 DEF RequestRow
  <1>3. requests' = [r \in DOMAIN requests |-> requests'[r]] /\ DOMAIN requests' = DOMAIN requests
    BY DEF ReconcileRequests
  <1>4. requests' \in Seq(RequestRow) /\ Len(requests') = Len(requests)
    BY <1>1, <1>2, <1>3
  <1>5. KeepsRequests
    BY <1>2, <1>3, <1>4 DEF KeepsRequests
  <1>6. UNCHANGED <<cards, asking, agents, proc, picked, chosen, faults, crashes>> /\ phase' = "select"
    BY DEF ReconcileRequests
  <1> QED BY <1>5, <1>6, SameCards, TypeStep, Ranges DEF TypeInv, TypeOK, Taken

LEMMA SelectTypes ==
    ASSUME TypeInv, SelectRequests
    PROVE  TypeInv' /\ Loosens /\ Taken' = Taken
  <1>1. picked' \subseteq DOMAIN requests
    BY DEF SelectRequests, Selectable
  <1>2. UNCHANGED <<cards, requests, asking, agents, proc, chosen, faults, crashes>> /\ phase' = "next"
    BY DEF SelectRequests
  <1> QED BY <1>1, <1>2, SameCards, SameRequests, TypeStep, Ranges DEF TypeInv, TypeOK, Taken

LEMMA EndHandlingTypes ==
    ASSUME TypeInv, EndHandling
    PROVE  TypeInv' /\ Loosens /\ Taken' = Taken
  BY SameCards, SameRequests, TypeStep, Ranges DEF EndHandling, TypeInv, TypeOK, Taken

LEMMA DropTypes ==
    ASSUME TypeInv, NEW n \in Names, DropMissing(n)
    PROVE  TypeInv' /\ Loosens /\ Taken' = Taken
  BY TearDownKeeps, SameRequests, TypeStep, Ranges DEF DropMissing, Unreachable, handler, TypeInv, TypeOK

LEMMA DeferTypes ==
    ASSUME TypeInv, NEW n \in Names, NEW r \in picked, Defer(n, r)
    PROVE  TypeInv' /\ Loosens /\ Taken' = Taken
  <1>1. MarkRequest(r, "deferred", n) /\ "deferred" \in RequestStatuses /\ n \in Names \cup {None}
    BY DEF Defer, RequestStatuses
  <1>2. KeepsRequests /\ picked' \subseteq DOMAIN requests /\ phase' = "next" /\ chosen' = None
    BY <1>1, MarkKeeps DEF KeepsRequests
  <1>3. UNCHANGED <<cards, asking, agents, proc, crashes, faults>>
    BY DEF Defer, Reachable
  <1> QED BY <1>2, <1>3, SameCards, TypeStep, Ranges DEF TypeInv, TypeOK, Taken

LEMMA HandOverTypes ==
    ASSUME TypeInv, NEW n \in Names, NEW r \in picked, HandOver(n, r)
    PROVE  TypeInv' /\ Taken' = Taken
  <1>1. requests[r].card \in DOMAIN cards /\ Assign(requests[r].card, n) /\ n \in Taken
    BY Ranges DEF HandOver, FirstRunning, Running, Taken
  <1>2. SoundBoard(cards') /\ Len(cards') = Len(cards) /\ DOMAIN cards' = DOMAIN cards /\ KeepsRequests
    BY <1>1, AssignGives, AssignKeeps
  <1>3. UNCHANGED <<asking, agents, proc, picked, crashes, faults>> /\ chosen' = n /\ phase' = "prompt"
    BY DEF HandOver, Reachable
  <1> QED BY <1>1, <1>2, <1>3, TypeStep, Ranges DEF TypeInv, TypeOK, Taken

LEMMA PromptTypes ==
    ASSUME TypeInv, NEW r \in picked, Prompt(r)
    PROVE  TypeInv' /\ Loosens /\ Taken' = Taken
  <1>1. chosen \in Names /\ UNCHANGED <<asking, crashes>>
    BY DEF Prompt, TypeInv, Taken
  <1>2. \E status \in {"started", "failed"} : MarkRequest(r, status, chosen)
    BY DEF Prompt
  <1>3. KeepsRequests /\ picked' \subseteq DOMAIN requests /\ phase' = "next" /\ chosen' = None
    BY <1>1, <1>2, MarkKeeps DEF KeepsRequests, RequestStatuses
  <1>4. proc' \in [Names -> DOMAIN cards \cup {Dead}] /\ faults' \in 0..MaxFaults
    BY Ranges DEF Prompt, Reachable, Unreachable
  <1>5. /\ SoundBoard(cards') /\ Len(cards') = Len(cards) /\ DOMAIN cards' = DOMAIN cards /\ Loosens
        /\ agents' \in [Names -> AgentRow] /\ Taken' = Taken
    <2>1. CASE UNCHANGED <<cards, agents>>
      BY <2>1, SameCards, Ranges DEF Taken
    <2>2. CASE ReturnCards(chosen) /\ EndAgent(chosen)
      BY <1>1, <2>2, ReturnFits, EndKeeps DEF TypeInv
    <2> QED BY <2>1, <2>2 DEF Prompt
  <1> QED BY <1>1, <1>3, <1>4, <1>5, TypeStep DEF TypeInv, TypeOK

LEMMA SpawnFailsTypes ==
    ASSUME TypeInv, NEW r \in picked, SpawnFails(r)
    PROVE  TypeInv' /\ Loosens /\ Taken' = Taken
  <1>1. MarkRequest(r, "failed", None) /\ "failed" \in RequestStatuses /\ None \in Names \cup {None}
    BY DEF SpawnFails, RequestStatuses
  <1>2. KeepsRequests /\ picked' \subseteq DOMAIN requests /\ phase' = "next" /\ chosen' = None
    BY <1>1, MarkKeeps DEF KeepsRequests
  <1>3. UNCHANGED <<cards, asking, agents, proc, crashes>> /\ faults' \in 0..MaxFaults
    BY Ranges DEF SpawnFails
  <1> QED BY <1>2, <1>3, SameCards, TypeStep, Ranges DEF TypeInv, TypeOK, Taken

LEMMA SpawnWorkerTypes ==
    ASSUME TypeInv, NEW r \in picked, SpawnWorker(r)
    PROVE  TypeInv' /\ Loosens /\ Taken' = Taken \cup {NextName} /\ NextName \in Names
  <1>1. /\ NextName \in Names /\ chosen' = NextName /\ phase' = "assign"
        /\ UNCHANGED <<cards, requests, asking, picked, faults, crashes>>
        /\ agents' = [agents EXCEPT ![NextName] = [exists |-> TRUE, over |-> FALSE, ended |-> FALSE]]
        /\ proc' = [proc EXCEPT ![NextName] = requests[r].card]
    BY DEF SpawnWorker
  <1>2. agents' \in [Names -> AgentRow] /\ agents'[NextName].exists
    BY <1>1, Ranges DEF AgentRow
  <1>3. proc' \in [Names -> DOMAIN cards \cup {Dead}]
    BY <1>1, Ranges
  <1>4. Taken' = Taken \cup {NextName}
    BY <1>1, Ranges DEF Taken, AgentRow
  <1> QED BY <1>1, <1>2, <1>3, <1>4, SameCards, SameRequests, TypeStep, Ranges DEF TypeInv, TypeOK

LEMMA AssignSpawnedTypes ==
    ASSUME TypeInv, NEW r \in picked, AssignSpawned(r)
    PROVE  TypeInv' /\ Taken' = Taken
  <1>1. requests[r].card \in DOMAIN cards /\ Assign(requests[r].card, chosen) /\ chosen \in Taken
    BY Ranges DEF AssignSpawned, TypeInv
  <1>2. SoundBoard(cards') /\ Len(cards') = Len(cards) /\ DOMAIN cards' = DOMAIN cards /\ KeepsRequests
    BY <1>1, AssignGives, AssignKeeps DEF Taken
  <1>3. UNCHANGED <<asking, agents, proc, picked, chosen, faults, crashes>> /\ phase' = "mark"
    BY DEF AssignSpawned
  <1> QED BY <1>1, <1>2, <1>3, TypeStep, Ranges DEF TypeInv, TypeOK, Taken

LEMMA MarkSpawnedTypes ==
    ASSUME TypeInv, NEW r \in picked, MarkSpawned(r)
    PROVE  TypeInv' /\ Loosens /\ Taken' = Taken
  <1>1. MarkRequest(r, "started", chosen) /\ "started" \in RequestStatuses /\ chosen \in Names \cup {None}
    BY DEF MarkSpawned, RequestStatuses, TypeInv, TypeOK
  <1>2. KeepsRequests /\ picked' \subseteq DOMAIN requests /\ phase' = "next" /\ chosen' = None
    BY <1>1, MarkKeeps DEF KeepsRequests
  <1>3. UNCHANGED <<cards, asking, agents, proc, faults, crashes>>
    BY DEF MarkSpawned
  <1> QED BY <1>2, <1>3, SameCards, TypeStep, Ranges DEF TypeInv, TypeOK, Taken

LEMMA CrashTypes ==
    ASSUME TypeInv, Crash
    PROVE  TypeInv' /\ Loosens /\ Taken' = Taken
  <1>1. crashes' \in 0..MaxCrashes
    BY SpawnConstants DEF Crash, TypeInv, TypeOK
  <1> QED BY <1>1, SameCards, SameRequests, TypeStep, Ranges DEF Crash, Taken

LEMMA SweepTypes ==
    ASSUME TypeInv, NEW n \in Names, Sweep(n)
    PROVE  TypeInv' /\ Loosens /\ Taken' = Taken
  <1>1. UNCHANGED <<requests, asking, handler, crashes>> /\ faults' \in 0..MaxFaults
    BY Ranges DEF Sweep, Unreachable
  <1>2. /\ SoundBoard(cards') /\ Len(cards') = Len(cards) /\ DOMAIN cards' = DOMAIN cards /\ Loosens
        /\ agents' \in [Names -> AgentRow] /\ Taken' = Taken /\ proc' \in [Names -> DOMAIN cards \cup {Dead}]
    <2>1. CASE TearDown(n)
      BY <2>1, TearDownKeeps
    <2>2. CASE proc' = [proc EXCEPT ![n] = Dead] /\ UNCHANGED <<cards, agents>>
      BY <2>2, SameCards, Ranges DEF Taken
    <2> QED BY <2>1, <2>2 DEF Sweep
  <1> QED BY <1>1, <1>2, SameRequests, TypeStep, Ranges DEF handler, TypeInv, TypeOK

LEMMA RequeueTypes ==
    ASSUME TypeInv, NEW c \in DOMAIN cards, RequeueTerminal(c)
    PROVE  TypeInv' /\ Loosens /\ Taken' = Taken
  <1> DEFINE card == RequeueCard(Row(c))
  <1>1. SoundCard(card) /\ card.stage = "planned"
    BY RowAt, RequeueSound DEF TypeInv, Row
  <1>2. cards' = [cards EXCEPT ![c].row = card]
    BY DEF RequeueTerminal, Row
  <1> HIDE DEF card
  <1>3. SoundBoard(cards') /\ Len(cards') = Len(cards) /\ DOMAIN cards' = DOMAIN cards /\ Loosens
    BY <1>1, <1>2, RowFits DEF TypeInv
  <1>4. UNCHANGED <<requests, asking, agents, proc, phase, picked, chosen, faults, crashes>>
    BY DEF RequeueTerminal, handler
  <1> QED BY <1>3, <1>4, SameRequests, TypeStep, Ranges DEF TypeInv, TypeOK, Taken

LEMMA ReviewTypes ==
    ASSUME TypeInv, NEW c \in DOMAIN cards, Review(c)
    PROVE  TypeInv' /\ Loosens /\ Taken' = Taken
  <1> DEFINE card == AcceptReview(Row(c))
  <1>1. SoundCard(card) /\ card.stage # "development"
    BY RowAt, AcceptSound DEF TypeInv, Row
  <1>2. cards' = [cards EXCEPT ![c].row = card]
    BY DEF Review, Row
  <1> HIDE DEF card
  <1>3. SoundBoard(cards') /\ Len(cards') = Len(cards) /\ DOMAIN cards' = DOMAIN cards /\ Loosens
    BY <1>1, <1>2, RowFits DEF TypeInv
  <1>4. UNCHANGED <<requests, asking, agents, proc, phase, picked, chosen, faults, crashes>>
    BY DEF Review, handler
  <1> QED BY <1>3, <1>4, SameRequests, TypeStep, Ranges DEF TypeInv, TypeOK, Taken

LEMMA ReportTypes ==
    ASSUME TypeInv, NEW n \in Names, NEW kind \in Kinds, Report(n, kind)
    PROVE  TypeInv' /\ Loosens /\ Taken' = Taken
  <1> DEFINE c == proc[n]
             card == ReportCard(Row(c), kind)
  <1>1. c \in DOMAIN cards /\ kind \in ReportKinds
    BY Ranges, SpawnConstants DEF Report, Alive
  <1>2. /\ SoundCard(card)
        /\ card.stage = "development" => Row(c).stage = "development" /\ card.owner = Row(c).owner
    BY <1>1, RowAt, ReportSound DEF TypeInv, Row
  <1>3. cards' = [cards EXCEPT ![c].row = card]
    BY DEF Report, Row
  <1>4. agents' \in [Names -> AgentRow] /\ Taken' = Taken
    BY Ranges DEF Report, AgentRow, Taken
  <1>5. UNCHANGED <<requests, asking, proc, phase, picked, chosen, faults, crashes>>
    BY DEF Report, handler
  <1> HIDE DEF card, c
  <1>6. SoundBoard(cards') /\ Len(cards') = Len(cards) /\ DOMAIN cards' = DOMAIN cards /\ Loosens
    BY <1>1, <1>2, <1>3, RowFits DEF TypeInv
  <1> QED BY <1>4, <1>5, <1>6, SameRequests, TypeStep, Ranges DEF TypeInv, TypeOK

LEMMA UpdateTypes ==
    ASSUME TypeInv, NEW n \in Names, NEW update \in Updates, UpdateAgent(n, update)
    PROVE  TypeInv' /\ Loosens /\ Taken' = Taken
  <1>1. update[1] \in BOOLEAN /\ update[2] \in BOOLEAN
    BY SpawnConstants
  <1>2. agents' \in [Names -> AgentRow] /\ Taken' = Taken
    BY <1>1, Ranges DEF UpdateAgent, AgentRow, Taken
  <1>3. UNCHANGED <<cards, requests, asking, proc, phase, picked, chosen, faults, crashes>>
    BY DEF UpdateAgent, handler
  <1> QED BY <1>2, <1>3, SameCards, SameRequests, TypeStep, Ranges DEF TypeInv, TypeOK

LEMMA DiesTypes ==
    ASSUME TypeInv, NEW n \in Names, ProcessDies(n)
    PROVE  TypeInv' /\ Loosens /\ Taken' = Taken
  BY SameCards, SameRequests, TypeStep, Ranges DEF ProcessDies, handler, TypeInv, TypeOK, Taken

LEMMA StutterTypes ==
    ASSUME TypeInv, UNCHANGED vars
    PROVE  TypeInv' /\ Loosens /\ Taken' = Taken
  BY SameCards, SameRequests, TypeStep, Ranges DEF vars, handler, TypeInv, TypeOK, Taken

(* Every specification of the module keeps its types: names, request and    *)
(* card numbers, and at most MaxRequests rows however many calls are open.  *)
LEMMA TypeNext == TypeInv /\ [Next]_vars => TypeInv'
  BY AskTypes, StoreTypes, ReconcileTypes, SelectTypes, EndHandlingTypes, DropTypes, DeferTypes,
     HandOverTypes, PromptTypes, SpawnFailsTypes, SpawnWorkerTypes, AssignSpawnedTypes, MarkSpawnedTypes,
     CrashTypes, SweepTypes, RequeueTypes, ReviewTypes, ReportTypes, UpdateTypes, DiesTypes, StutterTypes
  DEF Next, AskStep, HandlerStep, RepairStep, WorkerStep

(* TypeOK of the runs, for all constants.                                   *)
THEOREM SpawnTypes == Spec => []TypeOK
  <1>1. Spec => []TypeInv
    BY InitTypes, TypeNext, PTL DEF Spec
  <1>2. TypeInv => TypeOK
    BY DEF TypeInv
  <1> QED BY <1>1, <1>2, PTL

-----------------------------------------------------------------------------
(***************************************************************************)
(* Ownership.                                                              *)
(***************************************************************************)

(* The step leaves the request at hand, or none is at hand.                 *)
SameRequest ==
    \/ /\ UNCHANGED <<phase, chosen, picked>>
       /\ \A r \in picked : requests'[r].card = requests[r].card
    \/ phase \notin {"prompt", "assign"} /\ phase' \notin {"prompt", "assign"}

(* No worker gains a card, a row, or a prompt.                              *)
Quiet ==
    /\ Loosens /\ Taken' = Taken /\ UNCHANGED crashes
    /\ \A n \in Names : proc'[n] \in {proc[n], Dead}
    /\ SameRequest

(* The steps that are not quiet.                                            *)
Delivers ==
    \E r \in picked :
        \/ \E n \in Names : HandOver(n, r)
        \/ Prompt(r) \/ SpawnWorker(r) \/ AssignSpawned(r)

LEMMA QuietAsk ==
    ASSUME TypeInv, AskStep
    PROVE  Quiet
  <1>1. Loosens /\ Taken' = Taken
    BY AskTypes, StoreTypes DEF AskStep
  <1>2. UNCHANGED <<agents, proc, phase, picked, chosen, faults, crashes>>
    BY DEF AskStep, Ask, Store, handler
  <1>3. \A r \in DOMAIN requests : requests'[r].card = requests[r].card
    <2>1. CASE UNCHANGED requests
      BY <2>1
    <2>2. CASE \E row : requests' = Append(requests, row)
      BY <2>2 DEF TypeInv, TypeOK
    <2> QED BY <2>1, <2>2 DEF AskStep, Ask, Store
  <1> QED BY <1>1, <1>2, <1>3, Ranges DEF Quiet, SameRequest

LEMMA QuietHandler ==
    ASSUME TypeInv, HandlerStep, ~Delivers
    PROVE  Quiet
  <1>1. CASE ReconcileRequests
    BY <1>1, ReconcileTypes DEF ReconcileRequests, Quiet, SameRequest
  <1>2. CASE SelectRequests
    BY <1>2, SelectTypes DEF SelectRequests, Quiet, SameRequest
  <1>3. CASE EndHandling
    BY <1>3, EndHandlingTypes DEF EndHandling, Quiet, SameRequest
  <1>4. ASSUME NEW n \in Names, DropMissing(n) PROVE Quiet
    <2>1. \A m \in Names : proc'[m] \in {proc[m], Dead}
      BY <1>4, Ranges DEF DropMissing, TearDown
    <2> QED BY <1>4, <2>1, DropTypes DEF DropMissing, handler, Quiet, SameRequest
  <1>5. ASSUME NEW n \in Names, NEW r \in picked, Defer(n, r) PROVE Quiet
    BY <1>5, DeferTypes DEF Defer, MarkRequest, Quiet, SameRequest
  <1>6. ASSUME NEW r \in picked, SpawnFails(r) PROVE Quiet
    BY <1>6, SpawnFailsTypes DEF SpawnFails, MarkRequest, Quiet, SameRequest
  <1>7. ASSUME NEW r \in picked, MarkSpawned(r) PROVE Quiet
    BY <1>7, MarkSpawnedTypes DEF MarkSpawned, MarkRequest, Quiet, SameRequest
  <1> QED BY <1>1, <1>2, <1>3, <1>4, <1>5, <1>6, <1>7 DEF HandlerStep, Delivers

LEMMA QuietRepair ==
    ASSUME TypeInv, RepairStep
    PROVE  Quiet
  <1>1. Loosens /\ Taken' = Taken
    BY SweepTypes, RequeueTypes, ReviewTypes DEF RepairStep
  <1>2. UNCHANGED <<requests, phase, picked, chosen, crashes>>
    BY DEF RepairStep, Sweep, RequeueTerminal, Review, handler
  <1>3. \A m \in Names : proc'[m] \in {proc[m], Dead}
    BY Ranges DEF RepairStep, Sweep, RequeueTerminal, Review, TearDown
  <1> QED BY <1>1, <1>2, <1>3 DEF Quiet, SameRequest

LEMMA QuietWorker ==
    ASSUME TypeInv, WorkerStep
    PROVE  Quiet
  <1>1. Loosens /\ Taken' = Taken
    BY ReportTypes, UpdateTypes, DiesTypes DEF WorkerStep
  <1>2. UNCHANGED <<requests, phase, picked, chosen, crashes>>
    BY DEF WorkerStep, Report, UpdateAgent, ProcessDies, handler
  <1>3. \A m \in Names : proc'[m] \in {proc[m], Dead}
    BY Ranges DEF WorkerStep, Report, UpdateAgent, ProcessDies
  <1> QED BY <1>1, <1>2, <1>3 DEF Quiet, SameRequest

(* Every step is quiet, delivers a card or a prompt, or ends the tick.      *)
LEMMA StepKinds ==
    ASSUME TypeInv, [Next]_vars
    PROVE  Quiet \/ Delivers \/ Crash
  <1>1. CASE UNCHANGED vars
    BY <1>1, StutterTypes DEF vars, handler, Quiet, SameRequest
  <1> QED BY <1>1, QuietAsk, QuietHandler, QuietRepair, QuietWorker DEF Next

(* The name of a new worker is the next number, which has no row.           *)
LEMMA NextNameIsNew ==
    ASSUME TypeInv, OwnInv, NextName \in Names
    PROVE  /\ NextName \notin Taken
           /\ \E k \in Nat : Taken \cup {NextName} = 1..k
  <1>1. PICK k \in Nat : Taken = 1..k
    BY DEF OwnInv
  <1>2. Cardinality(1..k) = k
    BY FS_Interval
  <1>3. NextName = k + 1
    BY <1>1, <1>2 DEF NextName, Taken
  <1>4. NextName \notin Taken /\ k + 1 \in Nat /\ Taken \cup {NextName} = 1..(k + 1)
    BY <1>1, <1>3
  <1> QED BY <1>4

LEMMA InitOwn == Init => OwnInv
  <1> SUFFICES ASSUME Init PROVE OwnInv
    OBVIOUS
  <1>1. Taken = {} /\ \A n \in Names : HeldCards(n) = {}
    BY DEF Init, Taken, HeldCards
  <1>2. Taken = 1..0
    BY <1>1
  <1>3. phase # "assign"
    BY DEF Init
  <1> QED BY <1>1, <1>2, <1>3 DEF OwnInv

(* A step after which everybody holds no more than before.                  *)
LEMMA OwnLoosens ==
    ASSUME OwnInv, Loosens, Taken' = Taken, phase' = "assign" => phase = "assign" /\ chosen' = chosen,
           phase = "assign" => chosen \in Names
    PROVE  OwnInv'
  <1>1. \A n \in Names \ Taken' : HeldCards(n)' = {}
    BY DEF OwnInv, Loosens
  <1>2. \A n \in Names : \A c, d \in HeldCards(n)' : c = d
    BY DEF OwnInv, Loosens
  <1>3. phase' = "assign" => HeldCards(chosen)' = {}
    BY DEF OwnInv, Loosens, HeldCards
  <1> QED BY <1>1, <1>2, <1>3 DEF OwnInv

(* The two assignments go to a worker with a row and with empty hands.      *)
LEMMA OwnAssign ==
    ASSUME TypeInv, OwnInv, NEW n \in Taken, NEW c \in DOMAIN cards, Assign(c, n),
           HeldCards(n) = {}, Taken' = Taken, phase' # "assign"
    PROVE  OwnInv'
  <1>1. /\ HeldCards(n)' \subseteq {c}
        /\ \A m \in Names \ {n} : HeldCards(m)' \subseteq HeldCards(m)
    BY AssignGives DEF Taken
  <1>2. \A m \in Names \ Taken' : HeldCards(m)' = {}
    BY <1>1 DEF OwnInv
  <1>3. \A m \in Names : \A d, e \in HeldCards(m)' : d = e
    BY <1>1 DEF OwnInv
  <1> QED BY <1>2, <1>3 DEF OwnInv

LEMMA OwnNext == TypeInv /\ OwnInv /\ [Next]_vars => OwnInv'
  <1> SUFFICES ASSUME TypeInv, OwnInv, [Next]_vars PROVE OwnInv'
    OBVIOUS
  <1>0. phase = "assign" => chosen \in Names
    BY DEF TypeInv, Taken
  <1>1. CASE Quiet
    BY <1>0, <1>1, OwnLoosens DEF Quiet, SameRequest
  <1>2. CASE Crash
    BY <1>0, <1>2, OwnLoosens, CrashTypes DEF Crash
  <1>3. ASSUME NEW n \in Names, NEW r \in picked, HandOver(n, r) PROVE OwnInv'
    BY <1>3, OwnAssign, HandOverTypes, Ranges DEF HandOver, FirstRunning, Running, Taken
  <1>4. ASSUME NEW r \in picked, Prompt(r) PROVE OwnInv'
    BY <1>0, <1>4, OwnLoosens, PromptTypes DEF Prompt, MarkRequest
  <1>5. ASSUME NEW r \in picked, SpawnWorker(r) PROVE OwnInv'
    <2>1. Loosens /\ Taken' = Taken \cup {NextName} /\ NextName \in Names /\ chosen' = NextName /\ UNCHANGED cards
      BY <1>5, SpawnWorkerTypes DEF SpawnWorker
    <2>2. NextName \notin Taken /\ \E k \in Nat : Taken' = 1..k
      BY <2>1, NextNameIsNew
    <2>3. HeldCards(NextName) = {}
      BY <2>1, <2>2 DEF OwnInv
    <2>4. HeldCards(chosen)' = {}
      BY <2>1, <2>3, HeldAre DEF HeldCards, HeldBy, Row
    <2>5. \A n \in Names \ Taken' : HeldCards(n)' = {}
      BY <2>1 DEF OwnInv, Loosens
    <2>6. \A n \in Names : \A c, d \in HeldCards(n)' : c = d
      BY <2>1 DEF OwnInv, Loosens
    <2> QED BY <2>2, <2>4, <2>5, <2>6 DEF OwnInv
  <1>6. ASSUME NEW r \in picked, AssignSpawned(r) PROVE OwnInv'
    BY <1>6, OwnAssign, AssignSpawnedTypes, Ranges DEF AssignSpawned, OwnInv, TypeInv
  <1> QED BY <1>1, <1>2, <1>3, <1>4, <1>5, <1>6, StepKinds DEF Delivers

(* OneCardPerSpecialist: not only while it runs, and for any bounds.        *)
THEOREM SpecialistHasOneCard == Spec => []OneCardPerSpecialist
  <1>1. Init => TypeInv /\ OwnInv
    BY InitTypes, InitOwn
  <1>2. TypeInv /\ OwnInv /\ [Next]_vars => (TypeInv /\ OwnInv)'
    BY TypeNext, OwnNext
  <1>3. OwnInv => OneCardPerSpecialist
    BY DEF OwnInv, OneCardPerSpecialist
  <1> QED BY <1>1, <1>2, <1>3, PTL DEF Spec

-----------------------------------------------------------------------------
(***************************************************************************)
(* What an owner was told.                                                 *)
(***************************************************************************)

LEMMA InitTold == Init => ToldInv
  BY DEF Init, ToldInv, Alive

(* A quiet step leaves nobody with a card it was not told of.               *)
LEMMA ToldQuiet ==
    ASSUME TypeInv, ToldInv, Quiet
    PROVE  ToldInv'
  <1> SUFFICES ASSUME crashes = 0
               PROVE  /\ \A n \in Names : Alive(n)' =>
                            HeldCards(n)' \subseteq {proc'[n]} \/ (phase' = "prompt" /\ n = chosen')
                      /\ \A r \in picked' : First(r)' =>
                            /\ phase' = "assign" => proc'[chosen'] \in {Dead, requests'[r].card}
                            /\ phase' = "prompt" => HeldCards(chosen)' \subseteq {requests'[r].card}
    BY DEF ToldInv, Quiet
  <1>1. ASSUME NEW n \in Names, Alive(n)'
        PROVE  HeldCards(n)' \subseteq {proc'[n]} \/ (phase' = "prompt" /\ n = chosen')
    <2>1. proc'[n] = proc[n] /\ Alive(n) /\ HeldCards(n)' \subseteq HeldCards(n)
      BY <1>1 DEF Quiet, Loosens, Alive
    <2>2. HeldCards(n) \subseteq {proc[n]} \/ (phase = "prompt" /\ n = chosen)
      BY <2>1 DEF ToldInv
    <2> QED BY <2>1, <2>2 DEF Quiet, SameRequest
  <1>2. ASSUME NEW r \in picked', First(r)', phase' \in {"assign", "prompt"}
        PROVE  /\ phase' = "assign" => proc'[chosen'] \in {Dead, requests'[r].card}
               /\ phase' = "prompt" => HeldCards(chosen)' \subseteq {requests'[r].card}
    <2>1. UNCHANGED <<phase, chosen, picked>> /\ r \in picked /\ requests'[r].card = requests[r].card
      BY <1>2 DEF Quiet, SameRequest
    <2>2. First(r)
      BY <1>2, <2>1 DEF First
    <2>3. chosen \in Names
      BY <1>2, <2>1 DEF TypeInv, Taken
    <2>4. HeldCards(chosen)' \subseteq HeldCards(chosen) /\ proc'[chosen] \in {proc[chosen], Dead}
      BY <2>1, <2>3 DEF Quiet, Loosens, HeldCards
    <2> QED BY <2>1, <2>2, <2>4 DEF ToldInv
  <1> QED BY <1>1, <1>2

LEMMA ToldHandOver ==
    ASSUME TypeInv, ToldInv, NEW n \in Names, NEW r \in picked, HandOver(n, r)
    PROVE  ToldInv'
  <1> DEFINE c == requests[r].card
  <1>1. /\ UNCHANGED <<proc, picked, crashes>> /\ chosen' = n /\ phase' = "prompt" /\ phase = "next"
        /\ HeldCards(n) = {} /\ First(r)
    BY DEF HandOver
  <1>2. /\ c \in DOMAIN cards /\ HeldCards(n)' \subseteq HeldCards(n) \cup {c}
        /\ \A m \in Names \ {n} : HeldCards(m)' \subseteq HeldCards(m)
    BY Ranges, AssignGives DEF HandOver
  <1>3. requests'[r].card = c
    BY AssignKeeps, Ranges DEF HandOver, KeepsRequests
  <1>4. \A s \in picked' : First(s)' => s = r
    BY <1>1 DEF First, TypeInv, TypeOK
  <1>5. HeldCards(chosen)' \subseteq {requests'[r].card}
    BY <1>1, <1>2, <1>3, HeldAreNext DEF HeldCards
  <1>6. ASSUME NEW m \in Names, Alive(m)', crashes = 0
        PROVE  HeldCards(m)' \subseteq {proc'[m]} \/ (phase' = "prompt" /\ m = chosen')
    BY <1>1, <1>2, <1>6 DEF ToldInv, Alive
  <1> QED BY <1>1, <1>4, <1>5, <1>6 DEF ToldInv

LEMMA ToldPrompt ==
    ASSUME TypeInv, ToldInv, NEW r \in picked, Prompt(r)
    PROVE  ToldInv'
  <1>1. /\ phase = "prompt" /\ phase' = "next" /\ First(r) /\ UNCHANGED crashes
        /\ chosen \in Names /\ Loosens
    BY PromptTypes DEF Prompt, MarkRequest, TypeInv, Taken
  <1>2. ASSUME NEW m \in Names, Alive(m)', crashes = 0
        PROVE  HeldCards(m)' \subseteq {proc'[m]}
    <2>1. HeldCards(m)' \subseteq HeldCards(m)
      BY <1>1 DEF Loosens
    <2>2. CASE m # chosen
      BY <1>1, <1>2, <2>1, <2>2, Ranges DEF ToldInv, Prompt, Alive
    <2>3. CASE m = chosen /\ proc' = [proc EXCEPT ![chosen] = requests[r].card]
      BY <1>1, <1>2, <2>1, <2>3, Ranges DEF ToldInv
    <2>4. CASE m = chosen /\ ReturnCards(chosen)
      BY <1>1, <2>4, ReturnFits DEF TypeInv
    <2> QED BY <2>2, <2>3, <2>4 DEF Prompt
  <1> QED BY <1>1, <1>2 DEF ToldInv

LEMMA ToldSpawn ==
    ASSUME TypeInv, OwnInv, ToldInv, NEW r \in picked, SpawnWorker(r)
    PROVE  ToldInv'
  <1>1. /\ NextName \in Names /\ chosen' = NextName /\ phase' = "assign" /\ phase = "next" /\ First(r)
        /\ UNCHANGED <<cards, requests, picked, crashes>>
        /\ proc' = [proc EXCEPT ![NextName] = requests[r].card]
    BY DEF SpawnWorker
  <1>2. HeldCards(NextName) = {}
    BY <1>1, NextNameIsNew DEF OwnInv
  <1>3. \A m \in Names : HeldCards(m)' \subseteq HeldCards(m)
    BY <1>1, SameCards DEF Loosens
  <1>4. \A s \in picked' : First(s)' => s = r
    BY <1>1 DEF First, TypeInv, TypeOK
  <1>5. proc'[chosen'] = requests'[r].card
    BY <1>1, Ranges
  <1>6. ASSUME NEW m \in Names, Alive(m)', crashes = 0
        PROVE  HeldCards(m)' \subseteq {proc'[m]}
    <2>1. CASE m = NextName
      BY <1>2, <1>3, <2>1, HeldAre, HeldAreNext
    <2>2. CASE m # NextName
      BY <1>1, <1>3, <1>6, <2>2, Ranges DEF ToldInv, Alive
    <2> QED BY <2>1, <2>2
  <1> QED BY <1>1, <1>4, <1>5, <1>6 DEF ToldInv

LEMMA ToldAssign ==
    ASSUME TypeInv, OwnInv, ToldInv, NEW r \in picked, AssignSpawned(r)
    PROVE  ToldInv'
  <1> DEFINE c == requests[r].card
  <1>1. /\ phase = "assign" /\ phase' = "mark" /\ First(r) /\ UNCHANGED <<proc, picked, chosen, crashes>>
        /\ chosen \in Names /\ HeldCards(chosen) = {}
    BY DEF AssignSpawned, TypeInv, Taken, OwnInv
  <1>2. /\ HeldCards(chosen)' \subseteq {c}
        /\ \A m \in Names \ {chosen} : HeldCards(m)' \subseteq HeldCards(m)
    <2>1. c \in DOMAIN cards /\ Assign(c, chosen)
      BY Ranges DEF AssignSpawned
    <2>2. \A n \in Names : n = chosen => HeldCards(n)' \subseteq HeldCards(n) \cup {c}
      BY <1>1, <2>1, AssignGives
    <2>3. \A m \in Names \ {chosen} : HeldCards(m)' \subseteq HeldCards(m)
      BY <1>1, <2>1, AssignGives
    <2> QED BY <1>1, <2>2, <2>3 DEF HeldCards
  <1>3. ASSUME NEW m \in Names, Alive(m)', crashes = 0
        PROVE  HeldCards(m)' \subseteq {proc'[m]}
    <2>1. CASE m = chosen
      <3>1. proc[chosen] = c
        BY <1>1, <1>3, <2>1 DEF ToldInv, Alive
      <3>2. HeldCards(m)' \subseteq {c}
        BY <1>1, <1>2, <2>1, HeldAreNext DEF HeldCards
      <3> QED BY <1>1, <2>1, <3>1, <3>2
    <2>2. CASE m # chosen
      BY <1>1, <1>2, <1>3, <2>2 DEF ToldInv, Alive
    <2> QED BY <2>1, <2>2
  <1> QED BY <1>1, <1>3 DEF ToldInv

LEMMA ToldNext == TypeInv /\ OwnInv /\ ToldInv /\ [Next]_vars => ToldInv'
  <1> SUFFICES ASSUME TypeInv, OwnInv, ToldInv, [Next]_vars PROVE ToldInv'
    OBVIOUS
  <1>1. ASSUME Crash PROVE ToldInv'
    <2>1. crashes' # 0
      BY <1>1, SpawnConstants DEF Crash, TypeInv, TypeOK
    <2> QED BY <2>1 DEF ToldInv
  <1> QED BY <1>1, StepKinds, ToldQuiet, ToldHandOver, ToldPrompt, ToldSpawn, ToldAssign DEF Delivers

(* OwnerIsTold: with no tick cut short, who lives and owns a card has its   *)
(* prompt, whatever the order of reports, deaths and errors of tmux.        *)
THEOREM OwnersAreTold == Spec => []OwnerIsTold
  <1>1. Init => TypeInv /\ OwnInv /\ ToldInv
    BY InitTypes, InitOwn, InitTold
  <1>2. TypeInv /\ OwnInv /\ ToldInv /\ [Next]_vars => (TypeInv /\ OwnInv /\ ToldInv)'
    BY TypeNext, OwnNext, ToldNext
  <1>3. ToldInv => OwnerIsTold
    BY DEF ToldInv, OwnerIsTold
  <1> QED BY <1>1, <1>2, <1>3, PTL DEF Spec

-----------------------------------------------------------------------------
(***************************************************************************)
(* Answers.                                                                *)
(***************************************************************************)

Answered(r) == requests[r].status \in {"started", "failed"}

AnswersKept == \A r \in DOMAIN requests : Answered(r) => requests'[r] = requests[r]

(* What a pass has selected may be cancelled under its hands, by the        *)
(* assignment of another request, but nobody else answers it.               *)
PickedInv ==
    /\ \A r \in picked : requests[r].status \in {"queued", "cancelled"}
    /\ phase = "idle" => picked = {}

(* A step of somebody else: no row changes that the pass holds.             *)
LEMMA PickedAlone ==
    ASSUME TypeInv, PickedInv, UNCHANGED handler,
           UNCHANGED requests \/ \E row : requests' = Append(requests, row)
    PROVE  AnswersKept /\ PickedInv'
  <1>1. \A r \in DOMAIN requests : requests'[r] = requests[r]
    <2>1. ASSUME NEW row, requests' = Append(requests, row), NEW r \in DOMAIN requests
          PROVE  requests'[r] = requests[r]
      <3>1. requests \in Seq(RequestRow) /\ r \in 1..Len(requests)
        BY DEF TypeInv, TypeOK
      <3> QED BY <2>1, <3>1
    <2> QED BY <2>1
  <1>2. picked \subseteq DOMAIN requests
    BY DEF TypeInv, TypeOK
  <1> QED BY <1>1, <1>2 DEF AnswersKept, PickedInv, handler

(* assign_card cancels what still waits, and nothing else.                  *)
LEMMA AssignSpares ==
    ASSUME TypeInv, PickedInv, NEW c, NEW n, Assign(c, n), picked' = picked, phase' # "idle"
    PROVE  AnswersKept /\ PickedInv'
  <1>1. \A r \in DOMAIN requests :
            \/ requests'[r] = requests[r]
            \/ requests[r].status \in {"queued", "deferred"} /\ requests'[r].status = "cancelled"
    BY Ranges DEF Assign, RequestRow
  <1>2. picked \subseteq DOMAIN requests
    BY DEF TypeInv, TypeOK
  <1> QED BY <1>1, <1>2 DEF AnswersKept, Answered, PickedInv

(* mark_spawn_request writes a row the pass holds, which had no answer.     *)
LEMMA MarkSpares ==
    ASSUME TypeInv, PickedInv, NEW r \in picked, NEW status, NEW agent, MarkRequest(r, status, agent)
    PROVE  AnswersKept /\ PickedInv'
  <1>1. \A s \in DOMAIN requests : s # r => requests'[s] = requests[s]
    BY DEF MarkRequest
  <1>2. picked \subseteq DOMAIN requests /\ picked' = picked \ {r} /\ phase' = "next" /\ ~Answered(r)
    BY DEF TypeInv, TypeOK, MarkRequest, PickedInv, Answered
  <1> QED BY <1>1, <1>2 DEF AnswersKept, PickedInv

LEMMA ReconcileSpares ==
    ASSUME TypeInv, PickedInv, ReconcileRequests
    PROVE  AnswersKept /\ PickedInv'
  <1>1. \A r \in DOMAIN requests : Answered(r) => requests'[r] = requests[r]
    BY DEF ReconcileRequests, Answered
  <1> QED BY <1>1 DEF ReconcileRequests, AnswersKept, PickedInv

LEMMA SelectSpares ==
    ASSUME TypeInv, PickedInv, SelectRequests
    PROVE  AnswersKept /\ PickedInv'
  BY DEF SelectRequests, AnswersKept, PickedInv, Selectable, SelectedStatuses

LEMMA HandlerSpares ==
    ASSUME TypeInv, PickedInv, HandlerStep
    PROVE  AnswersKept /\ PickedInv'
  <1>1. CASE EndHandling
    BY <1>1 DEF EndHandling, AnswersKept, PickedInv
  <1>2. ASSUME NEW n \in Names, DropMissing(n) PROVE AnswersKept /\ PickedInv'
    BY <1>2, PickedAlone DEF DropMissing
  <1>3. ASSUME NEW r \in picked, NEW n \in Names, Defer(n, r) PROVE AnswersKept /\ PickedInv'
    BY <1>3, MarkSpares DEF Defer
  <1>4. ASSUME NEW r \in picked, NEW n \in Names, HandOver(n, r) PROVE AnswersKept /\ PickedInv'
    BY <1>4, AssignSpares DEF HandOver
  <1>5. ASSUME NEW r \in picked, Prompt(r) PROVE AnswersKept /\ PickedInv'
    BY <1>5, MarkSpares DEF Prompt
  <1>6. ASSUME NEW r \in picked, SpawnFails(r) \/ MarkSpawned(r) PROVE AnswersKept /\ PickedInv'
    BY <1>6, MarkSpares DEF SpawnFails, MarkSpawned
  <1>7. ASSUME NEW r \in picked, SpawnWorker(r) PROVE AnswersKept /\ PickedInv'
    BY <1>7 DEF SpawnWorker, AnswersKept, PickedInv
  <1>8. ASSUME NEW r \in picked, AssignSpawned(r) PROVE AnswersKept /\ PickedInv'
    BY <1>8, AssignSpares DEF AssignSpawned
  <1> QED BY <1>1, <1>2, <1>3, <1>4, <1>5, <1>6, <1>7, <1>8, ReconcileSpares, SelectSpares DEF HandlerStep

LEMMA AnswersNext == TypeInv /\ PickedInv /\ [Next]_vars => AnswersKept /\ PickedInv'
  <1> SUFFICES ASSUME TypeInv, PickedInv, [Next]_vars PROVE AnswersKept /\ PickedInv'
    OBVIOUS
  <1>1. CASE UNCHANGED vars
    BY <1>1, PickedAlone DEF vars
  <1>2. CASE AskStep
    <2>1. UNCHANGED handler /\ (UNCHANGED requests \/ \E row : requests' = Append(requests, row))
      BY <1>2 DEF AskStep, Ask, Store
    <2> QED BY <2>1, PickedAlone
  <1>3. CASE RepairStep \/ WorkerStep
    <2>1. UNCHANGED <<handler, requests>>
      BY <1>3 DEF RepairStep, WorkerStep, Sweep, RequeueTerminal, Review, Report, UpdateAgent, ProcessDies
    <2> QED BY <2>1, PickedAlone
  <1>4. CASE Crash
    BY <1>4 DEF Crash, AnswersKept, PickedInv
  <1> QED BY <1>1, <1>2, <1>3, <1>4, HandlerSpares DEF Next

(* AnswerIsFinal: a request that was answered keeps its answer, however     *)
(* many requests of a pass were made for the card it was answered with.     *)
THEOREM AnswersAreFinal == Spec => AnswerIsFinal
  <1>1. Init => PickedInv
    BY DEF Init, PickedInv
  <1>2. TypeInv /\ PickedInv /\ [Next]_vars => PickedInv'
    BY AnswersNext
  <1>3. TypeInv /\ PickedInv /\ [Next]_vars
        => [\A r \in DOMAIN requests :
                requests[r].status \in {"started", "failed"} => requests'[r] = requests[r]]_vars
    BY AnswersNext DEF AnswersKept, Answered
  <1> QED BY <1>1, <1>2, <1>3, InitTypes, TypeNext, PTL DEF Spec, AnswerIsFinal
=============================================================================
