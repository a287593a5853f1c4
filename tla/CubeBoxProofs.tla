---------------------------- MODULE CubeBoxProofs ----------------------------
(***************************************************************************)
(* Theorems about the CubeBox panel: its requests are steps the server     *)
(* allows, what it shows has its shape whatever is replayed, and a turn it *)
(* shows as streaming is read.                                             *)
(***************************************************************************)
EXTENDS CubeBoxProperties, CubeBoxTurnsProofs, FiniteSetTheorems,
        NaturalsInduction, WellFoundedInduction

-----------------------------------------------------------------------------
(* A set of numbers has a least one.                                       *)
LEMMA LeastNumber ==
  ASSUME NEW S, S \subseteq Nat, S # {}
  PROVE  \E x \in S : \A y \in S : x <= y
<1> DEFINE R == {ss \in Nat \X Nat : ss[1] < ss[2]}
<1>1. IsWellFoundedOn(R, Nat)
  BY NatLessThanWellFounded DEF OpToRel
<1>2. PICK x \in S : \A y \in S : <<y, x>> \notin R
  <2> HIDE DEF R
  <2> QED
    BY <1>1, WFMin
<1>3. ASSUME NEW y \in S
      PROVE  x <= y
  <2>1. <<y, x>> \in Nat \X Nat
    OBVIOUS
  <2>2. y < x => <<y, x>> \in R
    BY <2>1
  <2> QED
    BY <1>2, <2>2
<1> QED
  BY <1>3

(* A set that holds 0 and with each number the next one holds them all.    *)
LEMMA Upwards ==
  ASSUME NEW S, 0 \in S, \A n \in Nat : n \in S => n + 1 \in S
  PROVE  Nat \subseteq S
<1> SUFFICES ASSUME ~(Nat \subseteq S) PROVE FALSE
  OBVIOUS
<1>1. PICK m \in Nat \ S : \A k \in Nat \ S : m <= k
  BY LeastNumber
<1>2. m - 1 \in Nat /\ m - 1 \notin Nat \ S
  BY <1>1
<1> QED
  BY <1>1, <1>2

-----------------------------------------------------------------------------
(***************************************************************************)
(* The views the reducer makes.                                            *)
(***************************************************************************)
Kinds == {"user_message", "agent_message", "error_item"}
ItemStatuses == {"streaming", "completed", "error", "interrupted"}
TurnStatuses == {"idle", "streaming", "completed", "error", "interrupted"}

Items == [id : Kinds \X Nat, kind : Kinds, text : Nat, status : ItemStatuses]

Distinct(items) == \A i, j \in DOMAIN items : items[i].id = items[j].id => i = j

ViewRecords ==
  [conv : Conversations \cup {NoConversation}, archived : BOOLEAN, items : Seq(Items),
   status : TurnStatuses, active : Nat, next : Nat \ {0}, composer : Drafts \cup {NoDraft},
   loading : BOOLEAN, error : BOOLEAN]

Views == {v \in ViewRecords : Distinct(v.items)}

ItemLists == {items \in Seq(Items) : Distinct(items)}

LEMMA AppendItemLists ==
  ASSUME NEW items \in ItemLists, NEW item \in Items,
         \A i \in DOMAIN items : items[i].id # item.id
  PROVE  Append(items, item) \in ItemLists
<1>1. items \in Seq(Items) /\ Distinct(items)
  BY DEF ItemLists
<1>2. /\ Append(items, item) \in Seq(Items)
      /\ Len(Append(items, item)) = Len(items) + 1
      /\ \A i \in 1..Len(items) : Append(items, item)[i] = items[i]
      /\ Append(items, item)[Len(items) + 1] = item
  BY <1>1, AppendProperties
<1>3. Len(items) \in Nat /\ DOMAIN items = 1..Len(items)
  BY <1>1, LenProperties
<1>4. DOMAIN Append(items, item) = 1..(Len(items) + 1)
  BY <1>2, LenProperties
<1> DEFINE new == Append(items, item)
<1>5. \A i \in DOMAIN new : i \in DOMAIN items \/ i = Len(items) + 1
  BY <1>3, <1>4
<1> HIDE DEF new
<1>6. Distinct(new)
  <2> SUFFICES ASSUME NEW i \in DOMAIN new, NEW j \in DOMAIN new, new[i].id = new[j].id
               PROVE  i = j
    BY DEF Distinct
  <2>1. CASE i \in DOMAIN items /\ j \in DOMAIN items
    BY <2>1, <1>1, <1>2, <1>3 DEF Distinct, new
  <2>2. CASE i = Len(items) + 1 /\ j \in DOMAIN items
    BY <2>2, <1>2, <1>3 DEF new
  <2>3. CASE j = Len(items) + 1 /\ i \in DOMAIN items
    BY <2>3, <1>2, <1>3 DEF new
  <2> QED
    BY <2>1, <2>2, <2>3, <1>5
<1> QED
  BY <1>2, <1>6 DEF ItemLists, new

(* Rewriting items without touching their ids.                             *)
LEMMA RewriteItemLists ==
  ASSUME NEW items \in ItemLists, NEW new, DOMAIN new = DOMAIN items,
         new = [i \in DOMAIN items |-> new[i]],
         \A i \in DOMAIN items : new[i] \in Items /\ new[i].id = items[i].id
  PROVE  new \in ItemLists
<1>1. items \in Seq(Items) /\ Distinct(items)
  BY DEF ItemLists
<1>2. Len(items) \in Nat /\ DOMAIN items = 1..Len(items)
  BY <1>1, LenProperties
<1>3. new \in [1..Len(items) -> Items]
  BY <1>2
<1>4. new \in Seq(Items)
  BY <1>2, <1>3, SeqDef
<1>5. Distinct(new)
  BY <1>1 DEF Distinct
<1> QED
  BY <1>4, <1>5 DEF ItemLists

(* The reducer's four ways of changing the items.                          *)
LEMMA AppendOrReplaceKeeps ==
  ASSUME NEW items \in ItemLists, NEW item \in Items
  PROVE  AppendOrReplaceItem(items, item) \in ItemLists
<1>1. CASE \E i \in DOMAIN items : items[i].id = item.id
  <2> DEFINE new == [i \in DOMAIN items |-> IF items[i].id = item.id THEN item ELSE items[i]]
  <2>1. \A i \in DOMAIN items : items[i] \in Items
    BY ElementOfSeq, LenProperties DEF ItemLists
  <2>2. new \in ItemLists
    BY <2>1, RewriteItemLists
  <2> QED
    BY <1>1, <2>2 DEF AppendOrReplaceItem
<1>2. CASE ~\E i \in DOMAIN items : items[i].id = item.id
  BY <1>2, AppendItemLists DEF AppendOrReplaceItem
<1> QED
  BY <1>1, <1>2

LEMMA ItemsOfList ==
  ASSUME NEW items \in ItemLists
  PROVE  \A i \in DOMAIN items : items[i] \in Items
BY ElementOfSeq, LenProperties DEF ItemLists

LEMMA DeltaKeepsItem ==
  ASSUME NEW item \in Items
  PROVE  /\ [item EXCEPT !.text = @ + 1, !.status = "streaming"] \in Items
         /\ [item EXCEPT !.text = @ + 1, !.status = "streaming"].id = item.id
<1>1. item.text + 1 \in Nat /\ "streaming" \in ItemStatuses
  BY DEF Items, ItemStatuses
<1>2. PICK text \in Nat, status \in ItemStatuses : text = item.text + 1 /\ status = "streaming"
  BY <1>1
<1>3. [item EXCEPT !.text = text, !.status = status] \in Items
  BY DEF Items
<1>4. [item EXCEPT !.text = text, !.status = status].id = item.id
  BY DEF Items
<1> QED
  BY <1>2, <1>3, <1>4

LEMMA MergeKeeps ==
  ASSUME NEW items \in ItemLists, NEW turn \in Nat
  PROVE  MergeAgentDelta(items, turn) \in ItemLists
<1> DEFINE id == <<"agent_message", turn>>
<1>1. CASE \E i \in DOMAIN items : items[i].id = id
  <2> DEFINE new == [i \in DOMAIN items |->
                       IF items[i].id = id
                       THEN [items[i] EXCEPT !.text = @ + 1, !.status = "streaming"]
                       ELSE items[i]]
  <2>1. ASSUME NEW i \in DOMAIN items
        PROVE  new[i] \in Items /\ new[i].id = items[i].id
    <3>1. items[i] \in Items
      BY ItemsOfList
    <3> QED
      BY <3>1, DeltaKeepsItem
  <2>2. DOMAIN new = DOMAIN items /\ new = [i \in DOMAIN items |-> new[i]]
    OBVIOUS
  <2> HIDE DEF new
  <2>3. new \in ItemLists
    BY <2>1, <2>2, RewriteItemLists
  <2> QED
    BY <1>1, <2>3 DEF MergeAgentDelta, new
<1>2. CASE ~\E i \in DOMAIN items : items[i].id = id
  <2> DEFINE item == Item("agent_message", turn, 1, "streaming")
  <2>1. item \in Items /\ item.id = id
    BY DEF Item, Items, Kinds, ItemStatuses
  <2> HIDE DEF item
  <2>2. Append(items, item) \in ItemLists
    BY <1>2, <2>1, AppendItemLists
  <2> QED
    BY <1>2, <2>2 DEF MergeAgentDelta, item
<1> QED
  BY <1>1, <1>2

LEMMA FinalizeKeeps ==
  ASSUME NEW items \in ItemLists, NEW turn \in Nat
  PROVE  FinalizeItem(items, turn) \in ItemLists
<1> DEFINE new == FinalizeItem(items, turn)
<1>1. \A i \in DOMAIN items : new[i] \in Items /\ new[i].id = items[i].id
  BY ItemsOfList DEF Items, ItemStatuses, FinalizeItem
<1>2. DOMAIN new = DOMAIN items /\ new = [i \in DOMAIN items |-> new[i]]
  BY DEF FinalizeItem
<1> HIDE DEF new
<1> QED
  BY <1>1, <1>2, RewriteItemLists DEF new

LEMMA MarkKeeps ==
  ASSUME NEW items \in ItemLists, NEW status \in ItemStatuses
  PROVE  MarkStreaming(items, status) \in ItemLists
<1> DEFINE new == MarkStreaming(items, status)
<1>1. \A i \in DOMAIN items : new[i] \in Items /\ new[i].id = items[i].id
  BY ItemsOfList DEF Items, ItemStatuses, MarkStreaming
<1>2. DOMAIN new = DOMAIN items /\ new = [i \in DOMAIN items |-> new[i]]
  BY DEF MarkStreaming
<1> HIDE DEF new
<1> QED
  BY <1>1, <1>2, RewriteItemLists DEF new

-----------------------------------------------------------------------------
(* An event leaves a view in its shape; only a turn.started or a delta     *)
(* makes it streaming, and an end of the turn takes that away.             *)
StreamingTypes == {"turn.started", "turn.agent_message.delta"}

ToldView(v, c, archived) == [v EXCEPT !.conv = c, !.archived = archived]
EndedView(v, status) == [v EXCEPT !.active = NoTurn, !.status = status]
FailedView(v, items) == [v EXCEPT !.active = NoTurn, !.status = "error", !.error = TRUE,
                                  !.items = items]

LEMMA ToldViewKeeps ==
  ASSUME NEW v \in ViewRecords, NEW c \in Conversations, NEW archived \in BOOLEAN
  PROVE  /\ ToldView(v, c, archived) \in ViewRecords
         /\ ToldView(v, c, archived).items = v.items
         /\ ToldView(v, c, archived).status = v.status
BY DEF ViewRecords, ToldView

LEMMA EndedViewKeeps ==
  ASSUME NEW v \in ViewRecords, NEW status \in TurnStatuses
  PROVE  /\ EndedView(v, status) \in ViewRecords
         /\ EndedView(v, status).items = v.items /\ EndedView(v, status).status = status
BY DEF ViewRecords, NoTurn, EndedView

LEMMA FailedViewKeeps ==
  ASSUME NEW v \in ViewRecords, NEW items \in Seq(Items)
  PROVE  /\ FailedView(v, items) \in ViewRecords
         /\ FailedView(v, items).items = items /\ FailedView(v, items).status = "error"
BY DEF ViewRecords, NoTurn, TurnStatuses, FailedView

LEMMA ApplyKeeps ==
  ASSUME NEW v \in Views, NEW e \in Events
  PROVE  /\ ApplyToView(v, e) \in Views
         /\ e.type \notin StreamingTypes =>
              (ApplyToView(v, e).status = "streaming" => v.status = "streaming")
         /\ e.type \in TerminalTypes => ApplyToView(v, e).status # "streaming"
<1> DEFINE seen == [v EXCEPT !.next = IF e.seq >= @ THEN e.seq + 1 ELSE @]
<1>1. /\ e.conv \in Conversations /\ e.seq \in Nat \ {0} /\ e.turn \in Nat /\ e.text \in Nat
      /\ e.type \in EventTypes
  BY DEF Events
<1>2. v \in ViewRecords /\ v.items \in ItemLists
  BY DEF Views, ItemLists, ViewRecords
<1>3. seen \in ViewRecords /\ seen.items = v.items /\ seen.status = v.status
  BY <1>1, <1>2 DEF ViewRecords
<1>4. seen \in Views
  BY <1>2, <1>3 DEF Views, ItemLists
<1> HIDE DEF seen
<1>5. CASE e.type \in ConversationTypes
  <2>1. \E archived \in BOOLEAN : ApplyToView(v, e) = ToldView(seen, e.conv, archived)
    <3>1. CASE e.status = "archived"
      <4>1. ApplyToView(v, e) = ToldView(seen, e.conv, TRUE)
        BY <1>5, <3>1 DEF ApplyToView, seen, ToldView, ConversationTypes
      <4> QED
        BY <4>1
    <3>2. CASE e.status # "archived"
      <4>1. ApplyToView(v, e) = ToldView(seen, e.conv, FALSE)
        BY <1>5, <3>2 DEF ApplyToView, seen, ToldView, ConversationTypes
      <4> QED
        BY <4>1
    <3> QED
      BY <3>1, <3>2
  <2>2. /\ ApplyToView(v, e) \in ViewRecords
        /\ ApplyToView(v, e).items = v.items /\ ApplyToView(v, e).status = v.status
    BY <1>1, <1>3, <2>1, ToldViewKeeps
  <2> QED
    BY <1>2, <1>5, <2>2
       DEF Views, ItemLists, ConversationTypes, StreamingTypes, TerminalTypes
<1>6. CASE e.type = "turn.started"
  <2>1. ApplyToView(v, e) = [seen EXCEPT !.active = e.turn, !.status = "streaming",
                                         !.error = FALSE]
    BY <1>6 DEF ApplyToView, seen, ConversationTypes
  <2> QED
    BY <1>1, <1>2, <1>3, <1>6, <2>1
       DEF Views, ItemLists, ViewRecords, TurnStatuses, StreamingTypes, TerminalTypes
<1>7. CASE e.type = "turn.user_message.accepted"
  <2> DEFINE item == Item("user_message", e.turn, e.text, "completed")
             items == AppendOrReplaceItem(seen.items, item)
  <2>1. items \in ItemLists
    <3>1. item \in Items
      BY <1>1 DEF Item, Items, Kinds, ItemStatuses
    <3> HIDE DEF item
    <3> QED
      BY <1>2, <1>3, <3>1, AppendOrReplaceKeeps
  <2>2. ApplyToView(v, e) = [seen EXCEPT !.items = items, !.composer = NoDraft]
    BY <1>7 DEF ApplyToView, seen, ConversationTypes
  <2> HIDE DEF items
  <2> QED
    BY ZenonT(60), <1>1, <1>2, <1>3, <1>7, <2>1, <2>2
       DEF Views, ItemLists, ViewRecords, StreamingTypes, TerminalTypes
<1>8. CASE e.type = "turn.agent_message.delta"
  <2> DEFINE items == MergeAgentDelta(seen.items, e.turn)
  <2>1. items \in ItemLists
    BY <1>1, <1>2, <1>3, MergeKeeps
  <2>2. ApplyToView(v, e) = [seen EXCEPT !.items = items, !.status = "streaming"]
    BY <1>8 DEF ApplyToView, seen, ConversationTypes
  <2> HIDE DEF items
  <2> QED
    BY <1>1, <1>2, <1>3, <1>8, <2>1, <2>2
       DEF Views, ItemLists, ViewRecords, TurnStatuses, StreamingTypes, TerminalTypes
<1>9. CASE e.type = "turn.agent_message.completed"
  <2> DEFINE items == FinalizeItem(seen.items, e.turn)
  <2>1. items \in ItemLists
    BY <1>1, <1>2, <1>3, FinalizeKeeps
  <2>2. ApplyToView(v, e) = [seen EXCEPT !.items = items]
    BY <1>9 DEF ApplyToView, seen, ConversationTypes
  <2> HIDE DEF items
  <2> QED
    BY <1>1, <1>2, <1>3, <1>9, <2>1, <2>2
       DEF Views, ItemLists, ViewRecords, StreamingTypes, TerminalTypes
<1>10. CASE e.type = "turn.error"
  <2> DEFINE item == Item("error_item", e.seq, 0, "error")
             items == AppendOrReplaceItem(seen.items, item)
  <2>1. items \in ItemLists
    <3>1. item \in Items
      BY <1>1 DEF Item, Items, Kinds, ItemStatuses
    <3> HIDE DEF item
    <3> QED
      BY <1>2, <1>3, <3>1, AppendOrReplaceKeeps
  <2>2. ApplyToView(v, e) = FailedView(seen, items)
    BY <1>10 DEF ApplyToView, seen, ConversationTypes, FailedView
  <2> HIDE DEF items
  <2>3. /\ ApplyToView(v, e) \in ViewRecords
        /\ ApplyToView(v, e).items = items /\ ApplyToView(v, e).status = "error"
    BY <1>3, <2>1, <2>2, FailedViewKeeps DEF ItemLists
  <2> QED
    BY <2>1, <2>3 DEF Views, ItemLists
<1>11. CASE e.type = "turn.interrupted"
  <2> DEFINE items == MarkStreaming(seen.items, "interrupted")
  <2>1. items \in ItemLists
    BY <1>2, <1>3, MarkKeeps DEF ItemStatuses
  <2>2. ApplyToView(v, e) = [seen EXCEPT !.status = "interrupted", !.items = items]
    BY <1>11 DEF ApplyToView, seen, ConversationTypes
  <2> HIDE DEF items
  <2> QED
    BY <1>1, <1>2, <1>3, <1>11, <2>1, <2>2
       DEF Views, ItemLists, ViewRecords, TurnStatuses, StreamingTypes, TerminalTypes
<1>12. CASE e.type = "turn.completed"
  <2> DEFINE status == NormalizeTurnStatus(e.status)
  <2>1. status \in TurnStatuses \ {"streaming"}
    BY DEF NormalizeTurnStatus, TurnStatuses
  <2>2. ApplyToView(v, e) = EndedView(seen, status)
    BY <1>12 DEF ApplyToView, seen, ConversationTypes, EndedView
  <2> HIDE DEF status
  <2>3. /\ ApplyToView(v, e) \in ViewRecords
        /\ ApplyToView(v, e).items = seen.items /\ ApplyToView(v, e).status = status
    BY <1>3, <2>1, <2>2, EndedViewKeeps
  <2> QED
    BY <1>2, <1>3, <2>1, <2>3 DEF Views, ItemLists
<1>13. CASE e.type = "turn.query_entity.confirmed"
  <2>1. ApplyToView(v, e) = seen
    BY <1>13 DEF ApplyToView, seen, ConversationTypes
  <2> QED
    BY <1>3, <1>4, <1>13, <2>1 DEF StreamingTypes, TerminalTypes
<1> QED
  BY <1>1, <1>5, <1>6, <1>7, <1>8, <1>9, <1>10, <1>11, <1>12, <1>13 DEF EventTypes

-----------------------------------------------------------------------------
(***************************************************************************)
(* Replaying.  FoldLeft folds the first n events as the first n - 1 and    *)
(* then the n-th, so what every event keeps the fold keeps.                *)
(***************************************************************************)
IsFold(iter, base, seq, n) ==
  iter = [s \in SUBSET (1..n) |->
            IF s = {} THEN base ELSE ApplyToView(iter[s \ {Max(s)}], seq[Max(s)])]

LEMMA MaxOfPrefix ==
  ASSUME NEW n \in Nat, NEW s \in SUBSET (1..(n + 1)), n + 1 \in s
  PROVE  Max(s) = n + 1
<1>1. \A x \in s : n + 1 >= x
  OBVIOUS
<1>2. Max(s) \in s /\ \A x \in s : Max(s) >= x
  BY <1>1 DEF Max
<1>3. PICK m \in s : m = Max(s)
  BY <1>2
<1>4. m \in Int /\ m >= n + 1 /\ n + 1 >= m
  BY <1>1, <1>2, <1>3
<1> QED
  BY <1>3, <1>4

LEMMA FoldExists ==
  ASSUME NEW base, NEW seq
  PROVE  \A n \in Nat : \E iter : IsFold(iter, base, seq, n)
<1> DEFINE Foldable == {n \in Nat : \E iter : IsFold(iter, base, seq, n)}
<1>1. 0 \in Foldable
  <2> DEFINE iter == [s \in {{}} |-> base]
  <2>1. SUBSET (1..0) = {{}}
    OBVIOUS
  <2>2. iter = [s \in {{}} |-> IF s = {} THEN base
                               ELSE ApplyToView(iter[s \ {Max(s)}], seq[Max(s)])]
    OBVIOUS
  <2>3. IsFold(iter, base, seq, 0)
    BY <2>1, <2>2 DEF IsFold
  <2> QED
    BY <2>3
<1>2. ASSUME NEW n \in Nat, n \in Foldable
      PROVE  n + 1 \in Foldable
  <2>1. PICK g : IsFold(g, base, seq, n)
    BY <1>2
  <2> DEFINE iter == [s \in SUBSET (1..(n + 1)) |->
                        IF n + 1 \in s THEN ApplyToView(g[s \ {n + 1}], seq[n + 1])
                        ELSE g[s]]
             body(s) == IF s = {} THEN base
                        ELSE ApplyToView(iter[s \ {Max(s)}], seq[Max(s)])
  <2>2. \A s \in SUBSET (1..(n + 1)) : n + 1 \notin s => s \in SUBSET (1..n) /\ iter[s] = g[s]
    OBVIOUS
  <2>3. ASSUME NEW s \in SUBSET (1..(n + 1))
        PROVE  iter[s] = body(s)
    <3>1. CASE n + 1 \in s
      <4>1. Max(s) = n + 1 /\ s # {}
        BY <3>1, MaxOfPrefix
      <4>2. s \ {n + 1} \in SUBSET (1..n)
        OBVIOUS
      <4>3. iter[s \ {n + 1}] = g[s \ {n + 1}]
        BY <2>2, <4>2
      <4>4. iter[s] = ApplyToView(g[s \ {n + 1}], seq[n + 1])
        BY <3>1
      <4> QED
        BY <4>1, <4>3, <4>4
    <3>2. CASE n + 1 \notin s
      <4>1. s \in SUBSET (1..n) /\ iter[s] = g[s]
        BY <2>2, <3>2
      <4>2. g[s] = IF s = {} THEN base ELSE ApplyToView(g[s \ {Max(s)}], seq[Max(s)])
        BY <2>1, <4>1 DEF IsFold
      <4>3. s \ {Max(s)} \in SUBSET (1..(n + 1)) /\ n + 1 \notin s \ {Max(s)}
        BY <3>2
      <4>4. iter[s \ {Max(s)}] = g[s \ {Max(s)}]
        BY <2>2, <4>3
      <4> QED
        BY <4>1, <4>2, <4>4
    <3> QED
      BY <3>1, <3>2
  <2>4. iter = [s \in SUBSET (1..(n + 1)) |-> iter[s]]
    OBVIOUS
  <2> HIDE DEF iter
  <2>5. iter = [s \in SUBSET (1..(n + 1)) |-> body(s)]
    BY <2>3, <2>4
  <2>6. IsFold(iter, base, seq, n + 1)
    BY <2>5 DEF IsFold
  <2> QED
    BY <2>6
<1> HIDE DEF Foldable
<1>3. Nat \subseteq Foldable
  BY <1>1, <1>2, Upwards
<1> QED
  BY <1>3 DEF Foldable

LEMMA FoldKeeps ==
  ASSUME NEW base \in Views, NEW seq \in Seq(Events)
  PROVE  FoldLeft(ApplyToView, base, seq) \in Views
<1> DEFINE n == Len(seq)
           iter == CHOOSE iter : IsFold(iter, base, seq, n)
<1>1. n \in Nat /\ DOMAIN seq = 1..n /\ \A i \in 1..n : seq[i] \in Events
  BY LenProperties, ElementOfSeq
<1>2. IsFold(iter, base, seq, n)
  BY <1>1, FoldExists
<1>3. FoldLeft(ApplyToView, base, seq) = iter[1..n]
  BY <1>1 DEF FoldLeft, MapThenFoldSet, IsFold
<1> HIDE DEF iter, n
<1> DEFINE Kept == {k \in Nat : k <= n => iter[1..k] \in Views}
<1>4. 0 \in Kept
  <2>1. 1..0 = {}
    OBVIOUS
  <2>2. iter[{}] = base
    BY <1>2 DEF IsFold
  <2> QED
    BY <2>1, <2>2
<1>5. ASSUME NEW k \in Nat, k \in Kept
      PROVE  k + 1 \in Kept
  <2> SUFFICES ASSUME k + 1 <= n PROVE iter[1..(k + 1)] \in Views
    OBVIOUS
  <2>1. iter[1..k] \in Views
    BY <1>1, <1>5
  <2>2. 1..(k + 1) \in SUBSET (1..n) /\ k + 1 \in 1..(k + 1)
    BY <1>1
  <2>3. (1..(k + 1)) \ {k + 1} = 1..k
    OBVIOUS
  <2>4. Max(1..(k + 1)) = k + 1
    BY MaxOfPrefix
  <2>5. iter[1..(k + 1)] = ApplyToView(iter[1..k], seq[k + 1])
    BY <1>2, <2>2, <2>3, <2>4 DEF IsFold
  <2>6. seq[k + 1] \in Events
    BY <1>1
  <2> QED
    BY <2>1, <2>5, <2>6, ApplyKeeps
<1> HIDE DEF Kept
<1>6. Nat \subseteq Kept
  BY <1>4, <1>5, Upwards
<1> QED
  BY <1>1, <1>3, <1>6 DEF Kept

-----------------------------------------------------------------------------
(***************************************************************************)
(* A stored conversation is put in order: the i-th event is the one with   *)
(* i - 1 events before it.                                                 *)
(***************************************************************************)
NumbersDiffer(S) == \A e, f \in S : e.seq = f.seq => e = f

Before(S, e) == {f \in S : f.seq < e.seq}

HasRanks(S) == \A i \in 1..Cardinality(S) : \E e \in S : Cardinality(Before(S, e)) = i - 1

LEMMA RanksExist ==
  ASSUME NEW S \in SUBSET Events, IsFiniteSet(S), NumbersDiffer(S)
  PROVE  HasRanks(S)
<1> DEFINE Small(n) == \A T \in SUBSET Events :
                         IsFiniteSet(T) /\ NumbersDiffer(T) /\ Cardinality(T) = n => HasRanks(T)
           Ranked == {n \in Nat : Small(n)}
<1>1. 0 \in Ranked
  BY DEF HasRanks
<1>2. ASSUME NEW n \in Nat, n \in Ranked
      PROVE  n + 1 \in Ranked
  <2> SUFFICES ASSUME NEW T \in SUBSET Events, IsFiniteSet(T), NumbersDiffer(T),
                      Cardinality(T) = n + 1
               PROVE  HasRanks(T)
    OBVIOUS
  <2>1. \A e \in T : e.seq \in Nat
    BY EventNumbers
  <2>2. PICK first \in T : \A e \in T : first.seq <= e.seq
    <3> DEFINE numbers == {e.seq : e \in T}
    <3>1. T # {}
      BY FS_EmptySet
    <3>2. numbers # {} /\ numbers \subseteq Nat
      BY <2>1, <3>1
    <3>3. PICK x \in numbers : \A y \in numbers : x <= y
      <4> HIDE DEF numbers
      <4> QED
        BY <3>2, LeastNumber
    <3> QED
      BY <3>3
  <2> DEFINE U == T \ {first}
  <2>3. U \in SUBSET Events /\ IsFiniteSet(U) /\ Cardinality(U) = n /\ NumbersDiffer(U)
    <3>1. IsFiniteSet(U) /\ Cardinality(U) = Cardinality(T) - 1
      BY FS_RemoveElement
    <3>2. Cardinality(U) = n
      BY <3>1
    <3> QED
      BY <3>1, <3>2 DEF NumbersDiffer
  <2>4. HasRanks(U)
    BY <1>2, <2>3
  <2>5. \A e \in U : first.seq < e.seq
    BY <2>1, <2>2 DEF NumbersDiffer
  <2> HIDE DEF U
  <2>6. T = U \cup {first} /\ first \notin U
    BY DEF U
  <2> SUFFICES ASSUME NEW i \in 1..(n + 1)
               PROVE  \E e \in T : Cardinality(Before(T, e)) = i - 1
    BY DEF HasRanks
  <2>7. CASE i = 1
    <3>1. Before(T, first) = {}
      BY <2>1, <2>2 DEF Before
    <3> QED
      BY <2>7, <3>1, FS_EmptySet
  <2>8. CASE i # 1
    <3>1. i - 1 \in 1..n
      BY <2>8
    <3>2. PICK e \in U : Cardinality(Before(U, e)) = (i - 1) - 1
      BY <2>3, <2>4, <3>1 DEF HasRanks
    <3>3. Before(T, e) = Before(U, e) \cup {first} /\ first \notin Before(U, e)
      BY <2>5, <2>6 DEF Before
    <3>4. IsFiniteSet(Before(U, e))
      BY <2>3, FS_Subset DEF Before
    <3>5. Cardinality(Before(T, e)) = Cardinality(Before(U, e)) + 1
      BY <3>3, <3>4, FS_AddElement
    <3> QED
      BY <2>6, <3>2, <3>5
  <2> QED
    BY <2>7, <2>8
<1>3. Nat \subseteq Ranked
  <2> HIDE DEF Ranked
  <2> QED
    BY <1>1, <1>2, Upwards
<1>4. Cardinality(S) \in Nat
  BY FS_CardinalityType
<1> QED
  BY <1>3, <1>4

LEMMA InOrderIsSequence ==
  ASSUME NEW S \in SUBSET Events, IsFiniteSet(S), NumbersDiffer(S)
  PROVE  InOrder(S) \in Seq(Events)
<1>1. Cardinality(S) \in Nat
  BY FS_CardinalityType
<1>2. ASSUME NEW i \in 1..Cardinality(S)
      PROVE  InOrder(S)[i] \in Events
  <2>1. \E e \in S : Cardinality({f \in S : f.seq < e.seq}) = i - 1
    BY RanksExist DEF HasRanks, Before
  <2>2. (CHOOSE e \in S : Cardinality({f \in S : f.seq < e.seq}) = i - 1) \in S
    BY <2>1
  <2> QED
    BY <2>2 DEF InOrder
<1>3. InOrder(S) \in [1..Cardinality(S) -> Events]
  BY <1>2 DEF InOrder
<1> QED
  BY <1>1, <1>3, SeqDef

-----------------------------------------------------------------------------
(***************************************************************************)
(* What a request brings back, and the view that replays it.               *)
(***************************************************************************)
Payloads ==
  {p \in [conv : Conversations \cup {NoConversation}, archived : BOOLEAN,
          events : SUBSET Events, next : Nat \ {0}] :
     IsFiniteSet(p.events) /\ NumbersDiffer(p.events)}

LEMMA NormalizeKeeps ==
  ASSUME NEW v \in Views
  PROVE  NormalizeDangling(v) \in Views /\ NormalizeDangling(v).status # "streaming"
<1>1. v \in ViewRecords /\ v.items \in ItemLists
  BY DEF Views, ViewRecords, ItemLists
<1>2. CASE v.status # "streaming"
  BY <1>2 DEF NormalizeDangling
<1>3. CASE v.status = "streaming"
  <2> DEFINE items == MarkStreaming(v.items, "error")
  <2>1. items \in ItemLists
    BY <1>1, MarkKeeps DEF ItemStatuses
  <2>2. NormalizeDangling(v) = FailedView(v, items)
    BY <1>3 DEF NormalizeDangling, FailedView
  <2> HIDE DEF items
  <2> QED
    BY <1>1, <2>1, <2>2, FailedViewKeeps DEF Views, ItemLists
<1> QED
  BY <1>2, <1>3

LEMMA InitialViewOK == InitialView \in Views
<1>1. <<>> \in Seq(Items)
  BY EmptySeq
<1> QED
  BY <1>1 DEF InitialView, Views, ViewRecords, TurnStatuses, Distinct, NoTurn

LEMMA ReplayKeeps ==
  ASSUME NEW p \in Payloads
  PROVE  /\ ReplayConversation(p) \in Views
         /\ ReplayConversation(p).status # "streaming"
<1> DEFINE base == [InitialView EXCEPT !.conv = p.conv, !.archived = p.archived,
                                       !.next = p.next]
<1>1. base \in Views
  BY InitialViewOK DEF Views, ViewRecords, Payloads
<1>2. InOrder(p.events) \in Seq(Events)
  BY InOrderIsSequence DEF Payloads
<1> HIDE DEF base
<1>3. FoldLeft(ApplyToView, base, InOrder(p.events)) \in Views
  BY <1>1, <1>2, FoldKeeps
<1> QED
  BY <1>3, NormalizeKeeps DEF ReplayConversation, base

LEMMA LoadedKeeps ==
  ASSUME NEW v \in Views, NEW p \in Payloads
  PROVE  /\ ConversationLoaded(v, p) \in Views
         /\ ConversationLoaded(v, p).status = "streaming" => v.status = "streaming"
<1>1. CASE KeepsItems(v, p)
  BY <1>1 DEF ConversationLoaded, Views, ViewRecords, Payloads
<1>2. CASE ~KeepsItems(v, p)
  BY <1>2, ReplayKeeps DEF ConversationLoaded
<1> QED
  BY <1>1, <1>2

-----------------------------------------------------------------------------
(***************************************************************************)
(* What a step of a turn does to its stream and to the logs.  Once a turn  *)
(* has told its end it is closing, and says nothing that would show it as  *)
(* streaming again.                                                        *)
(***************************************************************************)
Silent(es) == \A i \in DOMAIN es : es[i].type \notin StreamingTypes
Ends(es) == \E i \in DOMAIN es : es[i].type \in TerminalTypes

Speaks(n) ==
  \E es \in Seq(Events) :
    /\ turns'[n].out = turns[n].out \/ turns'[n].out = turns[n].out \o es
    /\ turns[n].pc \in ClosingPCs \/ Ends(es) => turns'[n].pc \in ClosingPCs /\ Silent(es)

Appends == UNCHANGED log \/ \E c, e, f : log' = [log EXCEPT ![c] = @ \cup {e, f}]

Effect(n) == /\ \A m \in Slots : m # n => turns'[m] = turns[m]
             /\ Speaks(n)
             /\ Appends

LEMMA OutOfRecord ==
  ASSUME NEW t \in TurnRecords, NEW id, NEW seq, NEW then, NEW deltas, NEW out
  PROVE  /\ StoredRecord(t, seq, then, deltas, out).out = out
         /\ RefusedRecord(t, seq, then, out).out = out
         /\ EndedRecord(t, id, seq, then, out).out = out
         /\ BrokenRecord(t, id, seq, then, out).out = out
         /\ StoredRecord(t, seq, then, deltas, out).pc = then
         /\ RefusedRecord(t, seq, then, out).pc = then
         /\ EndedRecord(t, id, seq, then, out).pc = then
         /\ BrokenRecord(t, id, seq, then, out).pc = then
<1> DEFINE S == Seq(Events)
<1>1. TurnRecords =
        [pc : PCs, conv : Conversations \cup {NoConversation}, req : Nat, seq : Nat,
         id : Nat, prompt : Nat, flow : {"provider", "query"}, deltas : Nat,
         stopped : BOOLEAN, gone : BOOLEAN, broken : BOOLEAN, out : S]
  BY DEF TurnRecords
<1> HIDE DEF S
<1>2. QED
  BY <1>1 DEF StoredRecord, RefusedRecord, EndedRecord, BrokenRecord

(* A turn says the events es, or nothing if its client has gone.           *)
LEMMA SayEffect ==
  ASSUME TurnsTyped, NEW n \in Slots, NEW es \in Seq(Events), NEW new,
         turns' = [turns EXCEPT ![n] = new], new.out = Say(n, es), Appends,
         turns[n].pc \in ClosingPCs \/ Ends(es) => new.pc \in ClosingPCs /\ Silent(es)
  PROVE  Effect(n)
<1>1. turns'[n] = new /\ \A m \in Slots : m # n => turns'[m] = turns[m]
  BY DEF TurnsTyped
<1>2. new.out = turns[n].out \/ new.out = turns[n].out \o es
  BY DEF Say
<1> QED
  BY <1>1, <1>2 DEF Effect, Speaks

(* A step that says nothing.                                               *)
LEMMA QuietEffect ==
  ASSUME TurnsTyped, NEW n \in Slots, NEW new,
         turns' = [turns EXCEPT ![n] = new], new.out = turns[n].out, Appends,
         turns[n].pc \in ClosingPCs => new.pc \in ClosingPCs
  PROVE  Effect(n)
<1>1. turns'[n] = new /\ \A m \in Slots : m # n => turns'[m] = turns[m]
  BY DEF TurnsTyped
<1>2. <<>> \in Seq(Events) /\ Silent(<<>>) /\ ~Ends(<<>>)
  BY EmptySeq DEF Silent, Ends
<1> QED
  BY <1>1, <1>2 DEF Effect, Speaks

LEMMA StoredEffect ==
  ASSUME ServerInv, NEW n \in Slots, turns[n].pc \in OwnerPCs, NEW type \in EventTypes,
         NEW status \in Statuses, NEW then, Stored(n, type, status, then),
         turns[n].pc \in ClosingPCs \/ type \in TerminalTypes =>
           then \in ClosingPCs /\ type \notin StreamingTypes
  PROVE  Effect(n)
<1> DEFINE t == turns[n]
           e == TurnEvent(n, t.seq, type, status)
           deltas == IF type = "turn.agent_message.delta" THEN t.deltas + 1 ELSE t.deltas
           es == <<e>>
           out == Say(n, es)
           next == t.seq + 1
           new == StoredRecord(t, next, then, deltas, out)
<1>1. t \in TurnRecords /\ TurnsTyped /\ turns \in [Slots -> TurnRecords]
  BY DEF ServerInv, TurnsTyped
<1>2. e \in Events /\ e.type = type
  BY Numbered, TurnEventFacts
<1>3. turns' = [turns EXCEPT ![n] = new]
  BY <1>1 DEF Stored, StoredRecord
<1>4. Appends
  <2>1. log' = [log EXCEPT ![t.conv] = @ \cup {e, e}]
    BY DEF Stored
  <2> QED
    BY <2>1 DEF Appends
<1> HIDE DEF e
<1>5. es \in Seq(Events) /\ (Ends(es) => type \in TerminalTypes)
      /\ (type \notin StreamingTypes => Silent(es))
  BY <1>2 DEF Ends, Silent
<1> HIDE DEF es, deltas, next
<1>6. new.out = Say(n, es) /\ new.pc = then
  <2> HIDE DEF t, out
  <2>1. new.out = out /\ new.pc = then
    BY <1>1, OutOfRecord
  <2> QED
    BY <2>1 DEF out
<1> HIDE DEF new
<1> QED
  BY <1>1, <1>3, <1>4, <1>5, <1>6, SayEffect

LEMMA RefusedEffect ==
  ASSUME ServerInv, NEW n \in Slots, turns[n].pc \in OwnerPCs, NEW then \in ClosingPCs,
         Refused(n, then)
  PROVE  Effect(n)
<1> DEFINE t == turns[n]
           e == TurnEvent(n, t.seq, "turn.error", "")
           es == <<e>>
           out == Say(n, es)
           next == t.seq + 1
           new == RefusedRecord(t, next, then, out)
<1>1. t \in TurnRecords /\ TurnsTyped /\ turns \in [Slots -> TurnRecords]
  BY DEF ServerInv, TurnsTyped
<1>2. e \in Events /\ e.type = "turn.error"
  <2>1. "turn.error" \in EventTypes /\ "" \in Statuses
    BY DEF EventTypes, Statuses
  <2>2. t.conv \in Conversations /\ t.id \in Nat /\ t.prompt \in Nat /\ t.seq \in Nat \ {0}
    BY Numbered
  <2> QED
    BY <2>1, <2>2, TurnEventFacts, ZenonT(60)
<1>3. turns' = [turns EXCEPT ![n] = new]
  BY <1>1 DEF Refused, RefusedRecord
<1>4. Appends
  BY DEF Refused, Appends
<1> HIDE DEF e
<1>5. es \in Seq(Events) /\ Silent(es)
  BY <1>2 DEF Silent, StreamingTypes
<1> HIDE DEF es, next
<1>6. new.out = Say(n, es) /\ new.pc = then
  <2> HIDE DEF t, out
  <2>1. new.out = out /\ new.pc = then
    BY <1>1, OutOfRecord
  <2> QED
    BY <2>1 DEF out
<1> HIDE DEF new
<1> QED
  BY <1>1, <1>3, <1>4, <1>5, <1>6, SayEffect

LEMMA FailTurnEffect ==
  ASSUME ServerInv, NEW n \in Slots, turns[n].conv \in Conversations,
         NEW id \in Nat \ {0}, NEW seq \in Nat \ {0}, NEW then \in ClosingPCs,
         FailTurn(n, id, seq, then)
  PROVE  Effect(n)
<1> DEFINE t == turns[n]
           err == Event(t.conv, seq, "turn.error", id, NoDraft, "")
           done == Event(t.conv, seq + 1, "turn.completed", id, NoDraft, "failed")
           next == seq + 2
           two == <<err, done>>
           one == <<err>>
           said == Say(n, two)
           told == Say(n, one)
           ended == EndedRecord(t, id, next, then, said)
           broken == BrokenRecord(t, id, next, then, told)
<1>1. t \in TurnRecords /\ TurnsTyped /\ turns \in [Slots -> TurnRecords]
  BY DEF ServerInv, TurnsTyped
<1>2. /\ err \in Events /\ err.type = "turn.error"
      /\ done \in Events /\ done.type = "turn.completed"
  BY DEF Event, Events, EventTypes, NoDraft
<1>3. \/ turns' = [turns EXCEPT ![n] = ended]
         /\ log' = [log EXCEPT ![t.conv] = @ \cup {err, done}]
      \/ turns' = [turns EXCEPT ![n] = broken] /\ UNCHANGED log
  BY <1>1 DEF FailTurn, EndedRecord, BrokenRecord
<1>4. Appends
  BY <1>3 DEF Appends
<1> HIDE DEF err, done
<1>5. /\ one \in Seq(Events) /\ Silent(one)
      /\ two \in Seq(Events) /\ Silent(two)
  BY <1>2 DEF Silent, StreamingTypes
<1> HIDE DEF one, two, next
<1>6. /\ ended.out = Say(n, two) /\ ended.pc = then
      /\ broken.out = Say(n, one) /\ broken.pc = then
  <2> HIDE DEF t, said, told
  <2>1. /\ ended.out = said /\ ended.pc = then
        /\ broken.out = told /\ broken.pc = then
    BY <1>1, OutOfRecord
  <2> QED
    BY <2>1 DEF said, told
<1> HIDE DEF ended, broken
<1>7. CASE turns' = [turns EXCEPT ![n] = ended]
  BY <1>1, <1>4, <1>5, <1>6, <1>7, SayEffect
<1>8. CASE turns' = [turns EXCEPT ![n] = broken]
  BY <1>1, <1>4, <1>5, <1>6, <1>8, SayEffect
<1> QED
  BY <1>3, <1>7, <1>8

LEMMA WriteOrStopEffect ==
  ASSUME ServerInv, NEW n \in Slots, turns[n].pc \in OwnerPCs \ ClosingPCs,
         NEW type \in EventTypes \ TerminalTypes, NEW status \in Statuses, NEW then,
         WriteOrStop(n, type, status, then)
  PROVE  Effect(n)
<1>1. "finish" \in ClosingPCs
  BY DEF ClosingPCs
<1>2. CASE Refused(n, "finish")
  BY <1>1, <1>2, RefusedEffect
<1>3. CASE \E pc : Stored(n, type, status, pc)
  BY <1>3, StoredEffect
<1> QED
  BY <1>2, <1>3 DEF WriteOrStop

LEMMA WriteAnywayEffect ==
  ASSUME ServerInv, NEW n \in Slots, turns[n].pc \in OwnerPCs,
         NEW type \in EventTypes \ StreamingTypes, NEW status \in Statuses,
         NEW then \in ClosingPCs, WriteAnyway(n, type, status, then)
  PROVE  Effect(n)
<1>1. CASE Refused(n, then)
  BY <1>1, RefusedEffect
<1>2. CASE Stored(n, type, status, then)
  BY <1>2, StoredEffect
<1> QED
  BY <1>1, <1>2 DEF WriteAnyway

LEMMA GotoEffect ==
  ASSUME ServerInv, NEW n \in Slots, turns[n].pc \notin ClosingPCs, NEW pc, Goto(n, pc)
  PROVE  Effect(n)
<1> DEFINE new == [turns[n] EXCEPT !.pc = pc]
<1>1. turns[n] \in TurnRecords /\ TurnsTyped /\ turns \in [Slots -> TurnRecords]
  BY DEF ServerInv, TurnsTyped
<1>2. turns' = [turns EXCEPT ![n] = new] /\ Appends
  BY <1>1 DEF Goto, Appends
<1>3. new.out = turns[n].out
  BY <1>1 DEF TurnRecords
<1> HIDE DEF new
<1> QED
  BY <1>1, <1>2, <1>3, QuietEffect

LEMMA PrepareEffect ==
  ASSUME ServerInv, NEW n \in Slots, Prepare(n)
  PROVE  Effect(n)
<1> DEFINE t == turns[n]
           last == IF t.req > 1 THEN NextSequence(log[t.conv]) ELSE 1
           seq == IF last > t.req THEN last ELSE t.req
<1>1. t \in TurnRecords /\ TurnsTyped /\ turns \in [Slots -> TurnRecords]
  BY DEF ServerInv, TurnsTyped
<1>2. PICK flow \in Flows :
        turns' = [turns EXCEPT ![n].pc = "start", ![n].seq = seq, ![n].id = seq,
                               ![n].flow = flow]
  BY DEF Prepare
<1>3. t.pc \notin ClosingPCs /\ Appends
  BY DEF Prepare, ClosingPCs, Appends
<1> HIDE DEF seq
<1> DEFINE new == [t EXCEPT !.pc = "start", !.seq = seq, !.id = seq, !.flow = flow]
<1>4. turns' = [turns EXCEPT ![n] = new]
  BY <1>1, <1>2
<1>5. new.out = t.out
  BY <1>1 DEF TurnRecords
<1> HIDE DEF new
<1> QED
  BY <1>1, <1>3, <1>4, <1>5, QuietEffect

LEMMA QueryDoneEffect ==
  ASSUME ServerInv, NEW n \in Slots, QueryDone(n)
  PROVE  Effect(n)
<1> DEFINE t == turns[n]
           e == TurnEvent(n, t.seq, "turn.query_entity.confirmed", "")
           new == [t EXCEPT !.seq = @ + 1, !.pc = "answer"]
<1>1. t \in TurnRecords /\ TurnsTyped /\ turns \in [Slots -> TurnRecords]
  BY DEF ServerInv, TurnsTyped
<1>2. t.pc \notin ClosingPCs
  BY DEF QueryDone, ClosingPCs
<1>3. CASE Goto(n, "answer")
  BY <1>2, <1>3, GotoEffect
<1>4. CASE /\ log' = [log EXCEPT ![t.conv] = @ \cup {e}]
           /\ turns' = [turns EXCEPT ![n].seq = @ + 1, ![n].pc = "answer"]
  <2>1. turns' = [turns EXCEPT ![n] = new]
    BY <1>1, <1>4
  <2>2. Appends
    <3>1. log' = [log EXCEPT ![t.conv] = @ \cup {e, e}]
      BY <1>4
    <3> QED
      BY <3>1 DEF Appends
  <2>3. new.out = t.out
    BY <1>1 DEF TurnRecords
  <2> HIDE DEF new
  <2> QED
    BY <1>1, <1>2, <2>1, <2>2, <2>3, QuietEffect
<1> QED
  BY <1>3, <1>4 DEF QueryDone

LEMMA FinishTurnEffect ==
  ASSUME ServerInv, NEW n \in Slots, FinishTurn(n)
  PROVE  Effect(n)
<1> DEFINE new == [turns[n] EXCEPT !.pc = "over"]
<1>1. turns[n] \in TurnRecords /\ TurnsTyped /\ turns \in [Slots -> TurnRecords]
  BY DEF ServerInv, TurnsTyped
<1>2. turns' = [turns EXCEPT ![n] = new] /\ Appends
  BY <1>1 DEF FinishTurn, Appends
<1>3. new.out = turns[n].out /\ new.pc \in ClosingPCs
  BY <1>1 DEF TurnRecords, ClosingPCs
<1> HIDE DEF new
<1> QED
  BY <1>1, <1>2, <1>3, QuietEffect

LEMMA StepEffect ==
  ASSUME ServerInv, NEW n \in Slots, Step(n)
  PROVE  Effect(n)
<1> USE DEF OwnerPCs, PCs, ClosingPCs, EventTypes, StreamingTypes, TerminalTypes, Statuses
<1>1. CASE Prepare(n)
  BY <1>1, PrepareEffect
<1>2. CASE PrepareFails(n)
  <2>1. /\ turns[n].conv \in Conversations /\ turns[n].req \in Nat \ {0}
        /\ FailTurn(n, turns[n].req, turns[n].req, "over")
    BY <1>2 DEF PrepareFails, ServerInv, TurnsTyped, TurnsOK, NumbersOK, TurnRecords
  <2> QED
    BY <2>1, FailTurnEffect
<1>3. CASE Start(n)
  BY <1>3, WriteOrStopEffect DEF Start
<1>4. CASE Accept(n)
  BY <1>4, WriteOrStopEffect DEF Accept
<1>5. CASE LookAtInterrupt(n)
  BY <1>5, GotoEffect DEF LookAtInterrupt
<1>6. CASE Chunk(n)
  BY <1>6, WriteOrStopEffect DEF Chunk
<1>7. CASE StreamDone(n)
  BY <1>7, GotoEffect DEF StreamDone
<1>8. ASSUME turns[n].pc \in OwnerPCs, FailTurn(n, turns[n].id, turns[n].seq, "finish")
      PROVE  Effect(n)
  BY <1>8, Numbered, FailTurnEffect
<1>9. CASE RecvFails(n)
  BY <1>8, <1>9, GotoEffect DEF RecvFails
<1>10. CASE ReplyFails(n)
  BY <1>8, <1>10 DEF ReplyFails
<1>11. CASE QueryDone(n)
  BY <1>11, QueryDoneEffect
<1>12. CASE Answer(n)
  BY <1>12, WriteOrStopEffect DEF Answer
<1>13. CASE CompleteMessage(n)
  BY <1>13, WriteAnywayEffect DEF CompleteMessage
<1>14. CASE CompleteTurn(n)
  BY <1>14, WriteAnywayEffect DEF CompleteTurn
<1>15. CASE Interrupted(n)
  BY <1>15, WriteAnywayEffect DEF Interrupted
<1>16. CASE CompleteInterrupted(n)
  BY <1>16, WriteAnywayEffect DEF CompleteInterrupted
<1>17. CASE FinishTurn(n)
  BY <1>17, FinishTurnEffect
<1> QED
  BY <1>1, <1>2, <1>3, <1>4, <1>5, <1>6, <1>7, <1>9, <1>10, <1>11, <1>12, <1>13, <1>14,
     <1>15, <1>16, <1>17 DEF Step

-----------------------------------------------------------------------------
(***************************************************************************)
(* The inductive invariant of the panel and the server together.           *)
(***************************************************************************)
LogsFinite == \A c \in Conversations : IsFiniteSet(log[c])

(* A request under way: which conversation it names, what it brings back.  *)
CallOK(call) ==
  /\ DOMAIN call = {"op", "conv", "arg", "stage", "payload"}
  /\ call.op \in {"create", "load", "update", "interrupt"}
  /\ call.stage \in {"sent", "answered", "failed"}
  /\ call.payload \in Payloads
  /\ call.op # "create" \/ call.stage = "answered" => call.conv \in Conversations
  /\ call.op = "update" => call.arg \in ConversationTypes
  /\ call.op = "interrupt" => call.arg \in Nat \ {0}

CallsOK == \A call \in calls : CallOK(call)

ListOK == \A item \in list : item.conv \in Conversations

(* One creation at a time; sends wait for theirs until it is answered and  *)
(* then for the list.                                                      *)
EnsuringOK ==
  /\ ensuring \in [on : BOOLEAN, conv : Conversations \cup {NoConversation}, sends : Nat]
  /\ ensuring.conv # NoConversation => ensuring.on
  /\ "ensure" \in listing => ensuring.conv # NoConversation

OneCreation ==
  /\ \A a, b \in calls : a.op = "create" /\ b.op = "create" => a = b
  /\ \A call \in calls : call.op = "create" /\ call.arg = "ensure" =>
       ensuring.on /\ ensuring.conv = NoConversation

(* After its end a stream says nothing that would show a turn again.       *)
StreamOK(t, r) ==
  /\ \A i, j \in DOMAIN t.out :
       i < j /\ t.out[i].type \in TerminalTypes => t.out[j].type \notin StreamingTypes
  /\ Ends(t.out) \/ r = "terminal" => t.pc \in ClosingPCs
  /\ r = "terminal" => Silent(t.out)

StreamsOK == /\ reading \in [Slots -> {"no", "open", "terminal"}]
             /\ \A n \in Slots : StreamOK(turns[n], reading[n])

OpenStream == view.status = "streaming" => \E n \in Slots : reading[n] = "open"

ClientInv ==
  /\ view \in Views
  /\ CallsOK
  /\ ListOK
  /\ EnsuringOK
  /\ OneCreation

PanelInv ==
  /\ ServerInv
  /\ LogsFinite
  /\ ClientInv
  /\ StreamsOK
  /\ OpenStream

-----------------------------------------------------------------------------
(***************************************************************************)
(* The requests of the panel are steps of the server with any clients.     *)
(***************************************************************************)
LEMMA ViewFields ==
  ASSUME view \in Views
  PROVE  /\ view \in ViewRecords /\ view.items \in ItemLists
         /\ view.conv \in Conversations \cup {NoConversation}
         /\ view.next \in Nat \ {0} /\ view.active \in Nat
         /\ view.composer \in Drafts \cup {NoDraft}
         /\ view.status \in TurnStatuses
BY DEF Views, ViewRecords, ItemLists

LEMMA StreamTurnReceives ==
  ASSUME NEW c \in Conversations, NEW next \in Nat \ {0}, NEW prompt \in Drafts,
         StreamTurn(c, next, prompt)
  PROVE  AnyTurnsNext
BY DEF StreamTurn, AnyTurnsNext, AnyClientStep

LEMMA ServePerforms ==
  ASSUME NEW call, CallOK(call), Serve(call)
  PROVE  [AnyTurnsNext]_turnVars
<1>1. CASE UNCHANGED <<log, turns, interrupts>>
  BY <1>1 DEF turnVars
<1>2. ASSUME NEW c \in Conversations, Perform(call, c)
      PROVE  [AnyTurnsNext]_turnVars
  <2>1. CASE call.op = "create"
    <3>1. CreateConversation(c)
      BY <1>2, <2>1 DEF Perform
    <3> QED
      BY <3>1 DEF AnyTurnsNext, AnyClientStep
  <2>2. CASE call.op = "load"
    <3>1. UNCHANGED turnVars
      BY <1>2, <2>2 DEF Perform
    <3> QED
      BY <3>1
  <2>3. CASE call.op = "update"
    <3>1. UpdateConversation(c, call.arg) /\ call.arg \in ConversationTypes
      BY <1>2, <2>3 DEF Perform, CallOK
    <3> QED
      BY <3>1 DEF AnyTurnsNext, AnyClientStep
  <2>4. CASE call.op = "interrupt"
    <3>1. InterruptTurn(c, call.arg) /\ call.arg \in Nat \ {0}
      BY <1>2, <2>4 DEF Perform, CallOK
    <3> QED
      BY <3>1 DEF AnyTurnsNext, AnyClientStep
  <2> QED
    BY <2>1, <2>2, <2>3, <2>4 DEF CallOK
<1> QED
  BY <1>1, <1>2 DEF Serve

LEMMA PanelAsksServer ==
  ASSUME PanelInv, [Next]_vars
  PROVE  [AnyTurnsNext]_turnVars
<1> USE DEF PanelInv, ClientInv
<1>1. CASE ServerStep
  BY <1>1 DEF AnyTurnsNext
<1>2. CASE Send
  <2>1. /\ view.conv \in Conversations /\ view.next \in Nat \ {0} /\ view.composer \in Drafts
        /\ StreamTurn(view.conv, view.next, view.composer)
    BY <1>2, ViewFields DEF Send, CanSend
  <2> QED
    BY <2>1, StreamTurnReceives
<1>3. CASE SendFirst \/ Type
  BY <1>3 DEF SendFirst, Type, serverVars, turnVars
<1>4. CASE SelectConversation \/ StartNewConversation
  BY <1>4 DEF SelectConversation, StartNewConversation, Request, turnVars
<1>5. CASE RenameConversation \/ ArchiveConversation \/ Interrupt
  BY <1>5 DEF RenameConversation, ArchiveConversation, Interrupt, Request, turnVars
<1>6. CASE Reload
  BY <1>6 DEF Reload, AnyTurnsNext, AnyClientStep
<1>7. CASE ReceiveList
  <2>1. PICK shown \in {AfterList(TRUE), AfterList(FALSE)} : SendsGoOn(shown)
    BY <1>7 DEF ReceiveList
  <2>2. CASE "ensure" \in listing /\ shown.composer # NoDraft
    <3>1. shown.composer = view.composer
      BY ViewFields DEF AfterList, LoadingStarted, LoadingFinished, ViewRecords
    <3>2. view.composer \in Drafts /\ ensuring.conv \in Conversations
      BY <2>2, <3>1, ViewFields DEF EnsuringOK
    <3>3. StreamTurn(ensuring.conv, 2, view.composer)
      BY <2>1, <2>2, <3>1 DEF SendsGoOn
    <3> QED
      BY <3>2, <3>3, StreamTurnReceives
  <2> QED
    BY <2>1, <2>2 DEF SendsGoOn, serverVars, turnVars
<1>8. CASE ListFails
  BY <1>8 DEF ListFails, turnVars
<1>9. ASSUME NEW call \in calls, Serve(call)
      PROVE  [AnyTurnsNext]_turnVars
  BY <1>9, ServePerforms DEF CallsOK
<1>10. CASE \E call \in calls : LoseAnswer(call) \/ ReceiveAnswer(call)
  BY <1>10 DEF LoseAnswer, ReceiveAnswer, serverVars, turnVars
<1>11. ASSUME NEW n \in Slots, ReadEvent(n)
       PROVE  [AnyTurnsNext]_turnVars
  <2>1. Deliver(n)
    BY <1>11 DEF ReadEvent, Deliver
  <2> QED
    BY <2>1 DEF AnyTurnsNext, AnyClientStep
<1>12. CASE \E n \in Slots : EndOfStream(n)
  BY <1>12 DEF EndOfStream, serverVars, turnVars
<1>13. CASE \E n \in Slots : LoseConnection(n)
  BY <1>13 DEF LoseConnection, AnyTurnsNext, AnyClientStep
<1>14. CASE UNCHANGED vars
  BY <1>14 DEF vars, turnVars
<1> QED
  BY <1>1, <1>2, <1>3, <1>4, <1>5, <1>6, <1>7, <1>8, <1>9, <1>10, <1>11, <1>12, <1>13,
     <1>14 DEF Next

-----------------------------------------------------------------------------
(* The logs stay finite.                                                   *)
LEMMA ServerAppends ==
  ASSUME ServerInv, [AnyTurnsNext]_turnVars
  PROVE  Appends
<1>1. CASE UNCHANGED log
  BY <1>1 DEF Appends
<1>2. ASSUME NEW n \in Slots, TurnStep(n)
      PROVE  Appends
  BY <1>2, StepEffect DEF TurnStep, Effect
<1>3. ASSUME NEW c \in Conversations, CreateConversation(c)
      PROVE  Appends
  <2> DEFINE e == Event(c, 1, "conversation.loaded", NoTurn, NoDraft, "active")
  <2>1. log[c] = {} /\ log' = [log EXCEPT ![c] = {e}]
    BY <1>3 DEF CreateConversation, Exists
  <2> HIDE DEF e
  <2>2. log' = [log EXCEPT ![c] = @ \cup {e, e}]
    BY <2>1
  <2> QED
    BY <2>2 DEF Appends
<1>4. ASSUME NEW c \in Conversations, NEW type, UpdateConversation(c, type)
      PROVE  Appends
  <2> DEFINE status == CASE type = "conversation.archived" -> "archived"
                         [] type = "conversation.unarchived" -> "active"
                         [] OTHER -> IF ArchivedIn(log[c]) THEN "archived" ELSE "active"
             e == Event(c, NextSequence(log[c]), type, NoTurn, NoDraft, status)
  <2>1. log' = [log EXCEPT ![c] = @ \cup {e}]
    BY <1>4 DEF UpdateConversation, ServerInv, LogsOK
  <2> HIDE DEF e
  <2>2. log' = [log EXCEPT ![c] = @ \cup {e, e}]
    BY <2>1
  <2> QED
    BY <2>2 DEF Appends
<1> QED
  BY <1>1, <1>2, <1>3, <1>4
     DEF AnyTurnsNext, ServerStep, AnyClientStep, turnVars, Restart, Deliver, Receive,
         InterruptTurn, Disconnect

LEMMA AppendsFinite ==
  ASSUME ServerInv, LogsFinite, Appends
  PROVE  LogsFinite'
<1>1. CASE UNCHANGED log
  BY <1>1 DEF LogsFinite
<1>2. ASSUME NEW c, NEW e, NEW f, log' = [log EXCEPT ![c] = @ \cup {e, f}]
      PROVE  LogsFinite'
  <2> SUFFICES ASSUME NEW d \in Conversations
               PROVE  IsFiniteSet(log'[d])
    BY DEF LogsFinite
  <2>1. IsFiniteSet(log[d])
    BY DEF LogsFinite
  <2>2. log'[d] = log[d] \/ log'[d] = (log[d] \cup {e}) \cup {f}
    BY <1>2 DEF ServerInv, LogsOK
  <2>3. IsFiniteSet((log[d] \cup {e}) \cup {f})
    BY <2>1, FS_AddElement
  <2> QED
    BY <2>1, <2>2, <2>3
<1> QED
  BY <1>1, <1>2 DEF Appends

LEMMA ServerSide ==
  ASSUME PanelInv, [Next]_vars
  PROVE  ServerInv' /\ LogsFinite'
BY PanelAsksServer, ServerInvNext, ServerAppends, AppendsFinite DEF PanelInv

-----------------------------------------------------------------------------
(* What the other reducer actions and the server's answers keep.           *)
LEMMA ViewChanges ==
  ASSUME NEW v \in Views
  PROVE  /\ LoadingStarted(v) \in Views /\ LoadingStarted(v).status = v.status
         /\ LoadingFinished(v) \in Views /\ LoadingFinished(v).status = v.status
         /\ \A d \in Drafts : /\ ComposerChanged(v, d) \in Views
                              /\ ComposerChanged(v, d).status = v.status
         /\ \A failed \in BOOLEAN : /\ ErrorMessageSet(v, failed) \in Views
                                    /\ ErrorMessageSet(v, failed).status = v.status
         /\ StreamFailedLocally(v) \in Views /\ StreamFailedLocally(v).status = "error"
<1>1. v \in ViewRecords /\ Distinct(v.items)
  BY DEF Views
<1>2. LoadingStarted(v) \in Views /\ LoadingStarted(v).status = v.status
  BY <1>1 DEF LoadingStarted, Views, ViewRecords
<1>3. LoadingFinished(v) \in Views /\ LoadingFinished(v).status = v.status
  BY <1>1 DEF LoadingFinished, Views, ViewRecords
<1>4. ASSUME NEW d \in Drafts
      PROVE  ComposerChanged(v, d) \in Views /\ ComposerChanged(v, d).status = v.status
  BY <1>1 DEF ComposerChanged, Views, ViewRecords
<1>5. ASSUME NEW failed \in BOOLEAN
      PROVE  /\ ErrorMessageSet(v, failed) \in Views
             /\ ErrorMessageSet(v, failed).status = v.status
  BY <1>1 DEF ErrorMessageSet, Views, ViewRecords
<1>6. StreamFailedLocally(v) \in Views /\ StreamFailedLocally(v).status = "error"
  BY <1>1 DEF StreamFailedLocally, Views, ViewRecords, TurnStatuses, NoTurn
<1> QED
  BY <1>2, <1>3, <1>4, <1>5, <1>6

LEMMA AnswerIsPayload ==
  ASSUME NEW c \in Conversations, NEW S \in SUBSET Events, IsFiniteSet(S), NumbersDiffer(S),
         S # {} => \E e \in S : \A f \in S : f.seq <= e.seq
  PROVE  Replay(c, S) \in Payloads
<1>1. NextSequence(S) \in Nat \ {0}
  <2>1. CASE S = {}
    BY <2>1 DEF NextSequence, LastSequence
  <2>2. CASE S # {}
    <3>1. PICK e \in S : \A f \in S : f.seq <= e.seq
      BY <2>2
    <3>2. \A f \in S : f.seq \in Nat \ {0}
      BY EventNumbers
    <3>3. LastSequence(S) = e.seq
      BY <3>1, <3>2 DEF LastSequence
    <3> QED
      BY <3>2, <3>3 DEF NextSequence
  <2> QED
    BY <2>1, <2>2
<1>2. ArchivedIn(S) \in BOOLEAN
  BY DEF ArchivedIn
<1> QED
  BY <1>1, <1>2 DEF Replay, Payloads

LEMMA NoPayloadOK == NoPayload \in Payloads
<1>1. NextSequence({}) = 1 /\ ArchivedIn({}) \in BOOLEAN
  BY DEF NextSequence, LastSequence, ArchivedIn
<1>2. IsFiniteSet({}) /\ NumbersDiffer({})
  BY FS_EmptySet DEF NumbersDiffer
<1> QED
  BY <1>1, <1>2 DEF NoPayload, Replay, Payloads

(* A request is well-formed when it is sent and after each of its stages.  *)
LEMMA SentCallOK ==
  ASSUME NEW op \in {"create", "load", "update", "interrupt"}, NEW c, NEW arg,
         op # "create" => c \in Conversations,
         op = "update" => arg \in ConversationTypes,
         op = "interrupt" => arg \in Nat \ {0}
  PROVE  CallOK(Call(op, c, arg)) /\ Call(op, c, arg).op = op /\ Call(op, c, arg).arg = arg
BY NoPayloadOK DEF Call, CallOK

LEMMA LoadCallOK ==
  ASSUME NEW c \in Conversations
  PROVE  \A arg : CallOK(Call("load", c, arg)) /\ Call("load", c, arg).op = "load"
BY SentCallOK

LEMMA AnsweredCallOK ==
  ASSUME NEW call, CallOK(call), NEW c \in Conversations, LogsOK', LogsFinite'
  PROVE  /\ CallOK(Answered(call, c))
         /\ Answered(call, c).op = call.op /\ Answered(call, c).arg = call.arg
<1> DEFINE p == Replay(c, log'[c])
<1>1. p \in Payloads
  BY AnswerIsPayload DEF LogsOK, LogsHaveLast, LogsFinite, NumbersDiffer
<1> DEFINE new == Answered(call, c)
<1>2. /\ DOMAIN new = {"op", "conv", "arg", "stage", "payload"}
      /\ new.op = call.op /\ new.arg = call.arg /\ new.conv = c
      /\ new.stage = "answered" /\ new.payload = p
  <2> HIDE DEF p
  <2>1. new = [call EXCEPT !.stage = "answered", !.conv = c, !.payload = p]
    BY DEF Answered, p
  <2> HIDE DEF new
  <2> QED
    BY <2>1 DEF CallOK
<1> HIDE DEF p, new
<1>3. CallOK(new)
  BY <1>1, <1>2 DEF CallOK
<1> QED
  BY <1>2, <1>3 DEF new

LEMMA FailedCallOK ==
  ASSUME NEW call, CallOK(call)
  PROVE  /\ CallOK(Failed(call))
         /\ Failed(call).op = call.op /\ Failed(call).arg = call.arg
<1> DEFINE new == Failed(call)
<1>1. /\ DOMAIN new = {"op", "conv", "arg", "stage", "payload"}
      /\ new.op = call.op /\ new.arg = call.arg /\ new.conv = call.conv
      /\ new.stage = "failed" /\ new.payload = call.payload
  BY DEF Failed, CallOK
<1> HIDE DEF new
<1>2. CallOK(new)
  BY <1>1 DEF CallOK
<1> QED
  BY <1>1, <1>2 DEF new

-----------------------------------------------------------------------------
(* What happens to the streams.                                            *)
LEMMA StreamsSame ==
  ASSUME StreamsOK, UNCHANGED reading,
         \A n \in Slots : turns'[n].out = turns[n].out /\ turns'[n].pc = turns[n].pc
  PROVE  StreamsOK'
BY DEF StreamsOK, StreamOK, Ends, Silent

LEMMA StreamSpeaks ==
  ASSUME ServerInv, NEW n \in Slots, Speaks(n), NEW r, StreamOK(turns[n], r)
  PROVE  StreamOK(turns'[n], r)
<1> DEFINE out == turns[n].out
           pc == turns[n].pc
<1>1. PICK es \in Seq(Events) :
        /\ turns'[n].out = out \/ turns'[n].out = out \o es
        /\ pc \in ClosingPCs \/ Ends(es) => turns'[n].pc \in ClosingPCs /\ Silent(es)
  BY DEF Speaks
<1>2. out \in Seq(Events)
  BY DEF ServerInv, TurnsTyped, TurnRecords
<1>3. CASE turns'[n].out = out
  BY <1>1, <1>3 DEF StreamOK
<1>4. CASE turns'[n].out = out \o es
  <2> DEFINE new == out \o es
  <2>1. /\ Len(out) \in Nat /\ DOMAIN out = 1..Len(out)
        /\ Len(es) \in Nat /\ DOMAIN es = 1..Len(es)
    BY <1>2, LenProperties
  <2>2. new \in Seq(Events) /\ Len(new) = Len(out) + Len(es)
        /\ \A i \in 1..(Len(out) + Len(es)) :
             new[i] = IF i <= Len(out) THEN out[i] ELSE es[i - Len(out)]
    BY <1>2, ConcatProperties
  <2>3. DOMAIN new = 1..(Len(out) + Len(es))
    BY <2>2, LenProperties
  <2> HIDE DEF new
  <2>4. \A i \in DOMAIN new :
          \/ i \in DOMAIN out /\ new[i] = out[i]
          \/ i \notin DOMAIN out /\ i - Len(out) \in DOMAIN es /\ new[i] = es[i - Len(out)]
    <3> SUFFICES ASSUME NEW i \in 1..(Len(out) + Len(es))
                 PROVE  \/ i \in DOMAIN out /\ new[i] = out[i]
                        \/ /\ i \notin DOMAIN out /\ i - Len(out) \in DOMAIN es
                           /\ new[i] = es[i - Len(out)]
      BY <2>3
    <3>1. CASE i <= Len(out)
      BY <2>1, <2>2, <3>1
    <3>2. CASE ~(i <= Len(out))
      <4>1. i \notin 1..Len(out) /\ i - Len(out) \in 1..Len(es)
        BY <2>1, <3>2
      <4>2. new[i] = es[i - Len(out)]
        BY <2>2, <3>2
      <4> QED
        BY <2>1, <4>1, <4>2
    <3> QED
      BY <3>1, <3>2
  <2>5. Ends(new) => Ends(out) \/ Ends(es)
    BY <2>4 DEF Ends
  <2>6. Ends(out) => turns'[n].pc \in ClosingPCs /\ Silent(es)
    BY <1>1 DEF StreamOK
  <2>7. Silent(out) /\ Silent(es) => Silent(new)
    BY <2>4 DEF Silent
  <2>8. \A i, j \in DOMAIN new :
          i < j /\ new[i].type \in TerminalTypes => new[j].type \notin StreamingTypes
    <3> SUFFICES ASSUME NEW i \in DOMAIN new, NEW j \in DOMAIN new, i < j,
                        new[i].type \in TerminalTypes
                 PROVE  new[j].type \notin StreamingTypes
      OBVIOUS
    <3>1. CASE j \in DOMAIN out
      <4>1. i \in DOMAIN out /\ new[i] = out[i] /\ new[j] = out[j]
        BY <2>1, <2>3, <2>4, <3>1
      <4> QED
        BY <3>1, <4>1 DEF StreamOK
    <3>2. CASE j \notin DOMAIN out
      <4>1. Silent(es)
        <5>1. Ends(out) \/ Ends(es)
          BY <2>4 DEF Ends
        <5> QED
          BY <1>1, <2>6, <5>1
      <4>2. j - Len(out) \in DOMAIN es /\ new[j] = es[j - Len(out)]
        BY <2>4, <3>2
      <4> QED
        BY <4>1, <4>2 DEF Silent
    <3> QED
      BY <3>1, <3>2
  <2>9. turns'[n].out = new
    BY <1>4 DEF new
  <2>10. r = "terminal" => turns'[n].pc \in ClosingPCs /\ Silent(new)
    BY <1>1, <2>7 DEF StreamOK
  <2>11. Ends(new) => turns'[n].pc \in ClosingPCs
    BY <1>1, <2>5, <2>6
  <2> QED
    BY <2>8, <2>9, <2>10, <2>11 DEF StreamOK
<1> QED
  BY <1>1, <1>3, <1>4

LEMMA StreamsSpeak ==
  ASSUME ServerInv, StreamsOK, UNCHANGED reading, NEW n \in Slots, Effect(n)
  PROVE  StreamsOK'
<1>1. StreamOK(turns'[n], reading[n])
  BY StreamSpeaks DEF StreamsOK, Effect
<1>2. \A m \in Slots : m # n => turns'[m] = turns[m]
  BY DEF Effect
<1> QED
  BY <1>1, <1>2 DEF StreamsOK

LEMMA StreamsStop ==
  ASSUME ServerInv, StreamsOK, UNCHANGED reading, Restart
  PROVE  StreamsOK'
<1> SUFFICES ASSUME NEW n \in Slots
             PROVE  StreamOK(turns'[n], reading[n])
  BY DEF StreamsOK
<1>1. turns[n] \in TurnRecords /\ StreamOK(turns[n], reading[n])
  BY DEF ServerInv, TurnsTyped, StreamsOK
<1>2. turns'[n] = turns[n] \/ turns'[n] = [turns[n] EXCEPT !.pc = "over"]
  BY DEF Restart
<1>3. turns'[n].out = turns[n].out /\ (turns'[n].pc = turns[n].pc \/ turns'[n].pc = "over")
  BY <1>1, <1>2 DEF TurnRecords
<1> QED
  BY <1>1, <1>3 DEF StreamOK, ClosingPCs

(* A stream that begins, and streams that are given up.                    *)
LEMMA NothingSaid ==
  ASSUME NEW t, t.out = <<>>, NEW r, r # "terminal"
  PROVE  StreamOK(t, r)
BY DEF StreamOK, Ends

LEMMA StreamsBegin ==
  ASSUME ServerInv, StreamsOK, NEW n \in Slots, NEW c, NEW next, NEW prompt,
         Receive(n, c, next, prompt), reading' = [reading EXCEPT ![n] = "open"]
  PROVE  StreamsOK'
<1> DEFINE new == [Idle EXCEPT !.pc = "prepare", !.conv = c, !.req = next,
                              !.prompt = prompt]
<1>1. turns' = [turns EXCEPT ![n] = new] /\ turns \in [Slots -> TurnRecords]
  BY DEF Receive, ServerInv, TurnsTyped
<1>2. new.out = <<>>
  BY DEF Idle
<1> HIDE DEF new
<1>3. turns'[n] = new /\ \A m \in Slots : m # n => turns'[m] = turns[m]
  BY <1>1
<1>4. StreamOK(turns'[n], "open")
  BY <1>2, <1>3, NothingSaid
<1> QED
  BY <1>3, <1>4 DEF StreamsOK

LEMMA StreamsLeft ==
  ASSUME ServerInv, StreamsOK, NEW left \in SUBSET Slots, Disconnect(left),
         reading' \in [Slots -> {"no", "open", "terminal"}],
         \A n \in Slots : reading'[n] = IF n \in left THEN "no" ELSE reading[n]
  PROVE  StreamsOK'
<1> SUFFICES ASSUME NEW n \in Slots
             PROVE  StreamOK(turns'[n], reading'[n])
  BY DEF StreamsOK
<1>1. CASE n \in left
  <2>1. turns[n] \in TurnRecords
    BY DEF ServerInv, TurnsTyped
  <2>2. turns'[n] = [turns[n] EXCEPT !.gone = TRUE, !.out = <<>>]
    BY <1>1 DEF Disconnect
  <2>3. turns'[n].out = <<>>
    BY <2>1, <2>2 DEF TurnRecords
  <2> QED
    BY <1>1, <2>3, NothingSaid
<1>2. CASE n \notin left
  BY <1>2 DEF Disconnect, StreamsOK
<1> QED
  BY <1>1, <1>2

(* An event is read: what was behind it is now the stream.                 *)
LEMMA StreamsRead ==
  ASSUME ServerInv, StreamsOK, NEW n \in Slots, ReadEvent(n)
  PROVE  StreamsOK'
<1> DEFINE t == turns[n]
           out == t.out
           e == Head(out)
           new == [t EXCEPT !.out = Tail(out)]
<1>1. t \in TurnRecords /\ turns \in [Slots -> TurnRecords] /\ out \in Seq(Events)
  BY DEF ServerInv, TurnsTyped, TurnRecords
<1>2. out # <<>>
  BY DEF ReadEvent
<1>3. turns' = [turns EXCEPT ![n] = new]
  BY <1>1 DEF ReadEvent
<1>4. new.out = Tail(out) /\ new.pc = t.pc
  <2> DEFINE tail == Tail(out)
  <2> SUFFICES [t EXCEPT !.out = tail].out = tail /\ [t EXCEPT !.out = tail].pc = t.pc
    OBVIOUS
  <2> HIDE DEF tail
  <2> QED
    BY <1>1 DEF TurnRecords
<1> HIDE DEF new
<1>5. turns'[n] = new /\ \A m \in Slots : m # n => turns'[m] = turns[m]
  BY <1>1, <1>3
<1>6. /\ reading' \in [Slots -> {"no", "open", "terminal"}]
      /\ reading'[n] = IF e.type \in TerminalTypes THEN "terminal" ELSE reading[n]
      /\ \A m \in Slots : m # n => reading'[m] = reading[m]
  BY DEF ReadEvent, StreamsOK
<1>7. StreamOK(t, reading[n])
  BY DEF StreamsOK
<1> DEFINE rest == Tail(out)
<1>8. /\ Len(out) \in Nat /\ Len(out) # 0 /\ DOMAIN out = 1..Len(out)
      /\ e = out[1] /\ rest \in Seq(Events)
      /\ Len(rest) = Len(out) - 1 /\ \A i \in 1..Len(rest) : rest[i] = out[i + 1]
  BY <1>1, <1>2, LenProperties, HeadTailProperties, EmptySeq
<1>9. DOMAIN rest = 1..(Len(out) - 1)
  BY <1>8, LenProperties
<1> HIDE DEF rest, e
<1>10. \A i \in DOMAIN rest : i + 1 \in DOMAIN out /\ rest[i] = out[i + 1]
  BY <1>8, <1>9
<1>11. 1 \in DOMAIN out
  BY <1>8
<1>12. StreamOK(new, reading'[n])
  <2>1. \A i, j \in DOMAIN rest :
          i < j /\ rest[i].type \in TerminalTypes => rest[j].type \notin StreamingTypes
    <3> SUFFICES ASSUME NEW i \in DOMAIN rest, NEW j \in DOMAIN rest, i < j,
                        rest[i].type \in TerminalTypes
                 PROVE  rest[j].type \notin StreamingTypes
      OBVIOUS
    <3>1. i + 1 \in DOMAIN out /\ j + 1 \in DOMAIN out /\ i + 1 < j + 1
      BY <1>9, <1>10
    <3> QED
      BY <1>7, <1>10, <3>1 DEF StreamOK
  <2>2. Ends(rest) => t.pc \in ClosingPCs
    BY <1>7, <1>10 DEF StreamOK, Ends
  <2>3. CASE e.type \in TerminalTypes
    <3>1. t.pc \in ClosingPCs
      BY <1>7, <1>8, <1>11, <2>3 DEF StreamOK, Ends
    <3>2. Silent(rest)
      <4> SUFFICES ASSUME NEW j \in DOMAIN rest
                   PROVE  rest[j].type \notin StreamingTypes
        BY DEF Silent
      <4>1. j + 1 \in DOMAIN out /\ 1 < j + 1
        BY <1>9, <1>10
      <4> QED
        BY <1>7, <1>8, <1>10, <1>11, <2>3, <4>1 DEF StreamOK
    <3> QED
      BY <1>4, <2>1, <3>1, <3>2 DEF StreamOK, rest
  <2>4. CASE e.type \notin TerminalTypes
    <3>1. reading[n] = "terminal" => t.pc \in ClosingPCs /\ Silent(rest)
      BY <1>7, <1>10 DEF StreamOK, Silent
    <3> QED
      BY <1>4, <1>6, <2>1, <2>2, <2>4, <3>1 DEF StreamOK, rest
  <2> QED
    BY <2>3, <2>4
<1> QED
  BY <1>5, <1>6, <1>12 DEF StreamsOK

(* A stopped turn says what it said.                                       *)
LEMMA StopSaysNothing ==
  ASSUME ServerInv, NEW c, NEW id, InterruptTurn(c, id)
  PROVE  \A n \in Slots : turns'[n].out = turns[n].out /\ turns'[n].pc = turns[n].pc
<1>1. CASE id \in DOMAIN interrupts /\ turns[interrupts[id]].conv = c
  <2> DEFINE k == interrupts[id]
             new == [turns[k] EXCEPT !.stopped = TRUE]
  <2>1. k \in Slots /\ turns[k] \in TurnRecords /\ turns \in [Slots -> TurnRecords]
    BY <1>1 DEF ServerInv, RegistryOK, TurnsTyped
  <2>2. turns' = [turns EXCEPT ![k] = new]
    BY <1>1, <2>1 DEF InterruptTurn
  <2>3. new.out = turns[k].out /\ new.pc = turns[k].pc
    BY <2>1 DEF TurnRecords
  <2> HIDE DEF new
  <2> QED
    BY <2>1, <2>2, <2>3
<1>2. CASE UNCHANGED turns
  BY <1>2
<1> QED
  BY <1>1, <1>2 DEF InterruptTurn, turnVars

-----------------------------------------------------------------------------
(***************************************************************************)
(* The panel's part of the invariant, action by action.                    *)
(***************************************************************************)
PanelSide == ClientInv /\ StreamsOK /\ OpenStream

(* Nothing on the way changes.                                             *)
LEMMA QuietSide ==
  ASSUME ClientInv, UNCHANGED <<list, listing, calls, ensuring>>, view' \in Views
  PROVE  ClientInv'
BY DEF ClientInv, CallsOK, CallOK, ListOK, EnsuringOK, OneCreation

LEMMA StatusKept ==
  ASSUME OpenStream, UNCHANGED reading,
         view'.status = "streaming" => view.status = "streaming"
  PROVE  OpenStream'
BY DEF OpenStream

LEMMA StatusTaken ==
  ASSUME view'.status # "streaming"
  PROVE  OpenStream'
BY DEF OpenStream

LEMMA TurnsKept ==
  ASSUME StreamsOK, UNCHANGED <<turns, reading>>
  PROVE  StreamsOK'
BY StreamsSame

LEMMA ServerStepKeeps ==
  ASSUME PanelInv, ServerStep, UNCHANGED clientVars
  PROVE  PanelSide'
<1>1. ClientInv' /\ OpenStream'
  BY QuietSide DEF PanelInv, clientVars, ClientInv, OpenStream
<1>2. StreamsOK'
  <2>1. CASE Restart
    BY <2>1, StreamsStop DEF PanelInv, clientVars
  <2>2. ASSUME NEW n \in Slots, TurnStep(n)
        PROVE  StreamsOK'
    BY <2>2, StepEffect, StreamsSpeak DEF PanelInv, clientVars, TurnStep
  <2> QED
    BY <2>1, <2>2 DEF ServerStep
<1> QED
  BY <1>1, <1>2 DEF PanelSide

LEMMA SendKeeps ==
  ASSUME PanelInv, Send
  PROVE  PanelSide'
<1>1. view \in Views /\ view.status # "streaming" /\ view' = ErrorMessageSet(view, FALSE)
  BY DEF PanelInv, ClientInv, Send, CanSend
<1>2. view' \in Views /\ view'.status # "streaming"
  BY <1>1, ViewChanges
<1>3. StreamsOK'
  BY StreamsBegin DEF PanelInv, Send, StreamTurn
<1> QED
  BY <1>2, <1>3, QuietSide, StatusTaken DEF PanelSide, PanelInv, Send

LEMMA SendFirstKeeps ==
  ASSUME PanelInv, SendFirst
  PROVE  PanelSide'
<1>1. /\ ClientInv /\ view \in Views /\ view.status # "streaming" /\ EnsuringOK /\ CallsOK
      /\ OneCreation /\ ListOK
      /\ UNCHANGED <<serverVars, list, listing, reading>>
  BY DEF PanelInv, ClientInv, SendFirst, CanSend
<1>2. StreamsOK'
  BY <1>1, TurnsKept DEF PanelInv, serverVars
<1>3. CASE ensuring.on
  <2>1. /\ ensuring' = [ensuring EXCEPT !.sends = @ + 1]
        /\ UNCHANGED <<view, calls>>
    BY <1>3 DEF SendFirst
  <2>2. ensuring'.on = ensuring.on /\ ensuring'.conv = ensuring.conv /\ EnsuringOK'
    BY <1>1, <2>1 DEF EnsuringOK
  <2>3. OneCreation'
    BY <1>1, <2>1, <2>2 DEF OneCreation
  <2>4. CallsOK' /\ ListOK'
    BY <1>1, <2>1 DEF CallsOK, CallOK, ListOK
  <2> QED
    BY <1>1, <1>2, <2>1, <2>2, <2>3, <2>4, StatusTaken DEF PanelSide, ClientInv
<1>4. CASE ~ensuring.on
  <2> DEFINE new == Call("create", NoConversation, "ensure")
  <2>1. /\ \A call \in calls : call.op # "create"
        /\ ensuring' = [NotEnsuring EXCEPT !.on = TRUE, !.sends = 1]
        /\ view' = LoadingStarted(view)
        /\ calls' = calls \cup {new}
    BY <1>4 DEF SendFirst, CanCreate
  <2>2. view' \in Views /\ view'.status # "streaming"
    BY <1>1, <2>1, ViewChanges
  <2>3. CallOK(new) /\ new.op = "create" /\ new.arg = "ensure"
    BY SentCallOK
  <2> HIDE DEF new
  <2>4. CallsOK'
    BY <1>1, <2>1, <2>3 DEF CallsOK, CallOK
  <2>5. ensuring'.on /\ ensuring'.conv = NoConversation
        /\ ensuring' \in [on : BOOLEAN, conv : Conversations \cup {NoConversation}, sends : Nat]
    BY <2>1 DEF NotEnsuring
  <2>6. OneCreation'
    BY <2>1, <2>3, <2>5 DEF OneCreation
  <2>7. EnsuringOK'
    BY <1>1, <1>4, <2>5 DEF EnsuringOK
  <2>8. ListOK'
    BY <1>1 DEF ListOK
  <2> QED
    BY <1>2, <2>2, <2>4, <2>6, <2>7, <2>8, StatusTaken DEF PanelSide, ClientInv
<1> QED
  BY <1>3, <1>4

LEMMA TypeKeeps ==
  ASSUME PanelInv, Type
  PROVE  PanelSide'
<1>1. view \in Views /\ ClientInv
  BY DEF PanelInv, ClientInv
<1>2. view' \in Views /\ view'.status = view.status
  BY <1>1, ViewChanges DEF Type
<1> QED
  BY <1>1, <1>2, QuietSide, StatusKept, TurnsKept DEF Type, PanelSide, PanelInv, serverVars

(* A click that sends a request.                                           *)
LEMMA RequestKeeps ==
  ASSUME PanelInv, NEW call, Request(call), CallOK(call),
         call.op = "create" => CanCreate /\ call.arg # "ensure",
         view' \in Views, view'.status = view.status
  PROVE  PanelSide'
<1>1. /\ calls' = calls \cup {call}
      /\ UNCHANGED <<turns, list, listing, ensuring, reading>>
  BY DEF Request
<1>2. CallsOK'
  BY <1>1 DEF PanelInv, ClientInv, CallsOK, CallOK
<1>3. OneCreation'
  BY <1>1 DEF PanelInv, ClientInv, OneCreation, CanCreate
<1>4. ListOK' /\ EnsuringOK'
  BY <1>1 DEF PanelInv, ClientInv, ListOK, EnsuringOK
<1> QED
  BY <1>1, <1>2, <1>3, <1>4, StatusKept, TurnsKept DEF PanelInv, ClientInv, PanelSide

LEMMA ClickKeeps ==
  ASSUME PanelInv,
         \/ SelectConversation \/ StartNewConversation \/ RenameConversation
         \/ ArchiveConversation \/ Interrupt
  PROVE  PanelSide'
<1>1. view \in Views /\ \A c \in Listed : c \in Conversations
  BY DEF PanelInv, ClientInv, ListOK, Listed
<1>2. CASE SelectConversation
  <2>1. PICK c \in Listed : view' = LoadingStarted(view) /\ Request(Call("load", c, ""))
    BY <1>2 DEF SelectConversation
  <2>2. CallOK(Call("load", c, "")) /\ Call("load", c, "").op = "load"
    BY <1>1, <2>1, LoadCallOK, Zenon
  <2>3. view' \in Views /\ view'.status = view.status
    BY <1>1, <2>1, ViewChanges
  <2> QED
    BY <2>1, <2>2, <2>3, RequestKeeps
<1>3. CASE StartNewConversation
  <2> DEFINE call == Call("create", NoConversation, "new")
  <2>1. /\ CanCreate /\ Request(call)
        /\ view' = ErrorMessageSet(LoadingStarted(view), FALSE)
    BY <1>3 DEF StartNewConversation
  <2>2. CallOK(call) /\ call.op = "create" /\ call.arg = "new"
    BY SentCallOK
  <2>3. view' \in Views /\ view'.status = view.status
    <3>1. LoadingStarted(view) \in Views /\ LoadingStarted(view).status = view.status
      BY <1>1, ViewChanges
    <3> QED
      BY <2>1, <3>1, ViewChanges
  <2> HIDE DEF call
  <2> QED
    BY <2>1, <2>2, <2>3, RequestKeeps
<1>4. ASSUME NEW c \in Listed, NEW type \in ConversationTypes,
             Request(Call("update", c, type)), UNCHANGED view
      PROVE  PanelSide'
  <2>1. CallOK(Call("update", c, type)) /\ Call("update", c, type).op = "update"
    BY <1>1, SentCallOK
  <2> QED
    BY <1>1, <1>4, <2>1, RequestKeeps
<1>5. CASE RenameConversation
  BY <1>4, <1>5 DEF RenameConversation, ConversationTypes
<1>6. CASE ArchiveConversation
  <2>1. PICK item \in list, type \in ConversationTypes :
          Request(Call("update", item.conv, type)) /\ UNCHANGED view
    BY <1>6 DEF ArchiveConversation, ConversationTypes
  <2> QED
    BY <1>4, <2>1 DEF Listed
<1>7. CASE Interrupt
  <2> DEFINE call == Call("interrupt", view.conv, view.active)
  <2>1. view.conv \in Conversations /\ view.active \in Nat \ {0}
    BY <1>1, <1>7, ViewFields DEF Interrupt, NoTurn
  <2>2. CallOK(call) /\ call.op = "interrupt"
    BY <2>1, SentCallOK
  <2>3. Request(call) /\ UNCHANGED view
    BY <1>7 DEF Interrupt
  <2> HIDE DEF call
  <2> QED
    BY <1>1, <2>2, <2>3, RequestKeeps
<1> QED
  BY <1>2, <1>3, <1>5, <1>6, <1>7

LEMMA ReloadKeeps ==
  ASSUME PanelInv, Reload
  PROVE  PanelSide'
<1>1. Mounted /\ Disconnect({n \in Slots : reading[n] # "no"})
  BY DEF Reload
<1>2. view' \in Views /\ view'.status # "streaming"
  BY <1>1, InitialViewOK DEF Mounted, InitialView
<1>3. ClientInv'
  BY <1>1, <1>2 DEF Mounted, NotEnsuring, ClientInv, CallsOK, ListOK, EnsuringOK, OneCreation
<1>4. StreamsOK'
  <2> DEFINE left == {n \in Slots : reading[n] # "no"}
  <2>1. /\ reading' \in [Slots -> {"no", "open", "terminal"}]
        /\ \A n \in Slots : reading'[n] = IF n \in left THEN "no" ELSE reading[n]
    BY <1>1 DEF Mounted
  <2> HIDE DEF left
  <2> QED
    BY <1>1, <2>1, StreamsLeft DEF PanelInv, left
<1> QED
  BY <1>2, <1>3, <1>4, StatusTaken DEF PanelSide

(* The shared list request ends, and with it the sends that wait for it.   *)
LEMMA WaitersLeave ==
  ASSUME ClientInv, listing' = {},
         ensuring' = IF "ensure" \in listing THEN NotEnsuring ELSE ensuring
  PROVE  /\ EnsuringOK'
         /\ \A call \in calls : call.op = "create" /\ call.arg = "ensure" =>
              ensuring'.on /\ ensuring'.conv = NoConversation
<1>1. CASE "ensure" \in listing
  BY <1>1 DEF ClientInv, EnsuringOK, OneCreation, NotEnsuring
<1>2. CASE "ensure" \notin listing
  BY <1>2 DEF ClientInv, EnsuringOK, OneCreation
<1> QED
  BY <1>1, <1>2

LEMMA SendsGoOnKeeps ==
  ASSUME PanelInv, NEW shown \in Views, shown.status = view.status, SendsGoOn(shown)
  PROVE  /\ view' \in Views /\ StreamsOK' /\ OpenStream'
         /\ ensuring' = IF "ensure" \in listing THEN NotEnsuring ELSE ensuring
<1>1. ensuring' = IF "ensure" \in listing THEN NotEnsuring ELSE ensuring
  BY DEF SendsGoOn
<1>2. CASE view' = shown /\ UNCHANGED <<turns, reading>>
  BY <1>1, <1>2, StatusKept, TurnsKept DEF PanelInv
<1>3. ASSUME view' = ErrorMessageSet(shown, FALSE),
             StreamTurn(ensuring.conv, 2, shown.composer)
      PROVE  view' \in Views /\ StreamsOK' /\ OpenStream'
  <2>1. view' \in Views
    BY <1>3, ViewChanges
  <2>2. PICK n \in Slots : /\ Receive(n, ensuring.conv, 2, shown.composer)
                           /\ reading' = [reading EXCEPT ![n] = "open"]
    BY <1>3 DEF StreamTurn
  <2>3. StreamsOK'
    BY <2>2, StreamsBegin DEF PanelInv
  <2>4. reading'[n] = "open"
    BY <2>2 DEF PanelInv, StreamsOK
  <2> QED
    BY <2>1, <2>3, <2>4 DEF OpenStream
<1> QED
  BY <1>1, <1>2, <1>3 DEF SendsGoOn, serverVars

LEMMA ReceiveListKeeps ==
  ASSUME PanelInv, ReceiveList
  PROVE  PanelSide'
<1>1. view \in Views /\ ClientInv /\ list' = Summaries /\ listing' = {}
  BY DEF PanelInv, ClientInv, ReceiveList
<1>2. \A restoring \in BOOLEAN : /\ AfterList(restoring) \in Views
                                 /\ AfterList(restoring).status = view.status
  <2>1. /\ LoadingStarted(view) \in Views
        /\ LoadingStarted(view).status = view.status
    BY <1>1, ViewChanges
  <2>2. /\ LoadingFinished(LoadingStarted(view)) \in Views
        /\ LoadingFinished(LoadingStarted(view)).status = view.status
    BY <2>1, ViewChanges
  <2>3. LoadingFinished(view) \in Views /\ LoadingFinished(view).status = view.status
    BY <1>1, ViewChanges
  <2> QED
    BY <1>1, <2>1, <2>2, <2>3 DEF AfterList
<1>3. PICK restoring \in BOOLEAN : SendsGoOn(AfterList(restoring))
  BY DEF ReceiveList
<1>4. /\ view' \in Views /\ StreamsOK' /\ OpenStream'
      /\ ensuring' = IF "ensure" \in listing THEN NotEnsuring ELSE ensuring
  BY <1>2, <1>3, SendsGoOnKeeps
<1>5. /\ EnsuringOK'
      /\ \A call \in calls : call.op = "create" /\ call.arg = "ensure" =>
           ensuring'.on /\ ensuring'.conv = NoConversation
  BY <1>1, <1>4, WaitersLeave
<1>6. ListOK'
  BY <1>1 DEF Summaries, ListOK
<1>7. CallsOK' /\ OneCreation'
  <2>1. CASE UNCHANGED calls
    BY <1>1, <1>5, <2>1 DEF ClientInv, CallsOK, CallOK, OneCreation
  <2>2. CASE \E c \in Active : calls' = calls \cup {Call("load", c, "")}
    <3>1. PICK c, arg : c \in Active /\ calls' = calls \cup {Call("load", c, arg)}
      BY <2>2, Zenon
    <3> DEFINE new == Call("load", c, arg)
    <3>2. c \in Conversations
      BY <3>1 DEF Active, Summaries
    <3>3. CallOK(new) /\ new.op = "load"
      BY <3>2, LoadCallOK
    <3>4. calls' = calls \cup {new}
      BY <3>1
    <3> HIDE DEF new
    <3>5. CallsOK'
      BY <1>1, <3>3, <3>4 DEF ClientInv, CallsOK, CallOK
    <3>6. OneCreation'
      BY <1>1, <1>5, <3>3, <3>4 DEF ClientInv, OneCreation
    <3> QED
      BY <3>5, <3>6
  <2> QED
    BY <2>1, <2>2, Zenon DEF ReceiveList
<1> QED
  BY <1>4, <1>5, <1>6, <1>7 DEF PanelSide, ClientInv

LEMMA ListFailsKeeps ==
  ASSUME PanelInv, ListFails
  PROVE  PanelSide'
<1>1. /\ view \in Views /\ ClientInv /\ listing' = {} /\ list' = {}
      /\ ensuring' = IF "ensure" \in listing THEN NotEnsuring ELSE ensuring
      /\ UNCHANGED <<turns, calls, reading>>
  BY DEF PanelInv, ClientInv, ListFails
<1>2. view' \in Views /\ (view'.status = "streaming" => view.status = "streaming")
  <2>1. /\ StreamFailedLocally(view) \in Views
        /\ StreamFailedLocally(view).status # "streaming"
        /\ ErrorMessageSet(view, TRUE) \in Views
        /\ ErrorMessageSet(view, TRUE).status = view.status
    BY <1>1, ViewChanges
  <2> QED
    BY <2>1 DEF ListFails
<1>3. /\ EnsuringOK'
      /\ \A call \in calls : call.op = "create" /\ call.arg = "ensure" =>
           ensuring'.on /\ ensuring'.conv = NoConversation
  BY <1>1, WaitersLeave
<1>4. CallsOK' /\ OneCreation' /\ ListOK'
  BY <1>1, <1>3 DEF ClientInv, CallsOK, CallOK, OneCreation, ListOK
<1> QED
  BY <1>1, <1>2, <1>3, <1>4, StatusKept, TurnsKept DEF PanelInv, PanelSide, ClientInv

(* A request that has been served or has failed is still the one it was.   *)
LEMMA CallReplaced ==
  ASSUME CallsOK, OneCreation, UNCHANGED ensuring, NEW call \in calls, NEW new,
         CallOK(new), new.op = call.op, new.arg = call.arg,
         calls' = (calls \ {call}) \cup {new}
  PROVE  CallsOK' /\ OneCreation'
<1>1. CallsOK'
  BY DEF CallsOK, CallOK
<1>2. OneCreation'
  BY DEF OneCreation
<1> QED
  BY <1>1, <1>2

LEMMA PerformSaysNothing ==
  ASSUME PanelInv, NEW call, CallOK(call), NEW c, Perform(call, c)
  PROVE  \A n \in Slots : turns'[n].out = turns[n].out /\ turns'[n].pc = turns[n].pc
<1>1. CASE call.op = "interrupt"
  BY <1>1, StopSaysNothing DEF PanelInv, Perform
<1>2. CASE call.op # "interrupt"
  <2>1. UNCHANGED turns
    BY <1>2 DEF Perform, CallOK, CreateConversation, UpdateConversation, turnVars
  <2> QED
    BY <2>1
<1> QED
  BY <1>1, <1>2

LEMMA ServeKeeps ==
  ASSUME PanelInv, [Next]_vars, NEW call \in calls, Serve(call)
  PROVE  PanelSide'
<1>1. /\ UNCHANGED <<view, list, listing, ensuring, reading>>
      /\ CallOK(call) /\ CallsOK /\ OneCreation
  BY DEF Serve, PanelInv, ClientInv, CallsOK
<1>2. LogsOK' /\ LogsFinite'
  BY ServerSide DEF ServerInv
<1>3. \A n \in Slots : turns'[n].out = turns[n].out /\ turns'[n].pc = turns[n].pc
  BY <1>1, PerformSaysNothing DEF Serve
<1>4. PICK new : /\ calls' = (calls \ {call}) \cup {new}
                 /\ CallOK(new) /\ new.op = call.op /\ new.arg = call.arg
  <2>1. CASE \E c \in Conversations : calls' = (calls \ {call}) \cup {Answered(call, c)}
    BY <1>1, <1>2, <2>1, AnsweredCallOK
  <2>2. CASE calls' = (calls \ {call}) \cup {Failed(call)}
    BY <1>1, <2>2, FailedCallOK
  <2> QED
    BY <2>1, <2>2 DEF Serve
<1>5. CallsOK' /\ OneCreation'
  BY <1>1, <1>4, CallReplaced
<1>6. view' \in Views /\ ListOK' /\ EnsuringOK'
  BY <1>1 DEF PanelInv, ClientInv, ListOK, EnsuringOK
<1> QED
  BY <1>1, <1>3, <1>5, <1>6, StreamsSame, StatusKept DEF PanelInv, PanelSide, ClientInv

LEMMA LoseAnswerKeeps ==
  ASSUME PanelInv, NEW call \in calls, LoseAnswer(call)
  PROVE  PanelSide'
<1>1. /\ UNCHANGED <<turns, view, list, listing, ensuring, reading>>
      /\ calls' = (calls \ {call}) \cup {Failed(call)}
      /\ CallOK(call) /\ CallsOK /\ OneCreation
  BY DEF LoseAnswer, PanelInv, ClientInv, CallsOK
<1>2. /\ CallOK(Failed(call))
      /\ Failed(call).op = call.op /\ Failed(call).arg = call.arg
  BY <1>1, FailedCallOK
<1>3. CallsOK' /\ OneCreation'
  BY <1>1, <1>2, CallReplaced
<1>4. view' \in Views /\ ListOK' /\ EnsuringOK'
  BY <1>1 DEF PanelInv, ClientInv, ListOK, EnsuringOK
<1> QED
  BY <1>1, <1>3, <1>4, TurnsKept, StatusKept DEF PanelInv, PanelSide, ClientInv

(* The answer of a request is received: the request is gone.               *)
LEMMA ReceiveAnswerKeeps ==
  ASSUME PanelInv, NEW call \in calls, ReceiveAnswer(call)
  PROVE  PanelSide'
<1>1. /\ UNCHANGED <<turns, list, reading>> /\ calls' = calls \ {call}
      /\ view \in Views /\ ClientInv /\ CallOK(call) /\ call.stage # "sent"
  BY DEF ReceiveAnswer, serverVars, PanelInv, ClientInv, CallsOK
<1>2. CallsOK' /\ ListOK'
  BY <1>1 DEF ClientInv, CallsOK, CallOK, ListOK
<1>3. /\ ConversationLoaded(view, call.payload) \in Views
      /\ ConversationLoaded(view, call.payload).status = "streaming"
           => view.status = "streaming"
  BY <1>1, LoadedKeeps DEF CallOK
<1>4. ErrorMessageSet(view, TRUE) \in Views /\ ErrorMessageSet(view, TRUE).status = view.status
  BY <1>1, ViewChanges
<1>5. view' \in Views /\ (view'.status = "streaming" => view.status = "streaming")
  <2>1. CASE ReceiveLoad(call)
    <3> DEFINE loaded == ConversationLoaded(view, call.payload)
    <3>1. LoadingFinished(loaded) \in Views /\ LoadingFinished(loaded).status = loaded.status
      BY <1>3, ViewChanges
    <3>2. view' = LoadingFinished(loaded) \/ view' = ErrorMessageSet(view, TRUE)
      BY <2>1 DEF ReceiveLoad
    <3>3. loaded.status = "streaming" => view.status = "streaming"
      BY <1>3
    <3> HIDE DEF loaded
    <3>4. CASE view' = LoadingFinished(loaded)
      BY <3>1, <3>3, <3>4
    <3>5. CASE view' = ErrorMessageSet(view, TRUE)
      BY <1>4, <3>5
    <3> QED
      BY <3>2, <3>4, <3>5
  <2>2. CASE ReceiveUpdate(call)
    BY <1>3, <1>4, <2>2 DEF ReceiveUpdate
  <2>3. CASE ReceiveCreate(call)
    BY <1>3, <1>4, <2>3 DEF ReceiveCreate
  <2>4. CASE ReceiveInterrupt(call)
    BY <1>1, <1>4, <2>4 DEF ReceiveInterrupt
  <2> QED
    BY <2>1, <2>2, <2>3, <2>4 DEF ReceiveAnswer
<1>6. EnsuringOK' /\ OneCreation'
  <2>1. CASE ~ReceiveCreate(call)
    <3>1. UNCHANGED ensuring /\ ("ensure" \in listing' => "ensure" \in listing)
      <4>1. CASE ReceiveLoad(call) \/ ReceiveInterrupt(call)
        BY <4>1 DEF ReceiveLoad, ReceiveInterrupt
      <4>2. CASE ReceiveUpdate(call)
        <5>1. UNCHANGED ensuring /\ (listing' = listing \/ listing' = listing \cup {"update"})
          BY <4>2 DEF ReceiveUpdate, Refreshed
        <5> QED
          BY <5>1
      <4> QED
        BY <2>1, <4>1, <4>2 DEF ReceiveAnswer
    <3> QED
      BY <1>1, <3>1 DEF ClientInv, EnsuringOK, OneCreation
  <2>2. CASE ReceiveCreate(call)
    <3>1. /\ call.op = "create"
          /\ \A other \in calls' : other.op # "create"
      BY <1>1, <2>2 DEF ReceiveCreate, ClientInv, OneCreation
    <3>2. OneCreation'
      BY <3>1 DEF OneCreation
    <3>3. EnsuringOK'
      <4>1. CASE call.arg # "ensure"
        <5>1. UNCHANGED ensuring /\ ("ensure" \in listing' => "ensure" \in listing)
          BY <2>2, <4>1 DEF ReceiveCreate, Refreshed
        <5> QED
          BY <1>1, <5>1 DEF ClientInv, EnsuringOK
      <4>2. CASE call.arg = "ensure" /\ call.stage = "answered"
        <5>1. /\ ensuring' = [ensuring EXCEPT !.conv = call.conv]
              /\ call.conv \in Conversations /\ ensuring.on
          BY <1>1, <2>2, <3>1, <4>2 DEF ReceiveCreate, CallOK, ClientInv, OneCreation
        <5>2. call.conv # NoConversation
          BY <5>1, ConversationAssumption DEF NoConversation
        <5> QED
          BY <1>1, <5>1, <5>2 DEF ClientInv, EnsuringOK
      <4>3. CASE call.arg = "ensure" /\ call.stage # "answered"
        <5>1. /\ ensuring.conv = NoConversation /\ ensuring' = NotEnsuring
              /\ UNCHANGED listing
          BY <1>1, <2>2, <3>1, <4>3 DEF ReceiveCreate, ClientInv, OneCreation
        <5> QED
          BY <1>1, <5>1 DEF ClientInv, EnsuringOK, NotEnsuring
      <4> QED
        BY <4>1, <4>2, <4>3
    <3> QED
      BY <3>2, <3>3
  <2> QED
    BY <2>1, <2>2
<1> QED
  BY <1>1, <1>2, <1>5, <1>6, TurnsKept, StatusKept DEF PanelInv, PanelSide, ClientInv

(* An event is read.  The end of the turn takes the status away; what      *)
(* gives it comes from a stream that has not told its end.                 *)
LEMMA ReadEventKeeps ==
  ASSUME PanelInv, NEW n \in Slots, ReadEvent(n)
  PROVE  PanelSide'
<1> DEFINE out == turns[n].out
           e == Head(out)
<1>1. /\ out \in Seq(Events) /\ out # <<>> /\ view \in Views /\ ClientInv
      /\ reading \in [Slots -> {"no", "open", "terminal"}] /\ reading[n] # "no"
      /\ StreamOK(turns[n], reading[n])
  BY DEF PanelInv, ClientInv, StreamsOK, ReadEvent, ServerInv, TurnsTyped, TurnRecords
<1>2. e \in Events /\ 1 \in DOMAIN out /\ out[1] = e
  BY <1>1
<1>3. /\ view' = ApplyToView(view, e)
      /\ reading' = [reading EXCEPT ![n] = IF e.type \in TerminalTypes THEN "terminal" ELSE @]
      /\ UNCHANGED <<list, listing, calls, ensuring>>
  BY DEF ReadEvent
<1> HIDE DEF e
<1>4. /\ view' \in Views
      /\ e.type \notin StreamingTypes =>
           (view'.status = "streaming" => view.status = "streaming")
      /\ e.type \in TerminalTypes => view'.status # "streaming"
  BY <1>1, <1>2, <1>3, ApplyKeeps
<1>5. OpenStream'
  <2>1. CASE e.type \in TerminalTypes
    BY <1>4, <2>1, StatusTaken
  <2>2. CASE e.type \in StreamingTypes
    <3>1. reading[n] = "open"
      BY <1>1, <1>2, <2>2 DEF StreamOK, Silent
    <3>2. reading'[n] = "open"
      BY <1>1, <1>3, <2>2, <3>1 DEF StreamingTypes, TerminalTypes
    <3> QED
      BY <3>2 DEF OpenStream
  <2>3. CASE e.type \notin TerminalTypes \cup StreamingTypes
    BY <1>1, <1>3, <1>4, <2>3, StatusKept DEF PanelInv
  <2> QED
    BY <2>1, <2>2, <2>3
<1>6. StreamsOK'
  BY StreamsRead DEF PanelInv
<1> QED
  BY <1>1, <1>3, <1>4, <1>5, <1>6, QuietSide DEF PanelSide

LEMMA EndOfStreamKeeps ==
  ASSUME PanelInv, NEW n \in Slots, EndOfStream(n)
  PROVE  PanelSide'
<1>1. /\ UNCHANGED <<turns, list, calls, ensuring>>
      /\ reading' = [reading EXCEPT ![n] = "no"]
      /\ reading \in [Slots -> {"no", "open", "terminal"}]
      /\ view \in Views /\ ClientInv /\ StreamsOK /\ OpenStream
  BY DEF EndOfStream, serverVars, PanelInv, ClientInv, StreamsOK
<1>2. "ensure" \in listing' => "ensure" \in listing
  BY DEF EndOfStream, Refreshed
<1>3. CallsOK' /\ ListOK' /\ EnsuringOK' /\ OneCreation'
  BY <1>1, <1>2 DEF ClientInv, CallsOK, CallOK, ListOK, EnsuringOK, OneCreation
<1>4. StreamsOK'
  <2> SUFFICES ASSUME NEW m \in Slots
               PROVE  StreamOK(turns[m], reading'[m])
    BY <1>1 DEF StreamsOK
  <2>1. StreamOK(turns[m], reading[m])
    BY <1>1 DEF StreamsOK
  <2> QED
    BY <1>1, <2>1 DEF StreamOK
<1>5. view' \in Views /\ OpenStream'
  <2>1. CASE reading[n] = "terminal"
    BY <1>1, <2>1 DEF EndOfStream, OpenStream
  <2>2. CASE reading[n] # "terminal"
    <3>1. view' = StreamFailedLocally(view)
      BY <2>2 DEF EndOfStream
    <3> QED
      BY <1>1, <3>1, ViewChanges, StatusTaken
  <2> QED
    BY <2>1, <2>2
<1> QED
  BY <1>3, <1>4, <1>5 DEF PanelSide, ClientInv

LEMMA LoseConnectionKeeps ==
  ASSUME PanelInv, NEW n \in Slots, LoseConnection(n)
  PROVE  PanelSide'
<1>1. /\ UNCHANGED <<list, listing, calls, ensuring>>
      /\ view' = StreamFailedLocally(view) /\ view \in Views /\ ClientInv
      /\ reading' = [reading EXCEPT ![n] = "no"]
      /\ reading \in [Slots -> {"no", "open", "terminal"}]
      /\ Disconnect({n})
  BY DEF LoseConnection, PanelInv, ClientInv, StreamsOK
<1>2. view' \in Views /\ view'.status # "streaming"
  BY <1>1, ViewChanges
<1>3. StreamsOK'
  <2>1. /\ reading' \in [Slots -> {"no", "open", "terminal"}]
        /\ \A m \in Slots : reading'[m] = IF m \in {n} THEN "no" ELSE reading[m]
    BY <1>1
  <2> QED
    BY <1>1, <2>1, StreamsLeft DEF PanelInv
<1> QED
  BY <1>1, <1>2, <1>3, QuietSide, StatusTaken DEF PanelSide

-----------------------------------------------------------------------------
(* The invariant holds from the first load of the tab on.                  *)
LEMMA PanelInit == Init => PanelInv
<1> SUFFICES ASSUME Init
             PROVE  PanelInv
  OBVIOUS
<1>1. ServerInv
  BY ServerInvInit DEF Init
<1>2. LogsFinite
  BY FS_EmptySet DEF Init, ServerInit, LogsFinite
<1>3. ClientInv /\ OpenStream
  BY InitialViewOK DEF Init, NotEnsuring, ClientInv, CallsOK, ListOK, EnsuringOK, OneCreation,
     OpenStream, InitialView
<1>4. StreamsOK
  <2> SUFFICES ASSUME NEW n \in Slots
               PROVE  StreamOK(turns[n], reading[n])
    BY DEF Init, StreamsOK
  <2>1. turns[n].out = <<>> /\ reading[n] = "no"
    BY DEF Init, ServerInit, Idle
  <2> QED
    BY <2>1, NothingSaid
<1> QED
  BY <1>1, <1>2, <1>3, <1>4 DEF PanelInv

LEMMA PanelNext == PanelInv /\ [Next]_vars => PanelInv'
<1> SUFFICES ASSUME PanelInv, [Next]_vars
             PROVE  PanelInv'
  OBVIOUS
<1>1. ServerInv' /\ LogsFinite'
  BY ServerSide
<1>2. PanelSide'
  <2>1. CASE UNCHANGED vars
    BY <2>1, QuietSide, StatusKept, TurnsKept DEF vars, PanelInv, PanelSide, ClientInv
  <2>2. CASE ServerStep /\ UNCHANGED clientVars
    BY <2>2, ServerStepKeeps
  <2>3. CASE Send
    BY <2>3, SendKeeps
  <2>4. CASE SendFirst
    BY <2>4, SendFirstKeeps
  <2>5. CASE Type
    BY <2>5, TypeKeeps
  <2>6. CASE \/ SelectConversation \/ StartNewConversation \/ RenameConversation
             \/ ArchiveConversation \/ Interrupt
    BY <2>6, ClickKeeps
  <2>7. CASE Reload
    BY <2>7, ReloadKeeps
  <2>8. CASE ReceiveList
    BY <2>8, ReceiveListKeeps
  <2>9. CASE ListFails
    BY <2>9, ListFailsKeeps
  <2>10. CASE \E call \in calls : Serve(call) \/ LoseAnswer(call) \/ ReceiveAnswer(call)
    BY <2>10, ServeKeeps, LoseAnswerKeeps, ReceiveAnswerKeeps
  <2>11. CASE \E n \in Slots : ReadEvent(n) \/ EndOfStream(n) \/ LoseConnection(n)
    BY <2>11, ReadEventKeeps, EndOfStreamKeeps, LoseConnectionKeeps
  <2> QED
    BY <2>1, <2>2, <2>3, <2>4, <2>5, <2>6, <2>7, <2>8, <2>9, <2>10, <2>11 DEF Next
<1> QED
  BY <1>1, <1>2 DEF PanelInv, PanelSide

LEMMA PanelAlwaysInv == Spec => []PanelInv
BY PanelInit, PanelNext, PTL DEF Spec

LEMMA PanelInvImplies == PanelInv => TypeOK /\ StreamingIsRead
<1> SUFFICES ASSUME PanelInv
             PROVE  TypeOK /\ StreamingIsRead
  OBVIOUS
<1>1. TypeOK
  BY DEF PanelInv, ClientInv, CallsOK, CallOK, EnsuringOK, TypeOK, Views, ViewRecords,
         TurnStatuses, Distinct
<1>2. StreamingIsRead
  BY DEF PanelInv, OpenStream, StreamingIsRead
<1> QED
  BY <1>1, <1>2

(***************************************************************************)
(* With any number of conversations, drafts, streams and requests under    *)
(* way, the panel shows each item of a conversation once, under a status   *)
(* it can label: appendOrReplaceItem and mergeAgentDelta find the item     *)
(* again, in whatever order streams, replays and lists arrive.             *)
(***************************************************************************)
THEOREM PanelAlwaysTyped == Spec => []TypeOK
BY PanelAlwaysInv, PanelInvImplies, PTL

(* A panel that shows a turn as streaming reads a stream that has not told *)
(* its end: no replay, reload, lost connection or failed list leaves the   *)
(* composer of CubeBoxPanel locked on a turn nobody streams.               *)
THEOREM StreamingIsAlwaysRead == Spec => []StreamingIsRead
BY PanelAlwaysInv, PanelInvImplies, PTL

(* The provider and the panel ask the server for nothing that its theorems *)
(* do not cover: with clients that may ask for any positive sequence       *)
(* number and turn id, whatever they do is a behaviour of TurnsSpec.       *)
THEOREM PanelUsesServer ==
  ASSUME Requests = Nat \ {0}
  PROVE  Spec => TurnsSpec
<1>1. AnyTurnsNext => TurnsNext
  BY DEF AnyTurnsNext, AnyClientStep, TurnsNext, ClientStep
<1>2. PanelInv /\ [Next]_vars => [TurnsNext]_turnVars
  BY <1>1, PanelAsksServer
<1>3. Init => ServerInit
  BY DEF Init
<1> QED
  BY <1>2, <1>3, PanelAlwaysInv, PTL DEF Spec, TurnsSpec

-----------------------------------------------------------------------------
(***************************************************************************)
(* What the list of items shows under an id, and how an event changes it.  *)
(***************************************************************************)
At(items, id) == {items[i] : i \in {j \in DOMAIN items : items[j].id = id}}

Marked(item, status) == IF item.status = "streaming" THEN [item EXCEPT !.status = status] ELSE item
Extended(item) == [item EXCEPT !.text = @ + 1, !.status = "streaming"]
Completed(item) == [item EXCEPT !.status = "completed"]

LEMMA AtAppended ==
  ASSUME NEW items \in ItemLists, NEW item \in Items, NEW id
  PROVE  At(Append(items, item), id) = IF id = item.id THEN At(items, id) \cup {item}
                                       ELSE At(items, id)
<1>1. items \in Seq(Items) /\ Len(items) \in Nat /\ DOMAIN items = 1..Len(items)
  BY LenProperties DEF ItemLists
<1> DEFINE new == Append(items, item)
           last == Len(items) + 1
<1>2. /\ DOMAIN new = 1..last
      /\ \A i \in 1..Len(items) : new[i] = items[i]
      /\ new[last] = item
  BY <1>1, AppendProperties
<1> HIDE DEF new
<1>3. \A i \in DOMAIN new : i \in DOMAIN items \/ i = last
  BY <1>1, <1>2
<1>4. \A i \in DOMAIN items : i \in DOMAIN new /\ new[i] = items[i]
  BY <1>1, <1>2
<1>5. last \in DOMAIN new
  BY <1>1, <1>2
<1> QED
  BY <1>2, <1>3, <1>4, <1>5 DEF At, new

LEMMA AtReplaced ==
  ASSUME NEW items \in ItemLists, NEW item \in Items, NEW id
  PROVE  At(AppendOrReplaceItem(items, item), id) =
           IF id = item.id THEN {item} ELSE At(items, id)
<1>1. CASE \E i \in DOMAIN items : items[i].id = item.id
  <2> DEFINE new == [i \in DOMAIN items |-> IF items[i].id = item.id THEN item ELSE items[i]]
  <2>1. AppendOrReplaceItem(items, item) = new
    BY <1>1 DEF AppendOrReplaceItem
  <2> QED
    BY <1>1, <2>1 DEF At
<1>2. CASE ~\E i \in DOMAIN items : items[i].id = item.id
  <2>1. AppendOrReplaceItem(items, item) = Append(items, item)
    BY <1>2 DEF AppendOrReplaceItem
  <2>2. At(items, item.id) = {}
    BY <1>2 DEF At
  <2> QED
    BY <2>1, <2>2, AtAppended
<1> QED
  BY <1>1, <1>2

LEMMA AtMerged ==
  ASSUME NEW items \in ItemLists, NEW turn \in Nat, NEW id
  PROVE  At(MergeAgentDelta(items, turn), id) =
           IF id # <<"agent_message", turn>> THEN At(items, id)
           ELSE IF At(items, id) = {} THEN {Item("agent_message", turn, 1, "streaming")}
           ELSE {Extended(item) : item \in At(items, id)}
<1> DEFINE own == <<"agent_message", turn>>
<1>1. CASE \E i \in DOMAIN items : items[i].id = own
  <2> DEFINE F(item) == IF item.id = own THEN Extended(item) ELSE item
             new == [i \in DOMAIN items |-> F(items[i])]
  <2>1. MergeAgentDelta(items, turn) = new
    BY <1>1 DEF MergeAgentDelta, Extended
  <2>2. \A i \in DOMAIN items : new[i] = F(items[i]) /\ F(items[i]).id = items[i].id
    BY ItemsOfList, DeltaKeepsItem DEF Extended
  <2>3. \A item \in At(items, id) : item.id = id
    BY DEF At
  <2>4. At(items, own) # {}
    BY <1>1 DEF At
  <2>5. At(new, id) = {F(item) : item \in At(items, id)}
    BY <2>2 DEF At
  <2> HIDE DEF own, new
  <2> QED
    BY <2>1, <2>3, <2>4, <2>5 DEF own
<1>2. CASE ~\E i \in DOMAIN items : items[i].id = own
  <2> DEFINE item == Item("agent_message", turn, 1, "streaming")
  <2>1. MergeAgentDelta(items, turn) = Append(items, item)
    BY <1>2 DEF MergeAgentDelta
  <2>2. At(items, own) = {}
    BY <1>2 DEF At
  <2>3. item \in Items /\ item.id = own
    BY DEF Item, Items, Kinds, ItemStatuses
  <2> HIDE DEF item, own
  <2> QED
    BY <2>1, <2>2, <2>3, AtAppended DEF item, own
<1> QED
  BY <1>1, <1>2

LEMMA AtFinalized ==
  ASSUME NEW items \in ItemLists, NEW turn \in Nat, NEW id
  PROVE  At(FinalizeItem(items, turn), id) =
           IF id # <<"agent_message", turn>> THEN At(items, id)
           ELSE {Completed(item) : item \in At(items, id)}
<1> DEFINE own == <<"agent_message", turn>>
           F(item) == IF item.id = own THEN Completed(item) ELSE item
           new == FinalizeItem(items, turn)
<1>1. DOMAIN new = DOMAIN items /\ \A i \in DOMAIN items : new[i] = F(items[i])
  BY DEF FinalizeItem, Completed
<1>2. \A i \in DOMAIN items : F(items[i]).id = items[i].id
  BY ItemsOfList DEF Completed, Items
<1>3. \A item \in At(items, id) : item.id = id
  BY DEF At
<1> HIDE DEF new
<1>4. At(new, id) = {F(item) : item \in At(items, id)}
  BY <1>1, <1>2 DEF At
<1> HIDE DEF own
<1> QED
  BY <1>3, <1>4 DEF new, own

LEMMA AtMarked ==
  ASSUME NEW items \in ItemLists, NEW status \in ItemStatuses, NEW id
  PROVE  At(MarkStreaming(items, status), id) = {Marked(item, status) : item \in At(items, id)}
<1> DEFINE new == MarkStreaming(items, status)
<1>1. DOMAIN new = DOMAIN items /\ \A i \in DOMAIN items : new[i] = Marked(items[i], status)
  BY DEF MarkStreaming, Marked
<1>2. \A i \in DOMAIN items : Marked(items[i], status).id = items[i].id
  BY ItemsOfList DEF Marked, Items
<1> HIDE DEF new
<1>3. At(new, id) = {Marked(item, status) : item \in At(items, id)}
  BY <1>1, <1>2 DEF At
<1> QED
  BY <1>3 DEF new

LEMMA ApplyItems ==
  ASSUME NEW v \in Views, NEW e \in Events
  PROVE  ApplyToView(v, e).items =
           CASE e.type = "turn.user_message.accepted" ->
                  AppendOrReplaceItem(v.items, Item("user_message", e.turn, e.text, "completed"))
             [] e.type = "turn.agent_message.delta" -> MergeAgentDelta(v.items, e.turn)
             [] e.type = "turn.agent_message.completed" -> FinalizeItem(v.items, e.turn)
             [] e.type = "turn.error" ->
                  AppendOrReplaceItem(v.items, Item("error_item", e.seq, 0, "error"))
             [] e.type = "turn.interrupted" -> MarkStreaming(v.items, "interrupted")
             [] OTHER -> v.items
<1> DEFINE next == IF e.seq >= v.next THEN e.seq + 1 ELSE v.next
           seen == [v EXCEPT !.next = next]
<1>1. v \in ViewRecords /\ e.type \in EventTypes
  BY DEF Views, Events
<1>2. seen.items = v.items /\ DOMAIN seen = DOMAIN v
  BY <1>1 DEF ViewRecords
<1>3. [v EXCEPT !.next = IF e.seq >= @ THEN e.seq + 1 ELSE @] = seen
  BY <1>1 DEF ViewRecords
<1>4. "items" \in DOMAIN seen
  BY <1>1, <1>2 DEF ViewRecords
<1> HIDE DEF seen
<1> QED
  BY <1>1, <1>2, <1>3, <1>4 DEF ApplyToView, ConversationTypes, EventTypes

-----------------------------------------------------------------------------
(***************************************************************************)
(* What the items show of a turn of which the events told have been        *)
(* applied: its message, and as many deltas as were told.                  *)
(***************************************************************************)
HasTold(told, type) == \E e \in told : e.type = type
DeltasOf(told) == {e \in told : e.type = "turn.agent_message.delta"}

UserTold(items, id, told, prompt) ==
  At(items, <<"user_message", id>>) =
    IF HasTold(told, "turn.user_message.accepted")
    THEN {Item("user_message", id, prompt, "completed")} ELSE {}

(* A reply that has not been finished may have been marked by another turn.*)
AgentStatus(status, told) ==
  /\ HasTold(told, "turn.agent_message.completed") => status = "completed"
  /\ ~HasTold(told, "turn.agent_message.completed") =>
       /\ HasTold(told, "turn.interrupted") => status = "interrupted"
       /\ status \in {"streaming", "interrupted"}

AgentTold(items, id, told) ==
  IF HasTold(told, "turn.agent_message.delta")
  THEN \E status : /\ AgentStatus(status, told)
                   /\ At(items, <<"agent_message", id>>) =
                        {Item("agent_message", id, Cardinality(DeltasOf(told)), status)}
  ELSE At(items, <<"agent_message", id>>) = {}

Tells(items, id, told, prompt) ==
  UserTold(items, id, told, prompt) /\ AgentTold(items, id, told)

(* Only these events count.                                                *)
LEMMA TellsSame ==
  ASSUME NEW items, NEW id, NEW prompt, NEW told, NEW other,
         {e \in told : e.type \in TellTypes} = {e \in other : e.type \in TellTypes},
         Tells(items, id, told, prompt)
  PROVE  Tells(items, id, other, prompt)
<1>1. \A type \in TellTypes : HasTold(told, type) <=> HasTold(other, type)
  BY DEF HasTold
<1>2. DeltasOf(told) = DeltasOf(other)
  BY DEF DeltasOf, TellTypes
<1>3. UserTold(items, id, other, prompt)
  BY <1>1 DEF Tells, UserTold, TellTypes
<1>4. \A status : AgentStatus(status, told) => AgentStatus(status, other)
  BY <1>1 DEF AgentStatus, TellTypes, FinishTypes
<1>5. AgentTold(items, id, other)
  BY <1>1, <1>2, <1>4 DEF Tells, AgentTold, TellTypes
<1> QED
  BY <1>3, <1>5 DEF Tells

(* A list that shows nothing of a turn tells as much as it has been told.  *)
LEMMA TellsNothing ==
  ASSUME NEW items, NEW id, NEW prompt, NEW told, \A e \in told : e.type \notin TellTypes,
         At(items, <<"user_message", id>>) = {}, At(items, <<"agent_message", id>>) = {}
  PROVE  Tells(items, id, told, prompt)
BY DEF Tells, UserTold, AgentTold, HasTold, TellTypes

AfterInterrupt(status) == IF status = "streaming" THEN "interrupted" ELSE status

LEMMA AgentItem ==
  ASSUME NEW id, NEW text \in Nat, NEW status
  PROVE  LET item == Item("agent_message", id, text, status)
         IN /\ Extended(item) = Item("agent_message", id, text + 1, "streaming")
            /\ Completed(item) = Item("agent_message", id, text, "completed")
            /\ Marked(item, "interrupted") =
                 Item("agent_message", id, text, AfterInterrupt(status))
<1> DEFINE item == Item("agent_message", id, text, status)
<1>1. Completed(item) = Item("agent_message", id, text, "completed")
  BY DEF Item, Completed
<1>2. item.status = status /\ item.text = text
  BY DEF Item
<1>3. ASSUME NEW next
      PROVE  [item EXCEPT !.text = next, !.status = "streaming"]
               = Item("agent_message", id, next, "streaming")
  <2>1. [item EXCEPT !.text = next] = Item("agent_message", id, next, status)
    BY DEF Item
  <2>2. [Item("agent_message", id, next, status) EXCEPT !.status = "streaming"]
          = Item("agent_message", id, next, "streaming")
    BY DEF Item
  <2> QED
    BY <2>1, <2>2
<1>4. Extended(item) = [item EXCEPT !.text = item.text + 1, !.status = "streaming"]
  BY DEF Extended
<1>5. [item EXCEPT !.status = "interrupted"] = Item("agent_message", id, text, "interrupted")
  BY DEF Item
<1> HIDE DEF item
<1>6. Marked(item, "interrupted") = Item("agent_message", id, text, AfterInterrupt(status))
  <2>1. CASE status = "streaming"
    BY <1>2, <1>5, <2>1 DEF Marked, AfterInterrupt
  <2>2. CASE status # "streaming"
    BY <1>2, <2>2 DEF Marked, AfterInterrupt, item
  <2> QED
    BY <2>1, <2>2
<1>7. Extended(item) = Item("agent_message", id, text + 1, "streaming")
  BY <1>2, <1>3, <1>4
<1> QED
  BY <1>1, <1>6, <1>7 DEF item

LEMMA MarkedUser ==
  ASSUME NEW id, NEW text
  PROVE  LET item == Item("user_message", id, text, "completed")
         IN Marked(item, "interrupted") = item
BY DEF Item, Marked

(* Another event than one that changes the turn's items.                   *)
LEMMA OtherEventTells ==
  ASSUME NEW v \in Views, NEW e \in Events, NEW id \in Nat, NEW prompt,
         NEW told, IsFiniteSet(DeltasOf(told)), Tells(v.items, id, told, prompt),
         e.turn # id \/ e.type \notin TellTypes \ {"turn.interrupted"}
  PROVE  Tells(ApplyToView(v, e).items, id, told, prompt)
<1> DEFINE new == ApplyToView(v, e).items
           user == <<"user_message", id>>
           agent == <<"agent_message", id>>
<1>1. /\ v.items \in ItemLists /\ e.turn \in Nat /\ e.seq \in Nat /\ e.text \in Nat
      /\ e.type \in EventTypes
  BY DEF Views, ViewRecords, ItemLists, Events
<1>2. Cardinality(DeltasOf(told)) \in Nat
  BY FS_CardinalityType
<1>3. CASE e.type # "turn.interrupted"
  <2>1. At(new, user) = At(v.items, user) /\ At(new, agent) = At(v.items, agent)
    <3>1. CASE e.type = "turn.user_message.accepted"
      <4> DEFINE item == Item("user_message", e.turn, e.text, "completed")
      <4>1. item \in Items /\ item.id = <<"user_message", e.turn>>
        BY <1>1 DEF Item, Items, Kinds, ItemStatuses
      <4>2. new = AppendOrReplaceItem(v.items, item)
        BY <3>1, ApplyItems
      <4>3. item.id # user /\ item.id # agent
        BY <3>1, <4>1 DEF TellTypes
      <4> HIDE DEF item
      <4> QED
        BY <1>1, <4>1, <4>2, <4>3, AtReplaced
    <3>2. CASE e.type = "turn.agent_message.delta"
      <4>1. new = MergeAgentDelta(v.items, e.turn)
        BY <3>2, ApplyItems
      <4>2. user # <<"agent_message", e.turn>> /\ agent # <<"agent_message", e.turn>>
        BY <3>2 DEF TellTypes
      <4> QED
        BY <1>1, <4>1, <4>2, AtMerged
    <3>3. CASE e.type = "turn.agent_message.completed"
      <4>1. new = FinalizeItem(v.items, e.turn)
        BY <3>3, ApplyItems
      <4>2. user # <<"agent_message", e.turn>> /\ agent # <<"agent_message", e.turn>>
        BY <3>3 DEF TellTypes, FinishTypes
      <4> QED
        BY <1>1, <4>1, <4>2, AtFinalized
    <3>4. CASE e.type = "turn.error"
      <4> DEFINE item == Item("error_item", e.seq, 0, "error")
      <4>1. item \in Items /\ item.id = <<"error_item", e.seq>>
        BY <1>1 DEF Item, Items, Kinds, ItemStatuses
      <4>2. new = AppendOrReplaceItem(v.items, item)
        BY <3>4, ApplyItems
      <4>3. item.id # user /\ item.id # agent
        BY <4>1
      <4> HIDE DEF item
      <4> QED
        BY <1>1, <4>1, <4>2, <4>3, AtReplaced
    <3>5. CASE e.type \notin {"turn.user_message.accepted", "turn.agent_message.delta",
                              "turn.agent_message.completed", "turn.error"}
      <4>1. new = v.items
        BY <1>3, <3>5, ApplyItems
      <4> QED
        BY <4>1
    <3> QED
      BY <3>1, <3>2, <3>3, <3>4, <3>5
  <2> HIDE DEF new
  <2> QED
    BY <2>1 DEF Tells, UserTold, AgentTold, new
<1>4. CASE e.type = "turn.interrupted"
  <2>1. new = MarkStreaming(v.items, "interrupted") /\ "interrupted" \in ItemStatuses
    BY <1>4, ApplyItems DEF ItemStatuses
  <2> HIDE DEF new
  <2>2. \A k : At(new, k) = {Marked(item, "interrupted") : item \in At(v.items, k)}
    BY <1>1, <2>1, AtMarked
  <2>3. UserTold(new, id, told, prompt)
    BY <2>2, MarkedUser DEF Tells, UserTold
  <2>4. AgentTold(new, id, told)
    <3>1. CASE ~HasTold(told, "turn.agent_message.delta")
      BY <2>2, <3>1 DEF Tells, AgentTold
    <3>2. CASE HasTold(told, "turn.agent_message.delta")
      <4> DEFINE text == Cardinality(DeltasOf(told))
      <4>1. PICK status : /\ AgentStatus(status, told)
                          /\ At(v.items, agent) = {Item("agent_message", id, text, status)}
        BY <3>2 DEF Tells, AgentTold
      <4> DEFINE now == AfterInterrupt(status)
      <4>2. Marked(Item("agent_message", id, text, status), "interrupted")
              = Item("agent_message", id, text, now)
        BY <1>2, AgentItem
      <4>3. At(new, agent) = {Item("agent_message", id, text, now)}
        BY <2>2, <4>1, <4>2
      <4>4. AgentStatus(now, told)
        BY <4>1 DEF AgentStatus, AfterInterrupt
      <4> QED
        BY <3>2, <4>3, <4>4 DEF AgentTold
    <3> QED
      BY <3>1, <3>2
  <2> QED
    BY <2>3, <2>4 DEF Tells, new
<1> QED
  BY <1>3, <1>4

(* The next event of the turn.  No delta follows the end of the reply.     *)
LEMMA OwnEventTells ==
  ASSUME NEW v \in Views, NEW e \in Events, NEW id \in Nat, NEW prompt,
         NEW told, IsFiniteSet(DeltasOf(told)), Tells(v.items, id, told, prompt),
         e.turn = id, e \notin told,
         e.type = "turn.user_message.accepted" => e.text = prompt,
         e.type = "turn.agent_message.delta" => \A f \in told : f.type \notin FinishTypes
  PROVE  Tells(ApplyToView(v, e).items, id, told \cup {e}, prompt)
<1> DEFINE new == ApplyToView(v, e).items
           user == <<"user_message", id>>
           agent == <<"agent_message", id>>
           now == told \cup {e}
           text == Cardinality(DeltasOf(told))
<1>1. /\ v.items \in ItemLists /\ e.turn \in Nat /\ e.seq \in Nat /\ e.text \in Nat
      /\ e.type \in EventTypes
  BY DEF Views, ViewRecords, ItemLists, Events
<1>2. text \in Nat
  BY FS_CardinalityType
<1>3. \A type : HasTold(now, type) <=> HasTold(told, type) \/ e.type = type
  BY DEF HasTold
<1>4. e.type # "turn.agent_message.delta" => DeltasOf(now) = DeltasOf(told)
  BY DEF DeltasOf
<1>5. CASE e.type = "turn.user_message.accepted"
  <2> DEFINE item == Item("user_message", id, prompt, "completed")
  <2>1. new = AppendOrReplaceItem(v.items, item)
    BY <1>5, ApplyItems
  <2>2. item \in Items /\ item.id = user
    BY <1>1, <1>5 DEF Item, Items, Kinds, ItemStatuses
  <2> HIDE DEF item, new
  <2>3. At(new, user) = {item} /\ At(new, agent) = At(v.items, agent)
    BY <1>1, <2>1, <2>2, AtReplaced
  <2> HIDE DEF now
  <2>4. UserTold(new, id, now, prompt)
    BY <1>3, <1>5, <2>3 DEF UserTold, item
  <2>5. AgentTold(new, id, now)
    BY <1>3, <1>4, <1>5, <2>3 DEF Tells, AgentTold, AgentStatus
  <2> QED
    BY <2>4, <2>5 DEF Tells, new, now
<1>6. CASE e.type = "turn.agent_message.delta"
  <2>1. new = MergeAgentDelta(v.items, id)
    BY <1>6, ApplyItems
  <2> HIDE DEF new
  <2>2. At(new, user) = At(v.items, user)
    BY <1>1, <2>1, AtMerged
  <2>3. At(new, agent) = {Item("agent_message", id, text + 1, "streaming")}
    <3>1. At(new, agent) = IF At(v.items, agent) = {}
                           THEN {Item("agent_message", id, 1, "streaming")}
                           ELSE {Extended(item) : item \in At(v.items, agent)}
      BY <1>1, <2>1, AtMerged
    <3>2. CASE HasTold(told, "turn.agent_message.delta")
      <4>1. PICK status : At(v.items, agent) = {Item("agent_message", id, text, status)}
        BY <3>2 DEF Tells, AgentTold
      <4> QED
        BY <1>2, <3>1, <4>1, AgentItem
    <3>3. CASE ~HasTold(told, "turn.agent_message.delta")
      <4>1. At(v.items, agent) = {}
        BY <3>3 DEF Tells, AgentTold
      <4>2. DeltasOf(told) = {}
        BY <3>3 DEF DeltasOf, HasTold
      <4>3. text = 0
        BY <4>2, FS_EmptySet
      <4> QED
        BY <3>1, <4>1, <4>3
    <3> QED
      BY <3>2, <3>3
  <2>4. Cardinality(DeltasOf(now)) = text + 1
    <3>1. DeltasOf(now) = DeltasOf(told) \cup {e} /\ e \notin DeltasOf(told)
      BY <1>6 DEF DeltasOf
    <3> QED
      BY <3>1, FS_AddElement
  <2>5. AgentStatus("streaming", now)
    BY <1>3, <1>6 DEF AgentStatus, HasTold, FinishTypes
  <2> HIDE DEF now, text
  <2>6. UserTold(new, id, now, prompt)
    BY <1>3, <1>6, <2>2 DEF Tells, UserTold
  <2>7. AgentTold(new, id, now)
    BY <1>3, <1>6, <2>3, <2>4, <2>5 DEF AgentTold
  <2> QED
    BY <2>6, <2>7 DEF Tells, new, now
<1>7. CASE e.type = "turn.agent_message.completed"
  <2>1. new = FinalizeItem(v.items, id)
    BY <1>7, ApplyItems
  <2> HIDE DEF new
  <2>2. At(new, user) = At(v.items, user)
        /\ At(new, agent) = {Completed(item) : item \in At(v.items, agent)}
    BY <1>1, <2>1, AtFinalized
  <2>3. AgentTold(new, id, now)
    <3>1. AgentStatus("completed", now)
      BY <1>3, <1>7 DEF AgentStatus
    <3>2. CASE HasTold(told, "turn.agent_message.delta")
      <4>1. PICK status : At(v.items, agent) = {Item("agent_message", id, text, status)}
        BY <3>2 DEF Tells, AgentTold
      <4>2. At(new, agent) = {Item("agent_message", id, text, "completed")}
        BY <1>2, <2>2, <4>1, AgentItem
      <4> HIDE DEF now
      <4> QED
        BY <1>3, <1>4, <1>7, <3>1, <3>2, <4>2 DEF AgentTold
    <3>3. CASE ~HasTold(told, "turn.agent_message.delta")
      <4> HIDE DEF now
      <4> QED
        BY <1>3, <1>7, <2>2, <3>3 DEF Tells, AgentTold
    <3> QED
      BY <3>2, <3>3
  <2> HIDE DEF now
  <2>4. UserTold(new, id, now, prompt)
    BY <1>3, <1>7, <2>2 DEF Tells, UserTold
  <2> QED
    BY <2>3, <2>4 DEF Tells, new, now
<1>8. CASE e.type = "turn.interrupted"
  <2>1. new = MarkStreaming(v.items, "interrupted") /\ "interrupted" \in ItemStatuses
    BY <1>8, ApplyItems DEF ItemStatuses
  <2> HIDE DEF new
  <2>2. \A k : At(new, k) = {Marked(item, "interrupted") : item \in At(v.items, k)}
    BY <1>1, <2>1, AtMarked
  <2>3. AgentTold(new, id, now)
    <3>1. CASE HasTold(told, "turn.agent_message.delta")
      <4>1. PICK status : /\ AgentStatus(status, told)
                          /\ At(v.items, agent) = {Item("agent_message", id, text, status)}
        BY <3>1 DEF Tells, AgentTold
      <4> DEFINE after == AfterInterrupt(status)
      <4>2. Marked(Item("agent_message", id, text, status), "interrupted")
              = Item("agent_message", id, text, after)
        <5> HIDE DEF text
        <5> QED
          BY <1>2, AgentItem
      <4>3. At(new, agent) = {Item("agent_message", id, text, after)}
        BY <2>2, <4>1, <4>2
      <4>4. AgentStatus(after, now)
        BY <1>3, <1>8, <4>1 DEF AgentStatus, AfterInterrupt
      <4> HIDE DEF now, after
      <4> QED
        BY <1>3, <1>4, <1>8, <3>1, <4>3, <4>4 DEF AgentTold
    <3>2. CASE ~HasTold(told, "turn.agent_message.delta")
      <4> HIDE DEF now
      <4> QED
        BY <1>3, <1>8, <2>2, <3>2 DEF Tells, AgentTold
    <3> QED
      BY <3>1, <3>2
  <2> HIDE DEF now
  <2>4. UserTold(new, id, now, prompt)
    BY <1>3, <1>8, <2>2, MarkedUser DEF Tells, UserTold
  <2> QED
    BY <2>3, <2>4 DEF Tells, new, now
<1>9. CASE e.type \notin TellTypes
  <2>1. Tells(new, id, told, prompt)
    BY <1>9, OtherEventTells
  <2>2. {f \in told : f.type \in TellTypes} = {f \in now : f.type \in TellTypes}
    BY <1>9
  <2> HIDE DEF new, now
  <2> QED
    BY <2>1, <2>2, TellsSame DEF new, now
<1> QED
  BY <1>5, <1>6, <1>7, <1>8, <1>9 DEF TellTypes, FinishTypes

-----------------------------------------------------------------------------
(* The views of a replay, after each event.                                *)
LEMMA FoldSteps ==
  ASSUME NEW base \in Views, NEW seq \in Seq(Events)
  PROVE  \E shown :
           /\ shown[0] = base
           /\ \A k \in 0..Len(seq) : shown[k] \in Views
           /\ \A k \in Nat : k + 1 <= Len(seq) =>
                shown[k + 1] = ApplyToView(shown[k], seq[k + 1])
           /\ FoldLeft(ApplyToView, base, seq) = shown[Len(seq)]
<1> DEFINE n == Len(seq)
           iter == CHOOSE iter : IsFold(iter, base, seq, n)
<1>1. n \in Nat /\ DOMAIN seq = 1..n /\ \A i \in 1..n : seq[i] \in Events
  BY LenProperties, ElementOfSeq
<1>2. IsFold(iter, base, seq, n)
  BY <1>1, FoldExists
<1>3. FoldLeft(ApplyToView, base, seq) = iter[1..n]
  BY <1>1 DEF FoldLeft, MapThenFoldSet, IsFold
<1> HIDE DEF iter
<1>4. iter[1..0] = base
  <2>1. 1..0 = {}
    OBVIOUS
  <2>2. iter[{}] = base
    BY <1>2 DEF IsFold
  <2> QED
    BY <2>1, <2>2
<1> HIDE DEF n
<1>5. ASSUME NEW k \in Nat, k + 1 <= n
      PROVE  iter[1..(k + 1)] = ApplyToView(iter[1..k], seq[k + 1])
  <2>1. 1..(k + 1) \in SUBSET (1..n) /\ k + 1 \in 1..(k + 1)
    BY <1>1, <1>5
  <2>2. (1..(k + 1)) \ {k + 1} = 1..k
    OBVIOUS
  <2>3. Max(1..(k + 1)) = k + 1
    BY MaxOfPrefix
  <2> QED
    BY <1>2, <2>1, <2>2, <2>3 DEF IsFold
<1> DEFINE Kept == {k \in Nat : k <= n => iter[1..k] \in Views}
<1>6. 0 \in Kept
  BY <1>4
<1>7. ASSUME NEW k \in Nat, k \in Kept
      PROVE  k + 1 \in Kept
  <2> SUFFICES ASSUME k + 1 <= n PROVE iter[1..(k + 1)] \in Views
    OBVIOUS
  <2>1. iter[1..k] \in Views /\ seq[k + 1] \in Events
    BY <1>1, <1>7
  <2> QED
    BY <1>5, <2>1, ApplyKeeps
<1> HIDE DEF Kept
<1>8. Nat \subseteq Kept
  BY <1>6, <1>7, Upwards
<1> DEFINE shown == [k \in 0..n |-> iter[1..k]]
<1>9. \A k \in 0..n : shown[k] = iter[1..k] /\ shown[k] \in Views
  BY <1>1, <1>8 DEF Kept
<1>10. n \in 0..n /\ 0 \in 0..n /\ \A k \in Nat : k + 1 <= n => k \in 0..n /\ k + 1 \in 0..n
  BY <1>1
<1> HIDE DEF shown
<1>11. shown[0] = base /\ FoldLeft(ApplyToView, base, seq) = shown[n]
  BY <1>3, <1>4, <1>9, <1>10
<1>12. \A k \in Nat : k + 1 <= n => shown[k + 1] = ApplyToView(shown[k], seq[k + 1])
  BY <1>5, <1>9, <1>10
<1> QED
  BY <1>9, <1>11, <1>12 DEF n

(* An earlier event has fewer events before it.                            *)
LEMMA RanksRise ==
  ASSUME NEW S \in SUBSET Events, IsFiniteSet(S), NEW e \in S, NEW f \in S, e.seq < f.seq
  PROVE  /\ Cardinality(Before(S, e)) \in Nat /\ Cardinality(Before(S, f)) \in Nat
         /\ Cardinality(Before(S, e)) < Cardinality(Before(S, f))
<1>1. IsFiniteSet(Before(S, e)) /\ IsFiniteSet(Before(S, f))
  BY FS_Subset DEF Before
<1>2. \A g \in S : g.seq \in Nat
  BY EventNumbers
<1> DEFINE T == Before(S, e) \cup {e}
<1>3. T \subseteq Before(S, f) /\ e \notin Before(S, e)
  BY <1>2 DEF Before
<1>4. IsFiniteSet(T) /\ Cardinality(T) = Cardinality(Before(S, e)) + 1
  BY <1>1, <1>3, FS_AddElement
<1> HIDE DEF T
<1>5. Cardinality(T) <= Cardinality(Before(S, f))
  BY <1>1, <1>3, FS_Subset
<1>6. Cardinality(Before(S, e)) \in Nat /\ Cardinality(Before(S, f)) \in Nat
  BY <1>1, FS_CardinalityType
<1> QED
  BY <1>4, <1>5, <1>6

(* The sequence holds each event once, by rising numbers.                  *)
LEMMA InOrderRises ==
  ASSUME NEW S \in SUBSET Events, IsFiniteSet(S), NumbersDiffer(S)
  PROVE  LET seq == InOrder(S)
         IN /\ seq \in Seq(Events)
            /\ \A i \in 1..Len(seq) : seq[i] \in S
            /\ \A i, j \in 1..Len(seq) : i < j => seq[i].seq < seq[j].seq
            /\ \A e \in S : \E i \in 1..Len(seq) : seq[i] = e
<1> DEFINE seq == InOrder(S)
           n == Cardinality(S)
           Rank(e) == Cardinality(Before(S, e))
<1>1. n \in Nat /\ seq \in Seq(Events)
  BY FS_CardinalityType, InOrderIsSequence
<1>2. DOMAIN seq = 1..n
  BY DEF InOrder
<1>3. Len(seq) = n
  <2> DEFINE len == Len(seq)
  <2>1. len \in Nat /\ DOMAIN seq = 1..len
    BY <1>1, LenProperties
  <2> HIDE DEF seq, n, len
  <2>2. \A i \in Nat : i \in 1..n <=> i \in 1..len
    BY <1>2, <2>1
  <2>3. len = 0 \/ len \in 1..n
    BY <2>1, <2>2
  <2>4. n = 0 \/ n \in 1..len
    BY <1>1, <2>2
  <2>5. len = n
    BY <1>1, <2>1, <2>3, <2>4
  <2> QED
    BY <2>5 DEF len
<1>4. \A i \in 1..n : seq[i] \in S /\ Rank(seq[i]) = i - 1
  <2> TAKE i \in 1..n
  <2>1. \E e \in S : Cardinality({f \in S : f.seq < e.seq}) = i - 1
    BY RanksExist DEF HasRanks, Before
  <2>2. seq[i] = CHOOSE e \in S : Cardinality({f \in S : f.seq < e.seq}) = i - 1
    BY DEF InOrder
  <2> QED
    BY <2>1, <2>2 DEF Before
<1> HIDE DEF seq
<1>5. \A e \in S : e.seq \in Nat
  BY EventNumbers
<1>6. ASSUME NEW i \in 1..n, NEW j \in 1..n, i < j
      PROVE  seq[i].seq < seq[j].seq
  <2> SUFFICES ASSUME ~(seq[i].seq < seq[j].seq) PROVE FALSE
    OBVIOUS
  <2>1. seq[i] \in S /\ seq[j] \in S /\ Rank(seq[i]) < Rank(seq[j])
    BY <1>1, <1>4, <1>6
  <2>2. seq[j].seq < seq[i].seq \/ seq[i].seq = seq[j].seq
    BY <1>5, <2>1
  <2>3. CASE seq[i].seq = seq[j].seq
    <3>1. seq[i] = seq[j]
      BY <2>1, <2>3 DEF NumbersDiffer
    <3>2. i - 1 = j - 1
      BY <1>4, <3>1
    <3> QED
      BY <1>1, <1>6, <3>2
  <2>4. CASE seq[j].seq < seq[i].seq
    <3>1. Rank(seq[j]) < Rank(seq[i]) /\ Rank(seq[i]) \in Nat /\ Rank(seq[j]) \in Nat
      BY <2>1, <2>4, RanksRise
    <3> QED
      BY <2>1, <3>1
  <2> QED
    BY <2>2, <2>3, <2>4
<1>7. ASSUME NEW e \in S
      PROVE  \E i \in 1..n : seq[i] = e
  <2>1. Rank(e) \in Nat /\ Rank(e) < n
    <3>1. Before(S, e) \subseteq S \ {e}
      BY <1>5 DEF Before
    <3>2. IsFiniteSet(S \ {e}) /\ Cardinality(S \ {e}) = n - 1
      BY FS_RemoveElement
    <3>3. IsFiniteSet(Before(S, e)) /\ Rank(e) <= n - 1
      BY <3>1, <3>2, FS_Subset
    <3>4. Rank(e) \in Nat
      BY <3>3, FS_CardinalityType
    <3> QED
      BY <1>1, <3>3, <3>4
  <2> DEFINE i == Rank(e) + 1
  <2>2. i \in 1..n
    BY <1>1, <2>1
  <2>3. seq[i] \in S /\ Rank(seq[i]) = Rank(e)
    BY <1>4, <2>1, <2>2
  <2> HIDE DEF i
  <2>4. seq[i] = e
    <3>1. CASE seq[i].seq < e.seq
      BY <2>1, <2>3, <3>1, RanksRise
    <3>2. CASE e.seq < seq[i].seq
      BY <2>1, <2>3, <3>2, RanksRise
    <3>3. CASE seq[i].seq = e.seq
      BY <2>3, <3>3 DEF NumbersDiffer
    <3> QED
      BY <1>5, <2>3, <3>1, <3>2, <3>3
  <2> QED
    BY <2>2, <2>4
<1> QED
  BY <1>1, <1>3, <1>4, <1>6, <1>7 DEF seq

(* A replay of the whole log tells a turn all of its events.               *)
LEMMA ReplayTells ==
  ASSUME NEW S \in SUBSET Events, IsFiniteSet(S), NumbersDiffer(S),
         NEW base \in Views, base.items = <<>>, NEW id \in Nat, NEW prompt,
         \A e \in S : e.turn = id /\ e.type = "turn.user_message.accepted" => e.text = prompt,
         \A e, f \in S : /\ e.turn = id /\ f.turn = id
                         /\ e.type = "turn.agent_message.delta" /\ f.type \in FinishTypes
                         => e.seq < f.seq
  PROVE  Tells(FoldLeft(ApplyToView, base, InOrder(S)).items, id,
               {e \in S : e.turn = id}, prompt)
<1> DEFINE seq == InOrder(S)
           n == Len(seq)
           own == {e \in S : e.turn = id}
           Told(k) == {e \in own : \E i \in 1..k : seq[i] = e}
<1>1. /\ seq \in Seq(Events)
      /\ \A i \in 1..n : seq[i] \in S
      /\ \A i, j \in 1..n : i < j => seq[i].seq < seq[j].seq
      /\ \A e \in S : \E i \in 1..n : seq[i] = e
  BY InOrderRises
<1> HIDE DEF seq
<1>2. n \in Nat
  BY <1>1, LenProperties
<1>3. PICK shown :
        /\ shown[0] = base
        /\ \A k \in 0..n : shown[k] \in Views
        /\ \A k \in Nat : k + 1 <= n => shown[k + 1] = ApplyToView(shown[k], seq[k + 1])
        /\ FoldLeft(ApplyToView, base, seq) = shown[n]
  BY <1>1, FoldSteps
<1>4. \A e \in S : e.seq \in Nat
  BY EventNumbers
<1>5. \A k \in Nat : IsFiniteSet(DeltasOf(Told(k)))
  BY FS_Subset DEF DeltasOf
<1> HIDE DEF n
<1> DEFINE Kept == {k \in Nat : k <= n => Tells(shown[k].items, id, Told(k), prompt)}
<1>6. 0 \in Kept
  <2>1. Told(0) = {}
    OBVIOUS
  <2>2. At(shown[0].items, <<"user_message", id>>) = {}
        /\ At(shown[0].items, <<"agent_message", id>>) = {}
    BY <1>3 DEF At
  <2>3. Tells(shown[0].items, id, Told(0), prompt)
    BY <2>1, <2>2, TellsNothing
  <2> QED
    BY <2>3
<1>7. ASSUME NEW k \in Nat, k \in Kept
      PROVE  k + 1 \in Kept
  <2> SUFFICES ASSUME k + 1 <= n
               PROVE  Tells(shown[k + 1].items, id, Told(k + 1), prompt)
    OBVIOUS
  <2> DEFINE e == seq[k + 1]
  <2>1. /\ k \in 0..n /\ k + 1 \in 1..n /\ \A i \in 1..k : i \in 1..n /\ i < k + 1
    BY <1>2
  <2>2. /\ Tells(shown[k].items, id, Told(k), prompt) /\ shown[k] \in Views
        /\ e \in S /\ e \in Events
        /\ shown[k + 1] = ApplyToView(shown[k], e)
    BY <1>1, <1>2, <1>3, <1>7, <2>1
  <2>3. \A f \in Told(k) : f.seq < e.seq /\ f \in S /\ f.turn = id
    BY <1>1, <2>1
  <2>4. Told(k + 1) = Told(k) \cup (IF e.turn = id THEN {e} ELSE {})
    <3>1. 1..(k + 1) = (1..k) \cup {k + 1}
      OBVIOUS
    <3> QED
      BY <2>2, <3>1
  <2> HIDE DEF e
  <2>5. IsFiniteSet(DeltasOf(Told(k)))
    BY <1>5
  <2> HIDE DEF Told
  <2>6. CASE e.turn # id
    BY <2>2, <2>4, <2>5, <2>6, OtherEventTells
  <2>7. CASE e.turn = id
    <3>1. e \notin Told(k)
      BY <1>4, <2>2, <2>3
    <3>2. e.type = "turn.agent_message.delta" => \A f \in Told(k) : f.type \notin FinishTypes
      <4> SUFFICES ASSUME e.type = "turn.agent_message.delta",
                          NEW f \in Told(k), f.type \in FinishTypes
                   PROVE  FALSE
        OBVIOUS
      <4>1. e.seq < f.seq /\ f.seq < e.seq
        BY <2>2, <2>3, <2>7
      <4> QED
        BY <1>4, <2>2, <2>3, <4>1
    <3>3. Tells(ApplyToView(shown[k], e).items, id, Told(k) \cup {e}, prompt)
      BY <2>2, <2>5, <2>7, <3>1, <3>2, OwnEventTells
    <3> QED
      BY <2>2, <2>4, <2>7, <3>3
  <2> QED
    BY <2>6, <2>7
<1> HIDE DEF Kept
<1>8. n \in Kept
  BY <1>2, <1>6, <1>7, Upwards
<1>9. Told(n) = own
  BY <1>1 DEF n
<1> HIDE DEF Told, own
<1> QED
  <2>1. Tells(FoldLeft(ApplyToView, base, seq).items, id, own, prompt)
    BY <1>2, <1>3, <1>8, <1>9 DEF Kept
  <2> QED
    BY <2>1 DEF seq, own

-----------------------------------------------------------------------------
(***************************************************************************)
(* Which turns the items mention: no others than the events applied.       *)
(***************************************************************************)
Mentions(items, turn) == \/ At(items, <<"user_message", turn>>) # {}
                         \/ At(items, <<"agent_message", turn>>) # {}

LEMMA ApplyMentions ==
  ASSUME NEW v \in Views, NEW e \in Events, NEW turn \in Nat,
         Mentions(ApplyToView(v, e).items, turn)
  PROVE  Mentions(v.items, turn) \/ (e.turn = turn /\ e.type # "turn.error")
<1> SUFFICES ASSUME e.turn # turn \/ e.type = "turn.error", ~Mentions(v.items, turn)
             PROVE  FALSE
  OBVIOUS
<1>1. Tells(v.items, turn, {}, 0)
  BY TellsNothing DEF Mentions
<1>2. IsFiniteSet(DeltasOf({}))
  BY FS_EmptySet DEF DeltasOf
<1>3. e.turn # turn \/ e.type \notin TellTypes \ {"turn.interrupted"}
  BY DEF TellTypes, FinishTypes
<1>4. Tells(ApplyToView(v, e).items, turn, {}, 0)
  BY <1>1, <1>2, <1>3, OtherEventTells
<1> QED
  BY <1>4 DEF Tells, UserTold, AgentTold, HasTold, Mentions

LEMMA ApplyConv ==
  ASSUME NEW v \in Views, NEW e \in Events
  PROVE  ApplyToView(v, e).conv = v.conv \/ ApplyToView(v, e).conv = e.conv
<1> DEFINE next == IF e.seq >= v.next THEN e.seq + 1 ELSE v.next
           seen == [v EXCEPT !.next = next]
<1>1. v \in ViewRecords /\ e.type \in EventTypes
  BY DEF Views, Events
<1>2. seen.conv = v.conv /\ DOMAIN seen = DOMAIN v
  BY <1>1 DEF ViewRecords
<1>3. [v EXCEPT !.next = IF e.seq >= @ THEN e.seq + 1 ELSE @] = seen
  BY <1>1 DEF ViewRecords
<1>4. "conv" \in DOMAIN seen
  BY <1>1, <1>2 DEF ViewRecords
<1> HIDE DEF seen
<1> QED
  BY <1>1, <1>2, <1>3, <1>4 DEF ApplyToView, ConversationTypes, EventTypes

LEMMA ReplayMentions ==
  ASSUME NEW p \in Payloads, \A e \in p.events : e.conv = p.conv
  PROVE  /\ ReplayConversation(p).conv = p.conv
         /\ \A turn \in Nat : Mentions(ReplayConversation(p).items, turn) =>
              \E e \in p.events : e.turn = turn
<1> DEFINE base == [InitialView EXCEPT !.conv = p.conv, !.archived = p.archived,
                                       !.next = p.next]
           seq == InOrder(p.events)
           n == Len(seq)
           From(v) == /\ v.conv = p.conv
                      /\ \A turn \in Nat : Mentions(v.items, turn) =>
                           \E e \in p.events : e.turn = turn
<1>1. base \in Views /\ From(base)
  <2>1. base \in Views
    BY InitialViewOK DEF Views, ViewRecords, Payloads
  <2>2. base.conv = p.conv /\ base.items = <<>>
    BY InitialViewOK DEF Views, ViewRecords, InitialView
  <2> HIDE DEF base
  <2> QED
    BY <2>1, <2>2 DEF Mentions, At
<1>2. /\ seq \in Seq(Events) /\ \A i \in 1..n : seq[i] \in p.events
      /\ p.events \in SUBSET Events
  BY InOrderRises DEF Payloads
<1> HIDE DEF base, seq
<1>3. n \in Nat
  BY <1>2, LenProperties
<1>4. PICK shown :
        /\ shown[0] = base
        /\ \A k \in 0..n : shown[k] \in Views
        /\ \A k \in Nat : k + 1 <= n => shown[k + 1] = ApplyToView(shown[k], seq[k + 1])
        /\ FoldLeft(ApplyToView, base, seq) = shown[n]
  BY <1>1, <1>2, FoldSteps
<1> HIDE DEF n
<1> DEFINE Kept == {k \in Nat : k <= n => From(shown[k])}
<1>5. 0 \in Kept
  BY <1>1, <1>4
<1>6. ASSUME NEW k \in Nat, k \in Kept
      PROVE  k + 1 \in Kept
  <2> SUFFICES ASSUME k + 1 <= n
               PROVE  From(shown[k + 1])
    OBVIOUS
  <2> DEFINE e == seq[k + 1]
             v == shown[k]
  <2>1. /\ v \in Views /\ From(v) /\ e \in p.events /\ e \in Events
        /\ shown[k + 1] = ApplyToView(v, e)
    BY <1>2, <1>3, <1>4, <1>6
  <2> HIDE DEF e, v
  <2>2. ApplyToView(v, e).conv = p.conv
    BY <2>1, ApplyConv
  <2>3. \A turn \in Nat : Mentions(ApplyToView(v, e).items, turn) =>
          \E f \in p.events : f.turn = turn
    BY <2>1, ApplyMentions
  <2> QED
    BY <2>1, <2>2, <2>3
<1> HIDE DEF Kept
<1>7. n \in Kept
  BY <1>3, <1>5, <1>6, Upwards
<1> DEFINE told == FoldLeft(ApplyToView, base, seq)
<1>8. told \in Views /\ From(told)
  BY <1>3, <1>4, <1>7 DEF Kept
<1>9. ReplayConversation(p) = NormalizeDangling(told)
  BY DEF ReplayConversation, base, seq
<1> HIDE DEF told
<1>10. CASE told.status # "streaming"
  BY <1>8, <1>9, <1>10 DEF NormalizeDangling
<1>11. CASE told.status = "streaming"
  <2> DEFINE items == MarkStreaming(told.items, "error")
  <2>1. NormalizeDangling(told) = FailedView(told, items)
    BY <1>11 DEF NormalizeDangling, FailedView
  <2>2. told.items \in ItemLists /\ told \in ViewRecords /\ "error" \in ItemStatuses
    BY <1>8 DEF Views, ViewRecords, ItemLists, ItemStatuses
  <2>3. \A id : At(items, id) = {Marked(item, "error") : item \in At(told.items, id)}
    BY <2>2, AtMarked
  <2> HIDE DEF items
  <2>4. FailedView(told, items).conv = told.conv /\ FailedView(told, items).items = items
    BY <2>2 DEF FailedView, ViewRecords
  <2>5. \A turn \in Nat : Mentions(items, turn) => Mentions(told.items, turn)
    BY <2>3 DEF Mentions
  <2> QED
    BY <1>8, <1>9, <2>1, <2>4, <2>5
<1> QED
  BY <1>10, <1>11

-----------------------------------------------------------------------------
(***************************************************************************)
(* The panel's side of the story.  While the view has only taken events of *)
(* its own conversation it mentions no turn the log does not know; a       *)
(* stream that is followed has told the view all that has been read of it. *)
(***************************************************************************)
FromLog ==
  ~mixed => \A turn \in Nat : Mentions(view.items, turn) =>
    view.conv \in Conversations /\ \E e \in log[view.conv] : e.turn = turn

PayloadsStored ==
  \A call \in calls : \A e \in call.payload.events :
    call.payload.conv \in Conversations /\ e \in log[call.payload.conv]

TurnFollowed(n) ==
  /\ turns[n].conv = view.conv /\ turns[n].pc # "idle"
  /\ ~turns[n].broken /\ ~turns[n].gone =>
       /\ reading[n] # "open" => Began(turns[n])
       /\ Began(turns[n]) =>
            Tells(view.items, turns[n].id, Heard(turns[n]), turns[n].prompt)

SteadyOK ==
  /\ steady \subseteq Slots
  /\ steady # {} => ~mixed
  /\ \A n \in steady : TurnFollowed(n)

LiveInv == StoryInv /\ FromLog /\ PayloadsStored /\ SteadyOK

(* The parts of a record that matter to what the view shows of a turn.     *)
SameParts(t, u) ==
  /\ u.id = t.id /\ u.seq = t.seq /\ u.prompt = t.prompt
  /\ u.broken = t.broken /\ u.gone = t.gone /\ u.out = t.out

(* A followed turn whose stream says and has been told what it was.        *)
FollowedOn(n) ==
  /\ n \in steady
  /\ turns'[n].conv = turns[n].conv
  /\ turns'[n].pc # "idle"
  /\ turns'[n].gone \/ SameParts(turns[n], turns'[n])
  /\ reading'[n] # "open" => reading[n] # "open" \/ turns'[n].gone

(* A followed turn that has just been asked for.                           *)
FollowedAfresh(n) ==
  Fresh(turns'[n]) /\ turns'[n].conv = view.conv /\ reading'[n] = "open" /\ ~mixed

SameShown == view'.items = view.items /\ view'.conv = view.conv /\ (mixed' <=> mixed)

LEMMA HeardNext ==
  ASSUME NEW n \in Slots
  PROVE  /\ Heard(turns[n])' = {e \in log'[turns'[n].conv] : e.turn = turns'[n].id}
                                 \ Unread(turns'[n])
         /\ Began(turns[n])' <=> Began(turns'[n])
BY DEF Heard, Mine, Unread, Began

(* Logs that grow keep what a turn that has begun has stored.              *)
LEMMA GrowthKeepsMine ==
  ASSUME StoryInv, LogGrows, NEW n \in Slots, Speaker(turns[n])
  PROVE  {e \in log'[turns[n].conv] : e.turn = turns[n].id} = Mine(turns[n])
<1> DEFINE t == turns[n]
<1>1. TurnStory(t) /\ Speaker(t)
  BY DEF StoryInv
<1> HIDE DEF t
<1>2. t.conv \in Conversations /\ t.id # 0
  BY <1>1 DEF TurnStory
<1>3. /\ \A e \in log'[t.conv] : e.turn = t.id => e \in log[t.conv]
      /\ log[t.conv] \subseteq log'[t.conv]
  BY <1>2 DEF LogGrows, NoTurn
<1>4. {e \in log'[t.conv] : e.turn = t.id} = Mine(t)
  BY <1>3 DEF Mine
<1> QED
  BY <1>4 DEF t

LEMMA FollowedOnKeeps ==
  ASSUME StoryInv, SteadyOK, LogGrows, SameShown, NEW n \in Slots, FollowedOn(n)
  PROVE  TurnFollowed(n)'
<1> DEFINE t == turns[n]
           u == turns'[n]
           heard == {e \in log'[u.conv] : e.turn = u.id} \ Unread(u)
<1>1. TurnFollowed(n) /\ FollowedOn(n)
  BY DEF SteadyOK, FollowedOn
<1>2. Heard(turns[n])' = heard /\ (Began(turns[n])' <=> Began(u))
  BY HeardNext
<1>3. u.conv = view'.conv /\ u.pc # "idle"
  BY <1>1 DEF FollowedOn, TurnFollowed, SameShown
<1>4. ASSUME ~u.broken, ~u.gone
      PROVE  /\ reading'[n] # "open" => Began(u)
             /\ Began(u) => Tells(view'.items, u.id, heard, u.prompt)
  <2>1. SameParts(t, u) /\ (reading'[n] # "open" => reading[n] # "open") /\ u.conv = t.conv
    BY <1>1, <1>4 DEF FollowedOn
  <2>2. ~t.broken /\ ~t.gone /\ (Began(u) <=> Began(t)) /\ Unread(u) = Unread(t)
    BY <1>4, <2>1 DEF SameParts, Began, Unread
  <2>3. /\ reading[n] # "open" => Began(t)
        /\ Began(t) => Tells(view.items, t.id, Heard(t), t.prompt)
    BY <1>1, <2>2 DEF TurnFollowed
  <2>4. ASSUME Began(t)
        PROVE  heard = Heard(t)
    <3>1. {e \in log'[t.conv] : e.turn = t.id} = Mine(t)
      BY <2>4, GrowthKeepsMine DEF Speaker
    <3> QED
      BY <2>1, <2>2, <3>1 DEF SameParts, Heard
  <2> HIDE DEF t, u, heard
  <2> QED
    BY <2>1, <2>2, <2>3, <2>4 DEF SameParts, SameShown
<1> HIDE DEF heard
<1> QED
  BY <1>2, <1>3, <1>4 DEF TurnFollowed

LEMMA FollowedAfreshOK ==
  ASSUME NEW n \in Slots, FollowedAfresh(n), SameShown
  PROVE  TurnFollowed(n)'
<1>1. ~Began(turns[n])'
  BY FreshIsSilent DEF FollowedAfresh, Speaker, Began, Fresh
<1> QED
  BY <1>1 DEF TurnFollowed, FollowedAfresh, SameShown, Fresh

(* A step that shows no more than was shown.                               *)
LEMMA QuietLive ==
  ASSUME StoryInv, FromLog, SteadyOK, LogGrows, SameShown,
         steady' \subseteq Slots,
         \A n \in steady' : FollowedOn(n) \/ FollowedAfresh(n)
  PROVE  FromLog' /\ SteadyOK'
<1>1. FromLog'
  BY DEF FromLog, SameShown, LogGrows, Mentions, At
<1>2. \A n \in steady' : TurnFollowed(n)'
  BY FollowedOnKeeps, FollowedAfreshOK
<1>3. steady' # {} => ~mixed'
  BY DEF SteadyOK, FollowedOn, FollowedAfresh, SameShown
<1> QED
  BY <1>1, <1>2, <1>3 DEF SteadyOK

(* The requests under way still bring back stored events.                  *)
LEMMA PayloadsKept ==
  ASSUME PayloadsStored, LogGrows,
         \A call \in calls' : call \in calls
                              \/ \A e \in call.payload.events :
                                   /\ call.payload.conv \in Conversations
                                   /\ e \in log'[call.payload.conv]
  PROVE  PayloadsStored'
BY DEF PayloadsStored, LogGrows

(* Nothing of the turns and of the streams changes.                        *)
LEMMA TurnsFollowedOn ==
  ASSUME SteadyOK, steady' \subseteq steady, UNCHANGED <<turns, reading>>
  PROVE  steady' \subseteq Slots /\ \A n \in steady' : FollowedOn(n) \/ FollowedAfresh(n)
BY DEF SteadyOK, TurnFollowed, FollowedOn, SameParts

-----------------------------------------------------------------------------
(* A step of turn n: what it stores is unread, or tells nothing.           *)
LEMMA TaleKeepsHeard ==
  ASSUME ServerInv, StoryInv, FromLog, ~mixed, NEW n \in Slots, NEW es, NEW said,
         Tale(n, es, said), TurnFollowed(n), ~turns'[n].broken, ~turns'[n].gone,
         Began(turns'[n])
  PROVE  Tells(view.items, turns'[n].id, Heard(turns[n])', turns'[n].prompt)
<1> DEFINE t == turns[n]
           u == turns'[n]
           c == t.conv
           mine == {e \in log'[c] : e.turn = u.id}
           heard == mine \ Unread(u)
<1>1. TaleMeans(n, es, said)
  BY TaleFacts
<1>2. /\ MovesOn(t, u, es, said) /\ StoresMore(t, u, es) /\ SaysMore(t, u, es, said)
      /\ t \in TurnRecords /\ (Writing(t) => WrittenUpTo(c, t.id, t.seq))
      /\ TurnFollowed(n) /\ ~u.broken /\ ~u.gone /\ Began(u)
  BY DEF Tale, ServerInv, TurnsTyped, TurnsOK
<1>3. /\ c \in Conversations /\ u.conv = c /\ log'[c] = log[c] \cup es
      /\ Unread(u) = Unread(t) \cup {said[i] : i \in DOMAIN said}
      /\ ~t.gone /\ ~t.broken
      /\ u.prompt = t.prompt
  BY <1>1, <1>2 DEF TaleMeans, MovesOn, SaysMore
<1>4. Heard(turns[n])' = heard
  BY <1>3, HeardNext
<1>5. \A e \in es : e.type \in TellTypes => e \in Unread(u)
  BY <1>2, <1>3 DEF SaysMore
<1>6. CASE Began(t)
  <2>1. u.id = t.id
    BY <1>1, <1>6 DEF TaleMeans, Began
  <2>2. Tells(view.items, t.id, Heard(t), t.prompt)
    BY <1>2, <1>3, <1>6 DEF TurnFollowed
  <2>3. \A e \in Heard(t) : e \in log[c] /\ e.turn = u.id /\ e \notin Unread(t)
    BY <2>1 DEF Heard, Mine
  <2>4. \A e \in log[c] : e \notin {said[i] : i \in DOMAIN said}
    BY <1>2 DEF SaysMore, Among, StoresMore, Free
  <2>5. \A e \in Heard(t) : e \in heard
    BY <1>3, <2>3, <2>4
  <2>6. \A e \in heard : e.type \in TellTypes => e \in Heard(t)
    <3> SUFFICES ASSUME NEW e \in heard, e.type \in TellTypes
                 PROVE  e \in Heard(t)
      OBVIOUS
    <3>1. e \in log[c] \cup es /\ e.turn = u.id /\ e \notin Unread(u)
      BY <1>3
    <3> QED
      BY <1>3, <1>5, <2>1, <3>1 DEF Heard, Mine
  <2>7. {e \in Heard(t) : e.type \in TellTypes} = {e \in heard : e.type \in TellTypes}
    BY <2>5, <2>6
  <2> HIDE DEF heard, t, u
  <2>8. Tells(view.items, t.id, heard, t.prompt)
    BY <2>2, <2>7, TellsSame
  <2> QED
    BY <1>3, <1>4, <2>1, <2>8 DEF t, u
<1>7. CASE ~Began(t)
  <2>1. es # {}
    BY <1>2, <1>7 DEF StoresMore
  <2>2. ~Continues(t, es)
    BY <1>2, <1>3, <1>7 DEF Continues, WrittenUpTo, Began
  <2>3. Begins(t, u, es)
    BY <1>2, <2>1, <2>2 DEF StoresMore
  <2>4. (\A f \in log[c] : f.turn # u.id) /\ u.id \in Nat
    BY <1>1, <1>2, <2>1, <2>3 DEF TaleMeans, StoresMore
  <2>5. ~Mentions(view.items, u.id)
    BY <1>2, <2>4 DEF FromLog, TurnFollowed
  <2>6. \A e \in heard : e.type \notin TellTypes
    BY <1>3, <1>5, <2>4
  <2> HIDE DEF heard, u
  <2>7. Tells(view.items, u.id, heard, t.prompt)
    BY <2>5, <2>6, TellsNothing DEF Mentions
  <2> QED
    BY <1>3, <1>4, <2>7 DEF u
<1> QED
  BY <1>6, <1>7

LEMMA TaleLive ==
  ASSUME ServerInv, ServerInv', StoryInv, FromLog, SteadyOK, NEW n \in Slots, NEW es, NEW said,
         Tale(n, es, said), UNCHANGED <<view, mixed, steady, reading>>
  PROVE  FromLog' /\ SteadyOK'
<1>1. TaleMeans(n, es, said)
  BY TaleFacts
<1>2. FromLog'
  BY <1>1 DEF FromLog, TaleMeans
<1>3. ASSUME NEW m \in steady, m # n
      PROVE  TurnFollowed(m)'
  <2>1. m \in Slots /\ TurnFollowed(m) /\ turns'[m] = turns[m]
    BY <1>3 DEF SteadyOK, Tale
  <2>2. Began(turns[m])' <=> Began(turns[m])
    BY <2>1 DEF Began
  <2>3. Began(turns[m]) => Heard(turns[m])' = Heard(turns[m])
    <3>1. Began(turns[m]) => Mine(turns[m])' = Mine(turns[m])
      BY <1>3, <2>1, TaleKeepsMine DEF Speaker
    <3> QED
      BY <2>1, <3>1 DEF Heard, Unread
  <2> QED
    BY <2>1, <2>2, <2>3 DEF TurnFollowed
<1>4. ASSUME n \in steady
      PROVE  TurnFollowed(n)'
  <2> DEFINE t == turns[n]
             u == turns'[n]
  <2>1. TurnFollowed(n) /\ ~mixed
    BY <1>4 DEF SteadyOK
  <2>2. MovesOn(t, u, es, said) /\ SaysMore(t, u, es, said)
    BY DEF Tale
  <2>3. u.conv = view'.conv /\ u.pc # "idle"
    BY <2>1, <2>2 DEF TurnFollowed, MovesOn
  <2>4. ASSUME ~u.broken, ~u.gone, reading'[n] # "open"
        PROVE  Began(u)
    <3>1. ~t.broken /\ ~t.gone /\ reading[n] # "open"
      BY <2>2, <2>4 DEF MovesOn, SaysMore
    <3>2. Began(t)
      BY <2>1, <3>1 DEF TurnFollowed
    <3>3. u.id = t.id /\ t.seq <= u.seq
      BY <1>1, <2>2, <3>2 DEF TaleMeans, MovesOn, Began
    <3>4. t.seq \in Nat /\ t.id \in Nat /\ u.seq \in Nat
      BY DEF ServerInv, TurnsTyped, TurnRecords
    <3> QED
      BY <2>4, <3>2, <3>3, <3>4 DEF Began
  <2>5. ~u.broken /\ ~u.gone /\ Began(u) =>
          Tells(view.items, u.id, Heard(turns[n])', u.prompt)
    BY <2>1, TaleKeepsHeard
  <2>6. Began(turns[n])' <=> Began(u)
    BY HeardNext
  <2> QED
    BY <2>3, <2>4, <2>5, <2>6 DEF TurnFollowed
<1>5. SteadyOK'
  BY <1>3, <1>4 DEF SteadyOK
<1> QED
  BY <1>2, <1>5

-----------------------------------------------------------------------------
(* The head of a stream, and what is unread behind it.                     *)
LEMMA HeadUnread ==
  ASSUME NEW t, t.out \in Seq(Events), t.out # <<>>, NEW u, u.out = Tail(t.out)
  PROVE  /\ Head(t.out) \in Events /\ Head(t.out) \in Unread(t)
         /\ Unread(t) = Unread(u) \cup {Head(t.out)}
         /\ (\A i, j \in DOMAIN t.out : i < j => t.out[i].seq < t.out[j].seq)
              => Head(t.out) \notin Unread(u)
<1> DEFINE out == t.out
           rest == Tail(out)
           e == Head(out)
<1>1. /\ Len(out) \in Nat /\ Len(out) # 0 /\ DOMAIN out = 1..Len(out)
      /\ e = out[1] /\ rest \in Seq(Events)
      /\ Len(rest) = Len(out) - 1 /\ \A i \in 1..Len(rest) : rest[i] = out[i + 1]
  BY LenProperties, HeadTailProperties, EmptySeq
<1>2. DOMAIN rest = 1..(Len(out) - 1)
  BY <1>1, LenProperties
<1>3. \A i \in DOMAIN out : out[i] \in Events
  BY <1>1, ElementOfSeq
<1> HIDE DEF out, rest, e
<1>4. 1 \in DOMAIN out /\ \A i \in DOMAIN rest : i + 1 \in DOMAIN out /\ rest[i] = out[i + 1]
  BY <1>1, <1>2
<1>5. \A i \in DOMAIN out : i = 1 \/ (i - 1 \in DOMAIN rest /\ rest[i - 1] = out[i])
  BY <1>1, <1>2
<1>6. {out[i] : i \in DOMAIN out} = {rest[i] : i \in DOMAIN rest} \cup {e}
  <2> DEFINE A == {out[i] : i \in DOMAIN out}
             B == {rest[i] : i \in DOMAIN rest}
  <2>1. \A x \in A : x \in B \cup {e}
    BY <1>1, <1>5
  <2>2. e \in A /\ \A x \in B : x \in A
    BY <1>1, <1>4
  <2> QED
    BY <2>1, <2>2
<1>7. ASSUME \A i, j \in DOMAIN out : i < j => out[i].seq < out[j].seq
      PROVE  e \notin {rest[i] : i \in DOMAIN rest}
  <2> SUFFICES ASSUME NEW i \in DOMAIN rest, rest[i] = e
               PROVE  FALSE
    OBVIOUS
  <2>1. i + 1 \in DOMAIN out /\ 1 < i + 1 /\ out[i + 1] = e
    BY <1>2, <1>4
  <2>2. e.seq < e.seq
    BY <1>1, <1>4, <1>7, <2>1
  <2>3. e.seq \in Nat
    BY <1>1, <1>3, <1>4, EventNumbers
  <2> QED
    BY <2>2, <2>3
<1>8. e \in Events
  BY <1>1, <1>3, <1>4
<1>9. Unread(t) = {out[i] : i \in DOMAIN out} /\ Unread(u) = {rest[i] : i \in DOMAIN rest}
  BY DEF Unread, out, rest
<1> QED
  BY <1>6, <1>7, <1>8, <1>9 DEF out, e

LEMMA HeardFinite ==
  ASSUME ServerInv, LogsFinite, NEW n \in Slots, turns[n].conv \in Conversations
  PROVE  IsFiniteSet(DeltasOf(Heard(turns[n])))
<1>1. DeltasOf(Heard(turns[n])) \subseteq log[turns[n].conv]
  BY DEF DeltasOf, Heard, Mine
<1> QED
  BY <1>1, FS_Subset DEF LogsFinite

(* The view takes an event of its conversation from the stream of turn n.  *)
ReadOn(n) ==
  /\ turns[n].out # <<>>
  /\ Head(turns[n].out).conv = view.conv
  /\ view' = ApplyToView(view, Head(turns[n].out))
  /\ turns'[n].out = Tail(turns[n].out)
  /\ turns'[n].id = turns[n].id /\ turns'[n].conv = turns[n].conv
  /\ turns'[n].seq = turns[n].seq /\ turns'[n].prompt = turns[n].prompt
  /\ turns'[n].broken = turns[n].broken /\ turns'[n].gone = turns[n].gone
  /\ turns'[n].pc = turns[n].pc
  /\ \A m \in Slots : m # n => turns'[m] = turns[m] /\ reading'[m] = reading[m]
  /\ UNCHANGED <<log, calls, mixed, steady>>

ReadMeans(n, e) ==
  /\ e \in Events /\ e.conv = view.conv /\ view.conv \in Conversations
  /\ view' = ApplyToView(view, e) /\ view'.conv = view.conv
  /\ e \in Unread(turns[n]) /\ e.turn = turns[n].id /\ turns[n].conv = view.conv
  /\ e.type # "turn.error" => e \in log[view.conv] /\ Speaker(turns[n])

LEMMA ReadFacts ==
  ASSUME PanelInv, StoryInv, NEW n \in Slots, ReadOn(n)
  PROVE  ReadMeans(n, Head(turns[n].out))
<1> DEFINE t == turns[n]
           e == Head(t.out)
<1>1. t.out \in Seq(Events) /\ TurnStory(t) /\ view \in Views /\ t.out # <<>>
      /\ e.conv = view.conv /\ view' = ApplyToView(view, e)
  BY DEF PanelInv, ClientInv, ServerInv, TurnsTyped, TurnRecords, StoryInv, ReadOn
<1>2. turns'[n].out = Tail(t.out)
  BY DEF ReadOn
<1> HIDE DEF t
<1>3. e \in Events /\ e \in Unread(t)
  BY <1>1, <1>2, HeadUnread
<1> HIDE DEF e
<1>4. /\ e.turn = t.id /\ e.conv = t.conv
      /\ e.type # "turn.error" => e \in log[t.conv] /\ Speaker(t)
  BY <1>1, <1>3 DEF TurnStory, Speaker
<1>5. e.conv \in Conversations
  BY <1>3 DEF Events
<1>6. view'.conv = view.conv
  BY <1>1, <1>3, ApplyConv
<1> QED
  BY <1>1, <1>3, <1>4, <1>5, <1>6 DEF ReadMeans, t, e

(* Another turn of the conversation has not said what is read.             *)
LEMMA ReadKeepsOthers ==
  ASSUME PanelInv, StoryInv, SteadyOK, NEW n \in Slots, ReadOn(n), NEW m \in steady, m # n
  PROVE  TurnFollowed(m)'
<1> DEFINE e == Head(turns[n].out)
           t == turns[m]
<1>1. ReadMeans(n, e)
  BY ReadFacts
<1>2. /\ m \in Slots /\ TurnFollowed(m) /\ turns'[m] = t /\ reading'[m] = reading[m]
      /\ UNCHANGED log /\ view \in Views /\ t \in TurnRecords
  BY DEF SteadyOK, ReadOn, PanelInv, ClientInv, ServerInv, TurnsTyped
<1>3. Heard(turns[m])' = Heard(t) /\ (Began(turns[m])' <=> Began(t))
  BY <1>2 DEF Heard, Mine, Unread, Began
<1>4. t.conv = view.conv /\ view'.conv = view.conv /\ view.conv \in Conversations
  BY <1>1, <1>2 DEF TurnFollowed, ReadMeans
<1> HIDE DEF e
<1>5. ASSUME ~t.broken, ~t.gone, Began(t)
      PROVE  Tells(view'.items, t.id, Heard(t), t.prompt)
  <2>1. Tells(view.items, t.id, Heard(t), t.prompt)
    BY <1>2, <1>5 DEF TurnFollowed
  <2>2. e.turn # t.id \/ e.type \notin TellTypes
    <3> SUFFICES ASSUME e.turn = t.id, e.type \in TellTypes
                 PROVE  FALSE
      OBVIOUS
    <3>1. e.type # "turn.error"
      BY DEF TellTypes, FinishTypes
    <3>2. Speaker(turns[n]) /\ Speaker(t) /\ turns[n].conv = t.conv /\ turns[n].id = t.id
      BY <1>1, <1>4, <1>5, <3>1 DEF ReadMeans, Speaker
    <3> QED
      BY <1>2, <3>2 DEF StoryInv, SpeakersDiffer
  <2>3. IsFiniteSet(DeltasOf(Heard(t)))
    BY <1>2, <1>4, HeardFinite DEF PanelInv
  <2>4. t.id \in Nat /\ e \in Events /\ view' = ApplyToView(view, e)
    BY <1>1, <1>2 DEF TurnRecords, ReadMeans
  <2> HIDE DEF t
  <2>5. Tells(ApplyToView(view, e).items, t.id, Heard(t), t.prompt)
    BY <1>2, <2>1, <2>2, <2>3, <2>4, OtherEventTells
  <2> QED
    BY <2>4, <2>5
<1> QED
  BY <1>2, <1>3, <1>4, <1>5 DEF TurnFollowed

(* The turn that said it has now told it, too.                             *)
LEMMA ReadKeepsOwn ==
  ASSUME PanelInv, StoryInv, SteadyOK, NEW n \in Slots, ReadOn(n), n \in steady
  PROVE  TurnFollowed(n)'
<1> DEFINE t == turns[n]
           u == turns'[n]
           e == Head(turns[n].out)
<1>1. ReadMeans(n, e)
  BY ReadFacts
<1>2. /\ TurnFollowed(n) /\ TurnStory(t) /\ (t.out # <<>> /\ ~t.broken => OutStory(t))
      /\ DeltasFirst /\ view \in Views /\ t \in TurnRecords /\ t.out \in Seq(Events)
      /\ t.out # <<>> /\ u.out = Tail(t.out) /\ UNCHANGED log
  BY DEF SteadyOK, StoryInv, ReadOn, PanelInv, ClientInv, ServerInv, TurnsTyped, TurnRecords
<1>3. /\ u.id = t.id /\ u.conv = t.conv /\ u.seq = t.seq /\ u.prompt = t.prompt
      /\ u.broken = t.broken /\ u.gone = t.gone /\ u.pc = t.pc
  BY DEF ReadOn
<1>4. /\ Heard(turns[n])' = Mine(t) \ Unread(u)
      /\ Began(turns[n])' <=> Began(t)
  BY <1>2, <1>3, HeardNext DEF Mine, Began
<1>5. u.conv = view'.conv /\ u.pc # "idle"
  BY <1>1, <1>2, <1>3 DEF TurnFollowed, ReadMeans
<1>6. t.conv = view.conv /\ view.conv \in Conversations /\ t.id \in Nat
  BY <1>1, <1>2 DEF ReadMeans, TurnRecords
<1>7. IsFiniteSet(DeltasOf(Heard(t)))
  BY <1>6, HeardFinite DEF PanelInv
<1>8. /\ Unread(t) = Unread(u) \cup {e}
      /\ (\A i, j \in DOMAIN t.out : i < j => t.out[i].seq < t.out[j].seq)
           => e \notin Unread(u)
  BY <1>2, HeadUnread
<1> HIDE DEF e, t, u
<1>9. ASSUME ~t.broken, ~t.gone
      PROVE  Began(t) /\ Tells(view'.items, t.id, Mine(t) \ Unread(u), t.prompt)
  <2>1. OutStory(t) /\ Began(t)
    BY <1>2, <1>9 DEF OutStory
  <2>2. Tells(view.items, t.id, Heard(t), t.prompt)
    BY <1>2, <1>9, <2>1 DEF TurnFollowed, t
  <2>3. e \in Mine(t) /\ e \notin Unread(u) /\ e \notin Heard(t)
    BY <1>1, <1>8, <2>1 DEF ReadMeans, OutStory, Mine, Heard, t
  <2>4. Mine(t) \ Unread(u) = Heard(t) \cup {e}
    BY <1>8, <2>3 DEF Heard
  <2>5. e.type = "turn.user_message.accepted" => e.text = t.prompt
    BY <1>2, <2>1, <2>3 DEF TurnStory, Speaker
  <2>6. ASSUME e.type = "turn.agent_message.delta", NEW f \in Heard(t), f.type \in FinishTypes
        PROVE  FALSE
    <3>1. f \in Mine(t) /\ f \notin Unread(t) /\ e \in Unread(t)
      BY <1>8 DEF Heard
    <3>2. e.seq < f.seq /\ e \in log[t.conv] /\ f \in log[t.conv]
      BY <1>2, <1>6, <2>3, <2>6, <3>1 DEF DeltasFirst, Mine
    <3>3. e.seq \in Nat /\ f.seq \in Nat
      <4>1. log[t.conv] \subseteq Events
        BY <1>6 DEF PanelInv, ServerInv, LogsOK
      <4> QED
        BY <3>2, <4>1, EventNumbers
    <3>4. f \in Unread(t)
      BY <2>1, <2>6, <3>1, <3>2, <3>3 DEF OutStory
    <3> QED
      BY <3>1, <3>4
  <2>7. e \in Events /\ e.turn = t.id /\ view' = ApplyToView(view, e)
    BY <1>1 DEF ReadMeans, t
  <2>8. Tells(ApplyToView(view, e).items, t.id, Heard(t) \cup {e}, t.prompt)
    BY <1>2, <1>6, <1>7, <2>2, <2>3, <2>5, <2>6, <2>7, OwnEventTells
  <2> QED
    BY <2>1, <2>4, <2>7, <2>8
<1> QED
  BY <1>3, <1>4, <1>5, <1>9 DEF TurnFollowed, u

LEMMA ReadLive ==
  ASSUME PanelInv, LiveInv, NEW n \in Slots, ReadOn(n)
  PROVE  FromLog' /\ SteadyOK'
<1> DEFINE e == Head(turns[n].out)
<1>1. ReadMeans(n, e) /\ view \in Views /\ UNCHANGED <<log, mixed, steady>>
  BY ReadFacts DEF LiveInv, PanelInv, ClientInv, ReadOn
<1> HIDE DEF e
<1>2. FromLog'
  <2> SUFFICES ASSUME ~mixed, NEW turn \in Nat, Mentions(view'.items, turn)
               PROVE  view.conv \in Conversations /\ \E f \in log[view.conv] : f.turn = turn
    BY <1>1 DEF FromLog, ReadMeans, Mentions, At
  <2>1. Mentions(view.items, turn) \/ (e.turn = turn /\ e.type # "turn.error")
    BY <1>1, ApplyMentions DEF ReadMeans
  <2> QED
    BY <1>1, <2>1 DEF LiveInv, FromLog, ReadMeans
<1>3. \A m \in steady : TurnFollowed(m)'
  BY ReadKeepsOthers, ReadKeepsOwn DEF LiveInv
<1> QED
  BY <1>1, <1>2, <1>3 DEF LiveInv, SteadyOK

LEMMA ReadEventLive ==
  ASSUME PanelInv, LiveInv, NEW n \in Slots, ReadEvent(n)
  PROVE  FromLog' /\ SteadyOK' /\ PayloadsStored'
<1> DEFINE t == turns[n]
           tail == Tail(t.out)
           new == [t EXCEPT !.out = tail]
<1>1. t \in TurnRecords /\ turns \in [Slots -> TurnRecords]
  BY DEF PanelInv, ServerInv, TurnsTyped
<1>2. turns' = [turns EXCEPT ![n] = new] /\ UNCHANGED <<log, calls>>
  BY <1>1 DEF ReadEvent
<1>3. PayloadsStored'
  BY <1>2 DEF LiveInv, PayloadsStored
<1>4. /\ new.out = tail /\ new.id = t.id /\ new.conv = t.conv /\ new.seq = t.seq
      /\ new.prompt = t.prompt /\ new.broken = t.broken /\ new.gone = t.gone
      /\ new.pc = t.pc
  <2> HIDE DEF tail
  <2> QED
    BY <1>1 DEF TurnRecords
<1> HIDE DEF new
<1>5. turns'[n] = new /\ \A m \in Slots : m # n => turns'[m] = turns[m]
  BY <1>1, <1>2
<1>6. \A m \in Slots : m # n => reading'[m] = reading[m]
  BY DEF ReadEvent, PanelInv, StreamsOK
<1>7. CASE Head(turns[n].out).conv = view.conv
  <2>1. ReadOn(n)
    BY <1>2, <1>4, <1>5, <1>6, <1>7 DEF ReadEvent, ReadOn
  <2> QED
    BY <1>3, <2>1, ReadLive
<1>8. CASE Head(turns[n].out).conv # view.conv
  <2>1. mixed' = TRUE /\ steady' = {}
    BY <1>8 DEF ReadEvent
  <2> QED
    BY <1>3, <2>1 DEF FromLog, SteadyOK
<1> QED
  BY <1>7, <1>8

-----------------------------------------------------------------------------
(***************************************************************************)
(* The other steps of the panel, action by action.                         *)
(***************************************************************************)
LiveSide == FromLog /\ PayloadsStored /\ SteadyOK

SameItems(v, w) == w.items = v.items /\ w.conv = v.conv

LEMMA ViewItemsKept ==
  ASSUME NEW v \in Views
  PROVE  /\ SameItems(v, LoadingStarted(v)) /\ SameItems(v, LoadingFinished(v))
         /\ \A d : SameItems(v, ComposerChanged(v, d))
         /\ \A failed : SameItems(v, ErrorMessageSet(v, failed))
         /\ SameItems(v, StreamFailedLocally(v))
<1>1. v \in ViewRecords
  BY DEF Views
<1>2. SameItems(v, LoadingStarted(v)) /\ SameItems(v, LoadingFinished(v))
  BY <1>1 DEF SameItems, LoadingStarted, LoadingFinished, ViewRecords
<1>3. ASSUME NEW d
      PROVE  SameItems(v, ComposerChanged(v, d))
  BY <1>1 DEF SameItems, ComposerChanged, ViewRecords
<1>4. ASSUME NEW failed
      PROVE  SameItems(v, ErrorMessageSet(v, failed))
  BY <1>1 DEF SameItems, ErrorMessageSet, ViewRecords
<1>5. SameItems(v, StreamFailedLocally(v))
  BY <1>1 DEF SameItems, StreamFailedLocally, ViewRecords
<1> QED
  BY <1>2, <1>3, <1>4, <1>5

(* No turn and no stream changes, and the items stay.                      *)
LEMMA IdleLive ==
  ASSUME LiveInv, UNCHANGED <<log, turns, reading>>, SameItems(view, view'),
         mixed' <=> mixed, steady' \subseteq steady,
         \A call \in calls' : call \in calls \/ call.payload.events = {}
  PROVE  LiveSide'
<1>1. LogGrows
  BY LogStays
<1>2. SameShown
  BY DEF SameShown, SameItems
<1>3. steady' \subseteq Slots /\ \A n \in steady' : FollowedOn(n) \/ FollowedAfresh(n)
  BY TurnsFollowedOn DEF LiveInv
<1>4. FromLog' /\ SteadyOK'
  BY <1>1, <1>2, <1>3, QuietLive DEF LiveInv
<1>5. PayloadsStored'
  BY <1>1, PayloadsKept DEF LiveInv
<1> QED
  BY <1>4, <1>5 DEF LiveSide

LEMMA SentBringsNothing ==
  ASSUME NEW op, NEW c, NEW arg
  PROVE  Call(op, c, arg).payload.events = {}
BY DEF Call, NoPayload, Replay

LEMMA ClickLive ==
  ASSUME PanelInv, LiveInv, NEW op, NEW c, NEW arg, Request(Call(op, c, arg)),
         SameItems(view, view')
  PROVE  LiveSide'
<1> DEFINE new == Call(op, c, arg)
<1>1. new.payload.events = {}
  BY SentBringsNothing
<1> HIDE DEF new
<1>2. calls' = calls \cup {new} /\ UNCHANGED <<log, turns, reading, mixed, steady>>
  BY DEF Request, new
<1> QED
  BY <1>1, <1>2, IdleLive

LEMMA ClicksLive ==
  ASSUME PanelInv, LiveInv,
         \/ SelectConversation \/ StartNewConversation \/ RenameConversation
         \/ ArchiveConversation \/ Interrupt
  PROVE  LiveSide'
<1>1. view \in Views
  BY DEF PanelInv, ClientInv
<1>2. SameItems(view, view) /\ SameItems(view, LoadingStarted(view))
      /\ SameItems(view, ErrorMessageSet(LoadingStarted(view), FALSE))
  <2>1. LoadingStarted(view) \in Views
    BY <1>1, ViewChanges
  <2> QED
    BY <1>1, <2>1, ViewItemsKept DEF SameItems
<1>3. \E op, c, arg : Request(Call(op, c, arg))
  BY DEF SelectConversation, StartNewConversation, RenameConversation, ArchiveConversation,
         Interrupt
<1>4. SameItems(view, view')
  BY <1>2 DEF SelectConversation, StartNewConversation, RenameConversation,
              ArchiveConversation, Interrupt
<1> QED
  BY <1>3, <1>4, ClickLive

LEMMA SendFirstLive ==
  ASSUME PanelInv, LiveInv, SendFirst
  PROVE  LiveSide'
<1> DEFINE new == Call("create", NoConversation, "ensure")
<1>1. new.payload.events = {}
  BY SentBringsNothing
<1>2. view' = view \/ view' = LoadingStarted(view)
  BY DEF SendFirst
<1>3. SameItems(view, view')
  BY <1>2, ViewItemsKept DEF PanelInv, ClientInv, SameItems
<1>4. (calls' = calls \/ calls' = calls \cup {new})
      /\ UNCHANGED <<log, turns, reading, mixed, steady>>
  BY DEF SendFirst, serverVars
<1> HIDE DEF new
<1> QED
  BY <1>1, <1>3, <1>4, IdleLive

LEMMA TypeLive ==
  ASSUME PanelInv, LiveInv, Type
  PROVE  LiveSide'
<1>1. SameItems(view, view')
  BY ViewItemsKept DEF PanelInv, ClientInv, Type
<1> QED
  BY <1>1, IdleLive DEF Type, serverVars

LEMMA ListFailsLive ==
  ASSUME PanelInv, LiveInv, ListFails
  PROVE  LiveSide'
<1>1. SameItems(view, view')
  BY ViewItemsKept DEF PanelInv, ClientInv, ListFails
<1> QED
  BY <1>1, IdleLive DEF ListFails

LEMMA LoseAnswerLive ==
  ASSUME PanelInv, LiveInv, NEW call \in calls, LoseAnswer(call)
  PROVE  LiveSide'
<1> DEFINE new == Failed(call)
<1>1. CallOK(call)
  BY DEF PanelInv, ClientInv, CallsOK
<1>2. new.payload = call.payload
  BY <1>1 DEF Failed, CallOK
<1>3. /\ calls' = (calls \ {call}) \cup {new}
      /\ UNCHANGED <<log, turns, view, reading, mixed, steady>>
  BY DEF LoseAnswer
<1> HIDE DEF new
<1>4. LogGrows /\ SameShown
  BY <1>3, LogStays DEF SameShown
<1>5. steady' \subseteq Slots /\ \A n \in steady' : FollowedOn(n) \/ FollowedAfresh(n)
  BY <1>3, TurnsFollowedOn DEF LiveInv
<1>6. FromLog' /\ SteadyOK'
  BY <1>4, <1>5, QuietLive DEF LiveInv
<1>7. PayloadsStored'
  BY <1>2, <1>3 DEF LiveInv, PayloadsStored
<1> QED
  BY <1>6, <1>7 DEF LiveSide

LEMMA ReloadLive ==
  ASSUME Reload
  PROVE  LiveSide'
<1>1. view' = InitialView /\ calls' = {} /\ steady' = {}
  BY DEF Reload, Mounted
<1>2. view'.items = <<>>
  BY <1>1 DEF InitialView
<1>3. FromLog'
  BY <1>2 DEF FromLog, Mentions, At
<1> QED
  BY <1>1, <1>3 DEF LiveSide, PayloadsStored, SteadyOK

(* A stream ends: terminated, or without its end.                          *)
LEMMA EndOfStreamLive ==
  ASSUME PanelInv, LiveInv, NEW n \in Slots, EndOfStream(n)
  PROVE  LiveSide'
<1>1. UNCHANGED <<log, turns, calls, mixed>> /\ reading \in [Slots -> {"no", "open", "terminal"}]
      /\ reading' = [reading EXCEPT ![n] = "no"]
  BY DEF EndOfStream, serverVars, PanelInv, StreamsOK
<1>2. LogGrows
  BY <1>1, LogStays
<1>3. SameShown
  BY <1>1, ViewItemsKept DEF EndOfStream, PanelInv, ClientInv, SameShown, SameItems
<1>4. \A m \in steady' : m \in steady /\ (reading'[m] # "open" => reading[m] # "open")
  <2>1. CASE reading[n] = "terminal"
    <3>1. UNCHANGED steady
      BY <2>1 DEF EndOfStream
    <3> QED
      BY <1>1, <2>1, <3>1 DEF LiveInv, SteadyOK
  <2>2. CASE reading[n] # "terminal"
    <3>1. steady' = steady \ {n}
      BY <2>2 DEF EndOfStream
    <3> QED
      BY <1>1, <3>1 DEF LiveInv, SteadyOK
  <2> QED
    BY <2>1, <2>2
<1>5. steady' \subseteq Slots /\ \A m \in steady' : FollowedOn(m)
  BY <1>1, <1>4 DEF LiveInv, SteadyOK, TurnFollowed, FollowedOn, SameParts
<1>6. FromLog' /\ SteadyOK'
  BY <1>2, <1>3, <1>5, QuietLive DEF LiveInv
<1>7. PayloadsStored'
  BY <1>1, <1>2, PayloadsKept DEF LiveInv
<1> QED
  BY <1>6, <1>7 DEF LiveSide

LEMMA LoseConnectionLive ==
  ASSUME PanelInv, LiveInv, NEW n \in Slots, LoseConnection(n)
  PROVE  LiveSide'
<1>1. /\ UNCHANGED <<log, calls, mixed, steady>>
      /\ reading \in [Slots -> {"no", "open", "terminal"}]
      /\ reading' = [reading EXCEPT ![n] = "no"] /\ Disconnect({n})
      /\ view' = StreamFailedLocally(view) /\ view \in Views
  BY DEF LoseConnection, Disconnect, PanelInv, ClientInv, StreamsOK
<1>2. LogGrows
  BY <1>1, LogStays
<1>3. SameShown
  BY <1>1, ViewItemsKept DEF SameShown, SameItems
<1>4. ASSUME NEW m \in steady
      PROVE  FollowedOn(m)
  <2>1. m \in Slots /\ TurnFollowed(m) /\ turns[m] \in TurnRecords
    BY DEF LiveInv, SteadyOK, PanelInv, ServerInv, TurnsTyped
  <2>2. CASE m = n
    <3>1. turns'[m] = [turns[m] EXCEPT !.gone = TRUE, !.out = <<>>]
      BY <1>1, <2>1, <2>2 DEF Disconnect
    <3>2. turns'[m].gone /\ turns'[m].conv = turns[m].conv /\ turns'[m].pc = turns[m].pc
      BY <2>1, <3>1 DEF TurnRecords
    <3> QED
      BY <2>1, <3>2 DEF FollowedOn, TurnFollowed
  <2>3. CASE m # n
    <3>1. turns'[m] = turns[m] /\ reading'[m] = reading[m]
      BY <1>1, <2>1, <2>3 DEF Disconnect
    <3> QED
      BY <2>1, <3>1 DEF FollowedOn, TurnFollowed, SameParts
  <2> QED
    BY <2>2, <2>3
<1>5. FromLog' /\ SteadyOK'
  BY <1>1, <1>2, <1>3, <1>4, QuietLive DEF LiveInv, SteadyOK
<1>6. PayloadsStored'
  BY <1>1, <1>2, PayloadsKept DEF LiveInv
<1> QED
  BY <1>5, <1>6 DEF LiveSide

(* A request for a turn is sent.                                           *)
LEMMA StreamTurnLive ==
  ASSUME PanelInv, LiveInv, NEW c, NEW next, NEW prompt, StreamTurn(c, next, prompt),
         SameItems(view, view'), UNCHANGED mixed,
         \A call \in calls' : call \in calls \/ call.payload.events = {}
  PROVE  LiveSide'
<1>1. PICK n \in Slots :
        /\ Receive(n, c, next, prompt)
        /\ reading' = [reading EXCEPT ![n] = "open"]
        /\ steady' = IF view.conv = c /\ ~mixed THEN steady \cup {n} ELSE steady
  BY DEF StreamTurn
<1> DEFINE new == [Idle EXCEPT !.pc = "prepare", !.conv = c, !.req = next, !.prompt = prompt]
<1>2. /\ turns' = [turns EXCEPT ![n] = new] /\ turns[n].pc = "idle" /\ UNCHANGED log
      /\ turns \in [Slots -> TurnRecords] /\ reading \in [Slots -> {"no", "open", "terminal"}]
  BY <1>1 DEF Receive, Unused, PanelInv, ServerInv, TurnsTyped, StreamsOK
<1>3. Fresh(new) /\ new.conv = c
  BY DEF Fresh, Idle, NoTurn
<1> HIDE DEF new
<1>4. turns'[n] = new /\ reading'[n] = "open"
      /\ \A m \in Slots : m # n => turns'[m] = turns[m] /\ reading'[m] = reading[m]
  BY <1>1, <1>2
<1>5. LogGrows /\ SameShown
  BY <1>2, LogStays DEF SameShown, SameItems
<1>6. n \notin steady
  BY <1>2 DEF LiveInv, SteadyOK, TurnFollowed
<1>7. \A m \in steady : FollowedOn(m)
  BY <1>4, <1>6 DEF LiveInv, SteadyOK, TurnFollowed, FollowedOn, SameParts
<1>8. view.conv = c /\ ~mixed => FollowedAfresh(n)
  BY <1>3, <1>4 DEF FollowedAfresh
<1>9. steady' \subseteq Slots /\ \A m \in steady' : FollowedOn(m) \/ FollowedAfresh(m)
  BY <1>1, <1>7, <1>8 DEF LiveInv, SteadyOK
<1>10. FromLog' /\ SteadyOK'
  BY <1>5, <1>9, QuietLive DEF LiveInv
<1>11. PayloadsStored'
  BY <1>5, PayloadsKept DEF LiveInv
<1> QED
  BY <1>10, <1>11 DEF LiveSide

LEMMA SendLive ==
  ASSUME PanelInv, LiveInv, Send
  PROVE  LiveSide'
<1>1. SameItems(view, view')
  BY ViewItemsKept DEF PanelInv, ClientInv, Send
<1>2. StreamTurn(view.conv, view.next, view.composer) /\ UNCHANGED <<mixed, calls>>
  BY DEF Send
<1> QED
  BY <1>1, <1>2, StreamTurnLive

LEMMA ReceiveListLive ==
  ASSUME PanelInv, LiveInv, ReceiveList
  PROVE  LiveSide'
<1>1. view \in Views /\ UNCHANGED mixed
  BY DEF PanelInv, ClientInv, ReceiveList
<1>2. \A restoring \in BOOLEAN : /\ AfterList(restoring) \in Views
                                 /\ SameItems(view, AfterList(restoring))
  <2>1. LoadingStarted(view) \in Views /\ SameItems(view, LoadingStarted(view))
    BY <1>1, ViewChanges, ViewItemsKept
  <2>2. /\ LoadingFinished(LoadingStarted(view)) \in Views
        /\ SameItems(LoadingStarted(view), LoadingFinished(LoadingStarted(view)))
    BY <2>1, ViewChanges, ViewItemsKept
  <2>3. LoadingFinished(view) \in Views /\ SameItems(view, LoadingFinished(view))
    BY <1>1, ViewChanges, ViewItemsKept
  <2> QED
    BY <1>1, <2>1, <2>2, <2>3 DEF AfterList, SameItems
<1>3. PICK restoring \in BOOLEAN : SendsGoOn(AfterList(restoring))
  BY DEF ReceiveList
<1> DEFINE shown == AfterList(restoring)
<1>4. shown \in Views /\ SameItems(view, shown) /\ SendsGoOn(shown)
  BY <1>2, <1>3
<1> HIDE DEF shown
<1>5. SameItems(view, view')
  <2>1. view' = shown \/ view' = ErrorMessageSet(shown, FALSE)
    BY <1>4 DEF SendsGoOn
  <2>2. SameItems(shown, ErrorMessageSet(shown, FALSE))
    BY <1>4, ViewItemsKept
  <2> QED
    BY <1>4, <2>1, <2>2 DEF SameItems
<1>6. \A call \in calls' : call \in calls \/ call.payload.events = {}
  <2>1. CASE UNCHANGED calls
    BY <2>1
  <2>2. CASE \E c \in Active : calls' = calls \cup {Call("load", c, "")}
    <3>1. PICK c, arg : calls' = calls \cup {Call("load", c, arg)}
      BY <2>2, Zenon
    <3> DEFINE new == Call("load", c, arg)
    <3>2. new.payload.events = {}
      BY SentBringsNothing
    <3> HIDE DEF new
    <3>3. calls' = calls \cup {new}
      BY <3>1 DEF new
    <3> QED
      BY <3>2, <3>3
  <2> QED
    BY <2>1, <2>2, Zenon DEF ReceiveList
<1>7. \/ UNCHANGED <<log, turns, reading, steady>>
      \/ StreamTurn(ensuring.conv, 2, shown.composer)
  BY <1>4 DEF SendsGoOn, serverVars
<1>8. CASE UNCHANGED <<log, turns, reading, steady>>
  BY <1>1, <1>5, <1>6, <1>8, IdleLive
<1>9. CASE StreamTurn(ensuring.conv, 2, shown.composer)
  BY <1>1, <1>5, <1>6, <1>9, StreamTurnLive
<1> QED
  BY <1>7, <1>8, <1>9

LEMMA KeptItemsSame ==
  ASSUME NEW v \in Views, NEW p \in Payloads, KeepsItems(v, p)
  PROVE  SameItems(v, ConversationLoaded(v, p))
<1>1. v \in ViewRecords
  BY DEF Views
<1>2. ConversationLoaded(v, p) = [v EXCEPT !.archived = p.archived, !.next = p.next]
  BY DEF ConversationLoaded
<1> QED
  BY <1>1, <1>2 DEF SameItems, ViewRecords, Payloads

(* The view shows what an answer brings: what it showed, or a replay.      *)
LEMMA LoadedLive ==
  ASSUME PanelInv, LiveInv, NEW call \in calls, call.stage = "answered",
         Shows(call.payload), SameItems(ConversationLoaded(view, call.payload), view'),
         calls' = calls \ {call}, UNCHANGED <<log, turns, reading>>
  PROVE  LiveSide'
<1> DEFINE p == call.payload
<1>1. p \in Payloads /\ view \in Views
      /\ \A e \in p.events : p.conv \in Conversations /\ e \in log[p.conv]
  BY DEF PanelInv, ClientInv, CallsOK, CallOK, LiveInv, PayloadsStored
<1> HIDE DEF p
<1>2. CASE KeepsItems(view, p)
  <2>1. SameItems(view, ConversationLoaded(view, p))
    BY <1>1, <1>2, KeptItemsSame
  <2>2. SameItems(view, view')
    BY <2>1 DEF SameItems, p
  <2>3. (mixed' <=> mixed) /\ steady' = steady
    BY <1>2 DEF Shows, p
  <2> QED
    BY <2>2, <2>3, IdleLive
<1>3. CASE ~KeepsItems(view, p)
  <2>1. view'.items = ReplayConversation(p).items /\ view'.conv = ReplayConversation(p).conv
    BY <1>3 DEF ConversationLoaded, SameItems, p
  <2>2. \A e \in p.events : e.conv = p.conv
    BY <1>1 DEF PanelInv, ServerInv, LogsOK
  <2>3. /\ ReplayConversation(p).conv = p.conv
        /\ \A turn \in Nat : Mentions(ReplayConversation(p).items, turn) =>
             \E e \in p.events : e.turn = turn
    BY <1>1, <2>2, ReplayMentions
  <2>4. FromLog'
    <3> SUFFICES ASSUME NEW turn \in Nat, Mentions(view'.items, turn)
                 PROVE  view'.conv \in Conversations /\ \E e \in log[view'.conv] : e.turn = turn
      BY DEF FromLog, Mentions, At
    <3>1. PICK e \in p.events : e.turn = turn
      BY <2>1, <2>3
    <3> QED
      BY <1>1, <2>1, <2>3, <3>1
  <2>5. SteadyOK'
    BY <1>3 DEF Shows, SteadyOK, p
  <2>6. PayloadsStored'
    BY DEF LiveInv, PayloadsStored
  <2> QED
    BY <2>4, <2>5, <2>6 DEF LiveSide
<1> QED
  BY <1>2, <1>3

LEMMA ReceiveAnswerLive ==
  ASSUME PanelInv, LiveInv, NEW call \in calls, ReceiveAnswer(call)
  PROVE  LiveSide'
<1>1. /\ calls' = calls \ {call} /\ UNCHANGED <<log, turns, reading>>
      /\ view \in Views /\ CallOK(call)
  BY DEF ReceiveAnswer, serverVars, PanelInv, ClientInv, CallsOK
<1> DEFINE loaded == ConversationLoaded(view, call.payload)
<1>2. SameItems(loaded, loaded) /\ SameItems(loaded, LoadingFinished(loaded))
  <2>1. loaded \in Views
    BY <1>1, LoadedKeeps DEF CallOK
  <2> HIDE DEF loaded
  <2> QED
    BY <2>1, ViewItemsKept DEF SameItems
<1>3. SameItems(view, view) /\ SameItems(view, ErrorMessageSet(view, TRUE))
  BY <1>1, ViewItemsKept DEF SameItems
<1>4. \/ call.stage = "answered" /\ Shows(call.payload) /\ SameItems(loaded, view')
      \/ SameItems(view, view') /\ UNCHANGED <<mixed, steady>>
  <2> HIDE DEF loaded
  <2>1. CASE ReceiveLoad(call)
    BY <1>2, <1>3, <2>1 DEF ReceiveLoad, loaded
  <2>2. CASE ReceiveUpdate(call)
    BY <1>2, <1>3, <2>2 DEF ReceiveUpdate, loaded
  <2>3. CASE ReceiveCreate(call)
    BY <1>2, <1>3, <2>3 DEF ReceiveCreate, loaded
  <2>4. CASE ReceiveInterrupt(call)
    BY <1>3, <2>4 DEF ReceiveInterrupt
  <2> QED
    BY <2>1, <2>2, <2>3, <2>4 DEF ReceiveAnswer
<1>5. CASE call.stage = "answered" /\ Shows(call.payload) /\ SameItems(loaded, view')
  BY <1>1, <1>5, LoadedLive
<1>6. CASE SameItems(view, view') /\ UNCHANGED <<mixed, steady>>
  BY <1>1, <1>6, IdleLive
<1> QED
  BY <1>4, <1>5, <1>6

(* The server answers: with what it has stored by then.                    *)
LEMMA ConversationGrows ==
  ASSUME ServerInv, NEW c \in Conversations, NEW type \in ConversationTypes, NEW seq, NEW status,
         log' = [log EXCEPT ![c] = @ \cup {Event(c, seq, type, NoTurn, NoDraft, status)}]
  PROVE  LogGrows
<1> DEFINE e == Event(c, seq, type, NoTurn, NoDraft, status)
<1>1. e.turn = NoTurn /\ e.type = type
  BY DEF Event
<1>2. log \in [Conversations -> SUBSET Events] /\ log' = [log EXCEPT ![c] = @ \cup {e}]
  BY DEF ServerInv, LogsOK
<1> HIDE DEF e
<1> QED
  BY <1>1, <1>2 DEF LogGrows

LEMMA PerformGrows ==
  ASSUME ServerInv, NEW call, CallOK(call), NEW c \in Conversations, Perform(call, c)
  PROVE  LogGrows
<1>1. CASE call.op = "create"
  <2> DEFINE e == Event(c, 1, "conversation.loaded", NoTurn, NoDraft, "active")
  <2>1. log[c] = {} /\ log' = [log EXCEPT ![c] = {e}]
    BY <1>1 DEF Perform, CreateConversation, Exists
  <2> HIDE DEF e
  <2>2. log' = [log EXCEPT ![c] = @ \cup {e}]
    BY <2>1
  <2>3. log' = [log EXCEPT ![c] =
                  @ \cup {Event(c, 1, "conversation.loaded", NoTurn, NoDraft, "active")}]
    BY <2>2 DEF e
  <2>4. "conversation.loaded" \in ConversationTypes
    BY DEF ConversationTypes
  <2> QED
    BY <2>3, <2>4, ConversationGrows
<1>2. CASE call.op = "update"
  <2> DEFINE type == call.arg
             status == CASE type = "conversation.archived" -> "archived"
                         [] type = "conversation.unarchived" -> "active"
                         [] OTHER -> IF ArchivedIn(log[c]) THEN "archived" ELSE "active"
             next == NextSequence(log[c])
  <2>1. log' = [log EXCEPT ![c] = @ \cup {Event(c, next, type, NoTurn, NoDraft, status)}]
    BY <1>2 DEF Perform, UpdateConversation, ServerInv, LogsOK
  <2>2. type \in ConversationTypes
    BY <1>2 DEF CallOK
  <2> HIDE DEF type, status, next
  <2> QED
    BY <2>1, <2>2, ConversationGrows
<1>3. CASE call.op \notin {"create", "update"}
  <2>1. UNCHANGED log
    BY <1>3 DEF Perform, CallOK, InterruptTurn, turnVars
  <2> QED
    BY <2>1, LogStays
<1> QED
  BY <1>1, <1>2, <1>3

LEMMA PerformFollowed ==
  ASSUME PanelInv, LiveInv, NEW call, CallOK(call), NEW c, Perform(call, c), UNCHANGED reading
  PROVE  \A n \in steady : FollowedOn(n)
<1>1. CASE UNCHANGED turns
  BY <1>1 DEF LiveInv, SteadyOK, TurnFollowed, FollowedOn, SameParts
<1>2. CASE ~UNCHANGED turns
  <2>1. InterruptTurn(c, call.arg)
    BY <1>2 DEF Perform, CallOK, CreateConversation, UpdateConversation, turnVars
  <2> DEFINE k == interrupts[call.arg]
             new == [turns[k] EXCEPT !.stopped = TRUE]
  <2>2. /\ k \in Slots /\ turns[k] \in TurnRecords /\ turns \in [Slots -> TurnRecords]
        /\ turns' = [turns EXCEPT ![k] = new]
    BY <1>2, <2>1 DEF InterruptTurn, turnVars, PanelInv, ServerInv, RegistryOK, TurnsTyped
  <2>3. SameParts(turns[k], new) /\ new.conv = turns[k].conv /\ new.pc = turns[k].pc
    BY <2>2 DEF TurnRecords, SameParts
  <2> HIDE DEF new, k
  <2>4. turns'[k] = new /\ \A m \in Slots : m # k => turns'[m] = turns[m]
    BY <2>2
  <2> QED
    BY <2>3, <2>4 DEF LiveInv, SteadyOK, TurnFollowed, FollowedOn, SameParts
<1> QED
  BY <1>1, <1>2

LEMMA ServeLive ==
  ASSUME PanelInv, LiveInv, NEW call \in calls, Serve(call)
  PROVE  LiveSide'
<1>1. /\ UNCHANGED <<view, reading, mixed, steady>> /\ CallOK(call) /\ ServerInv
      /\ steady \subseteq Slots
  BY DEF Serve, PanelInv, ClientInv, CallsOK, LiveInv, SteadyOK
<1>2. SameShown
  BY <1>1 DEF SameShown
<1>3. ASSUME NEW c \in Conversations, Perform(call, c),
             calls' = (calls \ {call}) \cup {Answered(call, c)}
      PROVE  LiveSide'
  <2>1. LogGrows /\ \A n \in steady : FollowedOn(n)
    BY <1>1, <1>3, PerformGrows, PerformFollowed
  <2>2. FromLog' /\ SteadyOK'
    BY <1>1, <1>2, <2>1, QuietLive DEF LiveInv
  <2> DEFINE logged == log'[c]
             p == Replay(c, logged)
             new == Answered(call, c)
  <2>3. p.conv = c /\ p.events = logged
    BY DEF Replay
  <2> HIDE DEF p
  <2>4. new.payload = p
    <3>1. new = [call EXCEPT !.stage = "answered", !.conv = c, !.payload = p]
      BY DEF Answered, p
    <3> HIDE DEF new
    <3> QED
      BY <1>1, <3>1 DEF CallOK
  <2> HIDE DEF new
  <2>5. \A e \in new.payload.events :
          new.payload.conv \in Conversations /\ e \in log'[new.payload.conv]
    BY <2>3, <2>4
  <2>6. calls' = (calls \ {call}) \cup {new}
    BY <1>3 DEF new
  <2>7. PayloadsStored'
    BY <2>1, <2>5, <2>6, PayloadsKept DEF LiveInv
  <2> QED
    BY <2>2, <2>7 DEF LiveSide
<1>4. ASSUME calls' = (calls \ {call}) \cup {Failed(call)}, UNCHANGED <<log, turns>>
      PROVE  LiveSide'
  <2>1. LogGrows /\ steady' \subseteq Slots /\ \A n \in steady' : FollowedOn(n) \/ FollowedAfresh(n)
    BY <1>1, <1>4, LogStays, TurnsFollowedOn DEF LiveInv
  <2>2. FromLog' /\ SteadyOK'
    BY <1>2, <2>1, QuietLive DEF LiveInv
  <2> DEFINE new == Failed(call)
  <2>3. new.payload = call.payload
    BY <1>1 DEF Failed, CallOK
  <2> HIDE DEF new
  <2>4. calls' = (calls \ {call}) \cup {new}
    BY <1>4 DEF new
  <2>5. PayloadsStored'
    BY <1>4, <2>3, <2>4 DEF LiveInv, PayloadsStored
  <2> QED
    BY <2>2, <2>5 DEF LiveSide
<1> QED
  BY <1>3, <1>4 DEF Serve

LEMMA ServerStepLive ==
  ASSUME PanelInv, ServerInv', LiveInv, ServerStep, UNCHANGED clientVars
  PROVE  LiveSide'
<1>1. UNCHANGED <<view, calls, mixed, steady, reading>> /\ ServerInv /\ steady \subseteq Slots
  BY DEF clientVars, PanelInv, LiveInv, SteadyOK
<1>2. ASSUME NEW n \in Slots, TurnStep(n)
      PROVE  LiveSide'
  <2>1. PICK es, said : Tale(n, es, said)
    BY <1>1, <1>2, StepTale DEF TurnStep, TellsTale, LiveInv
  <2>2. FromLog' /\ SteadyOK'
    BY <1>1, <2>1, TaleLive DEF LiveInv
  <2>3. TaleMeans(n, es, said)
    BY <1>1, <2>1, TaleFacts DEF LiveInv
  <2>4. PayloadsStored'
    BY <1>1, <2>3 DEF LiveInv, PayloadsStored, TaleMeans
  <2> QED
    BY <2>2, <2>4 DEF LiveSide
<1>3. CASE Restart
  <2>1. LogGrows /\ SameShown
    BY <1>1, <1>3, LogStays DEF Restart, SameShown
  <2>2. ASSUME NEW n \in steady
        PROVE  FollowedOn(n)
    <3>1. n \in Slots /\ TurnFollowed(n) /\ turns[n] \in TurnRecords
      BY DEF LiveInv, SteadyOK, PanelInv, ServerInv, TurnsTyped
    <3>2. turns'[n] = turns[n] \/ turns'[n] = [turns[n] EXCEPT !.pc = "over"]
      BY <1>3, <3>1 DEF Restart
    <3>3. SameParts(turns[n], turns'[n]) /\ turns'[n].conv = turns[n].conv
          /\ turns'[n].pc # "idle"
      BY <3>1, <3>2 DEF TurnRecords, SameParts, TurnFollowed
    <3> QED
      BY <1>1, <3>3 DEF FollowedOn
  <2>3. FromLog' /\ SteadyOK'
    BY <1>1, <2>1, <2>2, QuietLive DEF LiveInv
  <2>4. PayloadsStored'
    BY <1>1, <2>1, PayloadsKept DEF LiveInv
  <2> QED
    BY <2>3, <2>4 DEF LiveSide
<1> QED
  BY <1>2, <1>3 DEF ServerStep

-----------------------------------------------------------------------------
(* What is followed stays true to the log from the first load on.          *)
LEMMA LiveInit == Init => LiveInv
<1> SUFFICES ASSUME Init
             PROVE  LiveInv
  OBVIOUS
<1>1. StoryInv
  BY StoryBegins DEF Init
<1>2. view.items = <<>> /\ calls = {} /\ steady = {}
  BY DEF Init, InitialView
<1>3. FromLog
  BY <1>2 DEF FromLog, Mentions, At
<1> QED
  BY <1>1, <1>2, <1>3 DEF LiveInv, PayloadsStored, SteadyOK

LEMMA LiveNext == PanelInv /\ LiveInv /\ [Next]_vars => LiveInv'
<1> SUFFICES ASSUME PanelInv, LiveInv, [Next]_vars
             PROVE  LiveInv'
  OBVIOUS
<1>1. ServerInv /\ ServerInv' /\ [AnyTurnsNext]_turnVars
  BY ServerSide, PanelAsksServer DEF PanelInv
<1>2. StoryInv'
  BY <1>1, StoryNext DEF LiveInv
<1>3. LiveSide'
  <2>1. CASE UNCHANGED vars
    BY <2>1, IdleLive DEF vars, SameItems
  <2>2. CASE ServerStep /\ UNCHANGED clientVars
    BY <1>1, <2>2, ServerStepLive
  <2>3. CASE Send
    BY <2>3, SendLive
  <2>4. CASE SendFirst
    BY <2>4, SendFirstLive
  <2>5. CASE Type
    BY <2>5, TypeLive
  <2>6. CASE \/ SelectConversation \/ StartNewConversation \/ RenameConversation
             \/ ArchiveConversation \/ Interrupt
    BY <2>6, ClicksLive
  <2>7. CASE Reload
    BY <2>7, ReloadLive
  <2>8. CASE ReceiveList
    BY <2>8, ReceiveListLive
  <2>9. CASE ListFails
    BY <2>9, ListFailsLive
  <2>10. CASE \E call \in calls : Serve(call) \/ LoseAnswer(call) \/ ReceiveAnswer(call)
    BY <2>10, ServeLive, LoseAnswerLive, ReceiveAnswerLive
  <2>11. CASE \E n \in Slots : ReadEvent(n)
    BY <2>11, ReadEventLive DEF LiveSide
  <2>12. CASE \E n \in Slots : EndOfStream(n) \/ LoseConnection(n)
    BY <2>12, EndOfStreamLive, LoseConnectionLive
  <2> QED
    BY <2>1, <2>2, <2>3, <2>4, <2>5, <2>6, <2>7, <2>8, <2>9, <2>10, <2>11, <2>12 DEF Next
<1> QED
  BY <1>2, <1>3 DEF LiveInv, LiveSide

LEMMA LiveAlwaysInv == Spec => [](PanelInv /\ LiveInv)
BY PanelInit, PanelNext, LiveInit, LiveNext, PTL DEF Spec

(* Two lists that tell the same of a turn show it with the same texts, and *)
(* alike once its reply has an end.                                        *)
LEMMA TellsAgree ==
  ASSUME NEW live, NEW stored, NEW id, NEW prompt, NEW told,
         Tells(live, id, told, prompt), Tells(stored, id, told, prompt)
  PROVE  /\ Texts(ItemsOf(live, id)) = Texts(ItemsOf(stored, id))
         /\ (\E e \in told : e.type \in FinishTypes) => ItemsOf(live, id) = ItemsOf(stored, id)
<1> DEFINE user == <<"user_message", id>>
           agent == <<"agent_message", id>>
<1>1. \A items : ItemsOf(items, id) = At(items, user) \cup At(items, agent)
  BY DEF ItemsOf, At
<1>2. At(live, user) = At(stored, user)
  BY DEF Tells, UserTold
<1>3. CASE ~HasTold(told, "turn.agent_message.delta")
  <2>1. At(live, agent) = At(stored, agent)
    BY <1>3 DEF Tells, AgentTold
  <2> QED
    BY <1>1, <1>2, <2>1
<1>4. CASE HasTold(told, "turn.agent_message.delta")
  <2> DEFINE text == Cardinality(DeltasOf(told))
             Reply(status) == Item("agent_message", id, text, status)
  <2>1. PICK s : AgentStatus(s, told) /\ At(live, agent) = {Reply(s)}
    BY <1>4 DEF Tells, AgentTold
  <2>2. PICK r : AgentStatus(r, told) /\ At(stored, agent) = {Reply(r)}
    BY <1>4 DEF Tells, AgentTold
  <2>3. ASSUME \E e \in told : e.type \in FinishTypes
        PROVE  s = r
    BY <2>1, <2>2, <2>3 DEF AgentStatus, HasTold, FinishTypes
  <2>4. \A status : Reply(status).id = agent /\ Reply(status).text = text
    BY DEF Item
  <2> HIDE DEF Reply, text
  <2>5. Texts(ItemsOf(live, id)) = Texts(At(live, user)) \cup {<<agent, text>>}
    BY <1>1, <2>1, <2>4 DEF Texts
  <2>6. Texts(ItemsOf(stored, id)) = Texts(At(live, user)) \cup {<<agent, text>>}
    BY <1>1, <1>2, <2>2, <2>4 DEF Texts
  <2> QED
    BY <1>1, <1>2, <2>1, <2>2, <2>3, <2>5, <2>6
<1> QED
  BY <1>3, <1>4

LEMMA LiveInvImplies == PanelInv /\ LiveInv => LiveIsReplay
<1> SUFFICES ASSUME PanelInv, LiveInv, NEW n \in Slots, Shown(n), view.conv = turns[n].conv
             PROVE  LET live == ItemsOf(view.items, turns[n].id)
                        stored == ItemsOf(FoldLeft(ApplyToView, InitialView,
                                                   InOrder(log[view.conv])).items, turns[n].id)
                    IN /\ Texts(live) = Texts(stored)
                       /\ Finished(n) => live = stored
  BY DEF LiveIsReplay
<1> DEFINE t == turns[n]
           S == log[t.conv]
           mine == {e \in S : e.turn = t.id}
           replay == FoldLeft(ApplyToView, InitialView, InOrder(S)).items
<1>1. /\ TurnFollowed(n) /\ TurnStory(t) /\ DeltasFirst /\ t \in TurnRecords
      /\ t.out = <<>> /\ reading[n] = "no" /\ ~t.broken /\ ~t.gone
  BY DEF LiveInv, SteadyOK, StoryInv, PanelInv, ServerInv, TurnsTyped, Shown
<1>2. Began(t) /\ Tells(view.items, t.id, Heard(t), t.prompt)
  BY <1>1 DEF TurnFollowed
<1>3. /\ t.conv \in Conversations /\ t.id \in Nat
      /\ \A e \in mine : e.type = "turn.user_message.accepted" => e.text = t.prompt
  BY <1>1, <1>2 DEF TurnStory, Speaker, Mine
<1>4. Heard(t) = mine
  BY <1>1 DEF Heard, Mine, Unread
<1>5. S \in SUBSET Events /\ IsFiniteSet(S) /\ NumbersDiffer(S)
  BY <1>3 DEF PanelInv, ServerInv, LogsOK, LogsFinite, NumbersDiffer
<1>6. \A e, f \in S : /\ e.turn = t.id /\ f.turn = t.id
                      /\ e.type = "turn.agent_message.delta" /\ f.type \in FinishTypes
                      => e.seq < f.seq
  BY <1>1, <1>3 DEF DeltasFirst
<1>7. InitialView \in Views /\ InitialView.items = <<>>
  BY InitialViewOK DEF InitialView
<1>8. Tells(replay, t.id, mine, t.prompt)
  <2> HIDE DEF t, S
  <2> QED
    BY <1>3, <1>5, <1>6, <1>7, ReplayTells
<1>9. Finished(n) => \E e \in mine : e.type \in FinishTypes
  BY DEF Finished
<1> HIDE DEF mine, replay, t, S
<1>10. /\ Texts(ItemsOf(view.items, t.id)) = Texts(ItemsOf(replay, t.id))
       /\ (\E e \in mine : e.type \in FinishTypes) =>
            ItemsOf(view.items, t.id) = ItemsOf(replay, t.id)
  BY <1>2, <1>4, <1>8, TellsAgree
<1>11. S = log[view.conv]
  BY DEF S, t
<1> QED
  BY <1>9, <1>10, <1>11 DEF replay, t

(* With any number of conversations, turns, streams and failures: a reply  *)
(* that the provider has read to its end on the timeline it began on shows *)
(* what a reload of the conversation shows, the same message and as many   *)
(* deltas, and the same end once the turn has stored one.  The reducer     *)
(* merges the deltas of one turn in their order whatever else it is told.  *)
THEOREM LiveAlwaysReplay == Spec => []LiveIsReplay
BY LiveAlwaysInv, LiveInvImplies, PTL

(* The promises of the server hold beside the panel, whatever numbers its  *)
(* requests name: one outcome for a turn, no delta after what finished its *)
(* reply, no entry of the registry for a turn that is over.                *)
THEOREM ServerPromisesKept ==
  Spec => [](ServerTypeOK /\ OneOutcome /\ DeltasFirst /\ RegistryFollowsTurns)
<1>1. PanelInv => ServerTypeOK /\ OneOutcome /\ RegistryFollowsTurns
  BY InvImplies DEF PanelInv
<1>2. LiveInv => DeltasFirst
  BY DEF LiveInv, StoryInv
<1> QED
  BY <1>1, <1>2, LiveAlwaysInv, PTL
=============================================================================
