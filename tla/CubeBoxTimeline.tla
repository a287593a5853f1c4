-------------------------- MODULE CubeBoxTimeline --------------------------
(***************************************************************************)
(* The conversation view of the CubeBox panel: what cubeboxReducer makes   *)
(* of a canonical event, and how a stored conversation is replayed.        *)
(*                                                                         *)
(* A turn is known by the sequence number it was prepared with; the ids of *)
(* its messages carry the same number, so an item is known by its kind and *)
(* that number.  The text of a user message is the draft it was sent from, *)
(* the text of a reply is the number of deltas merged into it.             *)
(***************************************************************************)
EXTENDS Integers, Sequences, FiniteSets, SequencesExt

CONSTANT Conversations   \* conversation ids, numbered as they are created

ASSUME ConversationAssumption == Conversations \subseteq Nat \ {0}

NoConversation == 0
NoTurn == 0
NoDraft == 0

ConversationTypes == {"conversation.loaded", "conversation.renamed",
                      "conversation.archived", "conversation.unarchived"}

Event(c, seq, type, turn, text, status) ==
  [conv |-> c, seq |-> seq, type |-> type, turn |-> turn, text |-> text,
   status |-> status]

InitialView == [conv |-> NoConversation, archived |-> FALSE, items |-> <<>>,
                status |-> "idle", active |-> NoTurn, next |-> 1,
                composer |-> NoDraft, loading |-> FALSE, error |-> FALSE]

Item(kind, n, text, status) ==
  [id |-> <<kind, n>>, kind |-> kind, text |-> text, status |-> status]

(* Mutant of AppendOrReplaceItem: an item that is shown is shown again.    *)
AppendItem(items, item) == Append(items, item)

AppendOrReplaceItem(items, item) ==
  IF \E i \in DOMAIN items : items[i].id = item.id
  THEN [i \in DOMAIN items |-> IF items[i].id = item.id THEN item ELSE items[i]]
  ELSE Append(items, item)

MergeAgentDelta(items, turn) ==
  LET id == <<"agent_message", turn>> IN
  IF \E i \in DOMAIN items : items[i].id = id
  THEN [i \in DOMAIN items |->
          IF items[i].id = id
          THEN [items[i] EXCEPT !.text = @ + 1, !.status = "streaming"]
          ELSE items[i]]
  ELSE Append(items, Item("agent_message", turn, 1, "streaming"))

FinalizeItem(items, turn) ==
  [i \in DOMAIN items |-> IF items[i].id = <<"agent_message", turn>>
                          THEN [items[i] EXCEPT !.status = "completed"]
                          ELSE items[i]]

MarkStreaming(items, status) ==
  [i \in DOMAIN items |-> IF items[i].status = "streaming"
                          THEN [items[i] EXCEPT !.status = status]
                          ELSE items[i]]

NormalizeTurnStatus(status) ==
  CASE status = "failed" -> "error"
    [] status \in {"completed", "interrupted"} -> status
    [] OTHER -> "idle"

(* The event is applied to the view whatever conversation it comes from.   *)
ApplyToView(view, e) ==
  LET seen == [view EXCEPT !.next = IF e.seq >= @ THEN e.seq + 1 ELSE @] IN
  CASE e.type \in ConversationTypes ->
         [seen EXCEPT !.conv = e.conv, !.archived = e.status = "archived"]
    [] e.type = "turn.started" ->
         [seen EXCEPT !.active = e.turn, !.status = "streaming", !.error = FALSE]
    [] e.type = "turn.user_message.accepted" ->
         [seen EXCEPT !.items = AppendOrReplaceItem(@,
                        Item("user_message", e.turn, e.text, "completed")),
                      !.composer = NoDraft]
    [] e.type = "turn.agent_message.delta" ->
         [seen EXCEPT !.items = MergeAgentDelta(@, e.turn), !.status = "streaming"]
    [] e.type = "turn.agent_message.completed" ->
         [seen EXCEPT !.items = FinalizeItem(@, e.turn)]
    [] e.type = "turn.error" ->
         [seen EXCEPT !.active = NoTurn, !.status = "error", !.error = TRUE,
                      !.items = AppendOrReplaceItem(@,
                                  Item("error_item", e.seq, 0, "error"))]
    [] e.type = "turn.interrupted" ->
         [seen EXCEPT !.status = "interrupted",
                      !.items = MarkStreaming(@, "interrupted")]
    [] e.type = "turn.completed" ->
         [seen EXCEPT !.active = NoTurn, !.status = NormalizeTurnStatus(e.status)]
    [] OTHER -> seen

(***************************************************************************)
(* A stored conversation is replayed in sequence order on an empty view.   *)
(* A turn it shows as still streaming was cut off: nobody reads its stream.*)
(***************************************************************************)
LastSequence(events) ==
  IF events = {} THEN 0
  ELSE CHOOSE s \in {e.seq : e \in events} : \A e \in events : e.seq <= s

NextSequence(events) == 1 + LastSequence(events)

InOrder(events) ==
  [i \in 1..Cardinality(events) |->
     CHOOSE e \in events : Cardinality({f \in events : f.seq < e.seq}) = i - 1]

(* Mutant of NormalizeDangling: a turn that was cut off goes on.           *)
KeepDangling(view) == view

NormalizeDangling(view) ==
  IF view.status # "streaming" THEN view
  ELSE [view EXCEPT !.active = NoTurn, !.status = "error", !.error = TRUE,
                    !.items = MarkStreaming(@, "error")]

ArchivedIn(events) ==
  LET told == {e \in events : e.type \in ConversationTypes} IN
  told # {} /\ (CHOOSE e \in told : \A f \in told : f.seq <= e.seq).status = "archived"

(* ConversationReplayResponse: the conversation row, its events, the next. *)
Replay(c, events) ==
  [conv |-> c, archived |-> ArchivedIn(events), events |-> events,
   next |-> NextSequence(events)]

ReplayConversation(payload) ==
  NormalizeDangling(
    FoldLeft(ApplyToView,
             [InitialView EXCEPT !.conv = payload.conv,
                                 !.archived = payload.archived,
                                 !.next = payload.next],
             InOrder(payload.events)))

(* conversation_loaded: a view that already shows items of the conversation*)
(* keeps them and its composer.                                            *)
KeepsItems(view, payload) == view.conv = payload.conv /\ view.items # <<>>

(* Mutant of ConversationLoaded: what is shown is always replaced.         *)
ConversationReplayed(view, payload) == ReplayConversation(payload)

ConversationLoaded(view, payload) ==
  IF KeepsItems(view, payload)
  THEN [view EXCEPT !.archived = payload.archived, !.next = payload.next]
  ELSE ReplayConversation(payload)

LoadingStarted(view) == [view EXCEPT !.loading = TRUE, !.error = FALSE]
LoadingFinished(view) == [view EXCEPT !.loading = FALSE]
ComposerChanged(view, draft) == [view EXCEPT !.composer = draft]
ErrorMessageSet(view, failed) == [view EXCEPT !.error = failed, !.loading = FALSE]
StreamFailedLocally(view) ==
  [view EXCEPT !.active = NoTurn, !.error = TRUE, !.loading = FALSE,
               !.status = "error"]
=============================================================================
