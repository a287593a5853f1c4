-------------------------- MODULE CubeBoxProperties --------------------------
(***************************************************************************)
(* What a CubeBox conversation promises.                                   *)
(***************************************************************************)
EXTENDS CubeBox, CubeBoxTurnsProperties

(* The view shows each item once, under a turn status the panel can label, *)
(* and the requests under way are within their bound.                      *)
TypeOK ==
  /\ view.status \in {"idle", "streaming", "completed", "error", "interrupted"}
  /\ view.conv \in Conversations \cup {NoConversation}
  /\ \A i, j \in DOMAIN view.items : view.items[i].id = view.items[j].id => i = j
  /\ \A call \in calls : call.stage \in {"sent", "answered", "failed"}
  /\ ensuring.conv # NoConversation => ensuring.on

(* A panel that shows a turn as streaming is reading a stream that has     *)
(* still to tell it otherwise: replayConversation never restores a turn    *)
(* nobody streams, and every end of a stream takes the status away.        *)
StreamingIsRead ==
  view.status = "streaming" => \E n \in Slots : reading[n] # "no"

(* A reply read from its start to its end on one timeline shows what a     *)
(* reload of the conversation shows: the same message, the same number of  *)
(* deltas, and the same end once the turn has stored one.  A failed turn   *)
(* stores none: its reply is left streaming, and the interruption of any   *)
(* later turn marks it when it is read.  (A turn whose log write failed is *)
(* told so.)                                                               *)
ItemsOf(items, id) == {items[i] : i \in {j \in DOMAIN items :
                          items[j].id \in {<<"user_message", id>>, <<"agent_message", id>>}}}
Shown(n) == /\ n \in steady /\ turns[n].pc = "over" /\ turns[n].out = <<>>
            /\ reading[n] = "no"
            /\ ~turns[n].broken /\ ~turns[n].gone
Finished(n) == \E e \in log[turns[n].conv] : e.turn = turns[n].id /\ e.type \in FinishTypes
Texts(items) == {<<item.id, item.text>> : item \in items}

LiveIsReplay ==
  \A n \in Slots :
    Shown(n) /\ view.conv = turns[n].conv =>
      LET live == ItemsOf(view.items, turns[n].id)
          stored == ItemsOf(FoldLeft(ApplyToView, InitialView, InOrder(log[view.conv])).items,
                            turns[n].id)
      IN /\ Texts(live) = Texts(stored)
         /\ Finished(n) => live = stored
=============================================================================
