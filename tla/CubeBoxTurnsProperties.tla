----------------------- MODULE CubeBoxTurnsProperties -----------------------
(***************************************************************************)
(* What the turns of the CubeBox server promise, whoever the clients are.  *)
(***************************************************************************)
EXTENDS CubeBoxTurns

EventTypes == ConversationTypes \cup
  {"turn.started", "turn.user_message.accepted", "turn.agent_message.delta",
   "turn.agent_message.completed", "turn.query_entity.confirmed", "turn.error",
   "turn.interrupted", "turn.completed"}

PCs == {"idle", "prepare", "start", "accept", "talk", "recv", "answer", "interrupt",
        "closeInterrupted", "complete", "close", "finish", "over"}

Events == [conv : Conversations, seq : Nat \ {0}, type : EventTypes, turn : Nat,
           text : Nat, status : {"", "active", "archived", "failed", "completed",
                                 "interrupted"}]

TurnRecords == [pc : PCs, conv : Conversations \cup {NoConversation}, req : Nat, seq : Nat,
                id : Nat, prompt : Nat, flow : {"provider", "query"}, deltas : Nat,
                stopped : BOOLEAN, gone : BOOLEAN, broken : BOOLEAN, out : Seq(Events)]

(* The logs, the turns and the registry have their shape, and the numbers  *)
(* of a log are distinct.                                                  *)
ServerTypeOK ==
  /\ log \in [Conversations -> SUBSET Events]
  /\ turns \in [Slots -> TurnRecords]
  /\ \A i \in DOMAIN interrupts : i \in Nat /\ interrupts[i] \in Slots
  /\ \A c \in Conversations : \A e, f \in log[c] :
       e.conv = c /\ (e.seq = f.seq => e = f)

(* However many streams write to a conversation and whichever appends      *)
(* fail, a stored turn begins under its own number and nothing of it is    *)
(* stored after its completion: gateway.go and cubebox_query_flow.go       *)
(* number their events alone, only the unique index keeps them apart.      *)
OneOutcome ==
  \A c \in Conversations : \A e \in log[c] :
    e.turn # NoTurn =>
      /\ e.turn <= e.seq
      /\ \E f \in log[c] : f.seq = e.turn /\ f.turn = e.turn
      /\ e.type = "turn.completed" =>
           \A f \in log[c] : f.turn = e.turn => f.seq <= e.seq

(* What finishes a reply comes after all of it: no delta of a turn is      *)
(* stored under a higher number than its turn.agent_message.completed or   *)
(* its turn.interrupted.  A chunk that was on its way, a failing stream    *)
(* and another turn that was given the same id might all add one.          *)
FinishTypes == {"turn.agent_message.completed", "turn.interrupted"}

DeltasFirst ==
  \A c \in Conversations : \A e, f \in log[c] :
    e.turn = f.turn /\ e.type = "turn.agent_message.delta" /\ f.type \in FinishTypes
      => e.seq < f.seq

(* The registry forgets every turn that is over: however a turn ends, its  *)
(* FinishTurn runs, and an entry that another turn has overwritten or      *)
(* removed (turn_seq_N of another conversation) leaves nothing behind.     *)
RegistryFollowsTurns ==
  \A i \in DOMAIN interrupts :
    Running(interrupts[i]) /\ turns[interrupts[i]].id = i

(* Every turn that was asked for comes to its end, whatever fails and      *)
(* whoever stops it or goes away: no path of StreamTurn or TryHandle waits.*)
TurnEnds == \A n \in Slots : Running(n) ~> turns[n].pc = "over"
=============================================================================
