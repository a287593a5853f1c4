--------------------------- MODULE MCCubeBoxTurns ---------------------------
(* The server of CubeBox with any clients, on small instances.             *)
EXTENDS CubeBoxTurnsProperties

TwoConversations == 1..2

(* By symmetry the first turn is one of the first conversation.            *)
Ask == \E n \in Slots, c \in Conversations, next \in Requests, prompt \in Drafts :
         /\ n = 1 => c = 1
         /\ \A d \in Conversations : Exists(d)
         /\ Spend(TurnCost(n, c))
         /\ Receive(n, c, next, prompt)

Click == /\ Spend(1)
         /\ \/ \E c \in Conversations :
                 \/ UpdateConversation(c, "conversation.renamed")
                 \/ \E id \in Requests : InterruptTurn(c, id)
            \/ \E n \in Slots : Running(n) /\ Disconnect({n})

(* The conversations are created before the first turn.                    *)
Unprompted ==
  /\ NoFault
  /\ \/ \E n \in Slots : Deliver(n)
     \/ turns[1].pc = "idle" /\ \E c \in Conversations : CreateConversation(c)

Next == ServerStep \/ Ask \/ Click \/ Unprompted

(* Go schedules the goroutine of a turn, the network takes what it wrote.  *)
Spec == /\ ServerInit /\ [][Next]_serverVars
        /\ \A n \in Slots : /\ WF_serverVars(TurnStep(n))
                            /\ WF_serverVars(Deliver(n) /\ NoFault)
=============================================================================
