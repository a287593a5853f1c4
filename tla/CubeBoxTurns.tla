---------------------------- MODULE CubeBoxTurns ----------------------------
(***************************************************************************)
(* The server side of CubeBox: the conversation logs, the turns that the   *)
(* gateway or the query flow streams, and the registry of interrupt        *)
(* channels of the runtime.                                                *)
(*                                                                         *)
(* A turn reads the log once, when it is prepared, and then numbers its    *)
(* events itself; a number another writer has taken makes the append fail. *)
(* What a turn writes to its stream is kept in out until the client reads  *)
(* it.                                                                     *)
(***************************************************************************)
EXTENDS CubeBoxTimeline

CONSTANTS Flows,        \* subset of {"provider", "query"}: who answers a turn
          Budget,       \* bound on the disturbances: a click or a further turn counts
                        \* 1, a turn in a conversation whose last one still runs and
                        \* a failure that nothing in the model causes count 2
          MaxTurns,     \* bound on the turns
          MaxDeltas,    \* the provider streams no more deltas once a turn has as many
          MaxUnread,    \* bound on the events of a stream not yet read
          Requests,     \* the sequence numbers and turn ids clients ask for
          Drafts        \* the prompts clients send

ASSUME FlowAssumption == Flows \subseteq {"provider", "query"}
ASSUME DraftAssumption == Drafts \subseteq Nat \ {NoDraft}
ASSUME RequestAssumption == Requests \subseteq Nat \ {0}
ASSUME TurnBounds == /\ MaxTurns \in Nat
                     /\ MaxDeltas \in Nat
                     /\ Budget \in Nat
                     /\ MaxUnread \in Nat

VARIABLES log,         \* the stored events of each conversation
          turns,       \* the turns, by the request they answer
          interrupts,  \* the registry: turn id -> the turn that owns the channel
          spent        \* disturbances so far

turnVars == <<log, turns, interrupts>>
serverVars == <<log, turns, interrupts, spent>>

Slots == 1..MaxTurns
Idle == [pc |-> "idle", conv |-> NoConversation, req |-> 0, seq |-> 0, id |-> NoTurn,
         prompt |-> NoDraft, flow |-> "provider", deltas |-> 0, stopped |-> FALSE,
         gone |-> FALSE, broken |-> FALSE, out |-> <<>>]

ServerInit == /\ log = [c \in Conversations |-> {}]
              /\ turns = [n \in Slots |-> Idle]
              /\ interrupts = [i \in {} |-> 0]
              /\ spent = 0

Spend(k) == spent + k <= Budget /\ spent' = spent + k
Fault == Spend(2)
NoFault == UNCHANGED spent

Running(n) == turns[n].pc \notin {"idle", "over"}
Unused(n) == turns[n].pc = "idle" /\ \A m \in 1..(n - 1) : turns[m].pc # "idle"

TurnCost(n, c) ==
  IF n = 1 THEN 0
  ELSE IF \E m \in Slots : Running(m) /\ turns[m].conv = c THEN 2
  ELSE 1

Exists(c) == log[c] # {}
(* Mutant of Free: the log has no unique index.                            *)
AlwaysFree(c, seq) == Exists(c)
Free(c, seq) == \A e \in log[c] : e.seq # seq

Register(id, n) == [i \in DOMAIN interrupts \cup {id} |->
                      IF i = id THEN n ELSE interrupts[i]]
Unregister(id) == [i \in DOMAIN interrupts \ {id} |-> interrupts[i]]

(* POST /turns:stream is sent.                                             *)
Receive(n, c, next, prompt) ==
  /\ Unused(n)
  /\ Exists(c)
  /\ turns' = [turns EXCEPT ![n] = [Idle EXCEPT !.pc = "prepare", !.conv = c,
                                               !.req = next, !.prompt = prompt]]
  /\ UNCHANGED <<log, interrupts>>

(* PrepareTurnStream and StartTurnWithIDs, by the query flow if it can plan*)
(* the prompt and by the gateway otherwise.  The registry is keyed by the  *)
(* turn id alone.                                                          *)
Prepare(n) ==
  LET t == turns[n]
      last == IF t.req > 1 THEN NextSequence(log[t.conv]) ELSE 1
      seq == IF last > t.req THEN last ELSE t.req
  IN /\ t.pc = "prepare"
     /\ \E flow \in Flows :
          turns' = [turns EXCEPT ![n].pc = "start", ![n].seq = seq, ![n].id = seq,
                                 ![n].flow = flow]
     /\ interrupts' = Register(seq, n)
     /\ UNCHANGED <<log, spent>>

(***************************************************************************)
(* Writing.  The number is spent whether or not the append succeeds.  A    *)
(* failed append is told to the client by a turn.error that is not stored. *)
(***************************************************************************)
TurnEvent(n, seq, type, status) ==
  Event(turns[n].conv, seq, type, turns[n].id,
        IF type = "turn.user_message.accepted" THEN turns[n].prompt ELSE NoDraft,
        status)

Say(n, es) == IF turns[n].gone THEN turns[n].out ELSE turns[n].out \o es

(* Why an append fails: its number is taken, the client has gone and the   *)
(* request's context is cancelled, or something else.                      *)
Taken(n, seqs) == \E s \in seqs : ~Free(turns[n].conv, s)

Stored(n, type, status, then) ==
  LET t == turns[n]
      e == TurnEvent(n, t.seq, type, status) IN
  /\ Free(t.conv, t.seq)
  /\ NoFault
  /\ log' = [log EXCEPT ![t.conv] = @ \cup {e}]
  /\ turns' = [turns EXCEPT ![n].seq = @ + 1, ![n].pc = then,
                            ![n].deltas = IF type = "turn.agent_message.delta"
                                          THEN @ + 1 ELSE @,
                            ![n].out = Say(n, <<e>>)]

Refused(n, then) ==
  LET t == turns[n] IN
  /\ \/ (Taken(n, {t.seq}) \/ t.gone) /\ NoFault
     \/ Fault
  /\ turns' = [turns EXCEPT ![n].seq = @ + 1, ![n].pc = then, ![n].broken = TRUE,
                            ![n].out = Say(n, <<TurnEvent(n, t.seq, "turn.error", "")>>)]
  /\ UNCHANGED log

(* A step that stops the turn when the write fails or the client has gone. *)
WriteOrStop(n, type, status, then) ==
  /\ \/ Stored(n, type, status, IF turns[n].gone THEN "finish" ELSE then)
     \/ Refused(n, "finish")
  /\ UNCHANGED interrupts

(* The last writes of a turn: their result is ignored.                     *)
WriteAnyway(n, type, status, then) ==
  /\ Stored(n, type, status, then) \/ Refused(n, then)
  /\ UNCHANGED interrupts

Start(n) == /\ turns[n].pc = "start"
            /\ WriteOrStop(n, "turn.started", "", "accept")
Accept(n) == /\ turns[n].pc = "accept"
             /\ WriteOrStop(n, "turn.user_message.accepted", "", "talk")

(* The terminal error: turn.error and turn.completed(failed) in one        *)
(* transaction.  The gateway detaches it from the request's context, the   *)
(* query flow does not.  What failed the turn may fail the append as well. *)
FailTurn(n, id, seq, then) ==
  LET t == turns[n]
      err == Event(t.conv, seq, "turn.error", id, NoDraft, "")
      done == Event(t.conv, seq + 1, "turn.completed", id, NoDraft, "failed")
      ended == [turns EXCEPT ![n].pc = then, ![n].id = id, ![n].seq = seq + 2]
  IN /\ \/ /\ ~Taken(n, {seq, seq + 1})
           /\ log' = [log EXCEPT ![t.conv] = @ \cup {err, done}]
           /\ turns' = [ended EXCEPT ![n].out = Say(n, <<err, done>>)]
        \/ /\ \/ Taken(n, {seq, seq + 1})
              \/ (t.gone /\ t.flow = "query")
              \/ spent' # spent
           /\ turns' = [ended EXCEPT ![n].broken = TRUE, ![n].out = Say(n, <<err>>)]
           /\ UNCHANGED log
     /\ UNCHANGED interrupts

(* A failure: of something the model leaves out, or that the client left.  *)
SomethingFails(n) == Fault \/ (turns[n].gone /\ NoFault)

(* The prompt view cannot be read: the gateway fails the turn under the    *)
(* number the client asked for, without registering it.                    *)
PrepareFails(n) ==
  /\ turns[n].pc = "prepare"
  /\ turns[n].req > 1
  /\ SomethingFails(n)
  /\ FailTurn(n, turns[n].req, turns[n].req, "over")

(***************************************************************************)
(* The provider stream.  The interrupt channel is looked at between two    *)
(* chunks and when the stream fails; a chunk that was on its way is still  *)
(* written.                                                                *)
(***************************************************************************)
Goto(n, pc) == /\ turns' = [turns EXCEPT ![n].pc = pc]
               /\ UNCHANGED <<log, interrupts, spent>>

(* Mutant of LookAtInterrupt: a stopped turn looks again.                  *)
WaitOnInterrupt(n) ==
  /\ turns[n].flow = "provider"
  /\ turns[n].pc = "talk"
  /\ Goto(n, IF turns[n].stopped THEN "talk" ELSE "recv")

LookAtInterrupt(n) ==
  /\ turns[n].flow = "provider"
  /\ turns[n].pc = "talk"
  /\ Goto(n, IF turns[n].stopped THEN "interrupt" ELSE "recv")

Chunk(n) == /\ turns[n].pc = "recv"
            /\ \A m \in Slots : turns[m].deltas < MaxDeltas
            /\ WriteOrStop(n, "turn.agent_message.delta", "", "talk")

StreamDone(n) == /\ turns[n].pc = "recv"
                 /\ Goto(n, "complete")

(* Mutant of RecvFails: the error path goes on to complete the turn.       *)
RecvFailsAndGoesOn(n) ==
  /\ turns[n].pc = "recv"
  /\ IF turns[n].stopped THEN Goto(n, "interrupt")
     ELSE SomethingFails(n) /\ FailTurn(n, turns[n].id, turns[n].seq, "complete")

RecvFails(n) ==
  /\ turns[n].pc = "recv"
  /\ IF turns[n].stopped THEN Goto(n, "interrupt")
     ELSE SomethingFails(n) /\ FailTurn(n, turns[n].id, turns[n].seq, "finish")

(* A configuration error, a provider that refuses, a query that fails.     *)
ReplyFails(n) == /\ turns[n].pc = "talk"
                 /\ turns[n].deltas = 0
                 /\ SomethingFails(n)
                 /\ FailTurn(n, turns[n].id, turns[n].seq, "finish")

(***************************************************************************)
(* The query flow.  It records what it found as metadata that is not       *)
(* streamed and whose failure is ignored (its two metadata events are one  *)
(* here), then answers in one delta.  It never looks at the interrupt      *)
(* channel.                                                                *)
(***************************************************************************)
QueryDone(n) ==
  /\ turns[n].flow = "query"
  /\ turns[n].pc = "talk"
  /\ LET t == turns[n] IN
     \/ /\ Free(t.conv, t.seq)
        /\ log' = [log EXCEPT ![t.conv] =
                     @ \cup {TurnEvent(n, t.seq, "turn.query_entity.confirmed", "")}]
        /\ turns' = [turns EXCEPT ![n].seq = @ + 1, ![n].pc = "answer"]
        /\ UNCHANGED <<interrupts, spent>>
     \/ Goto(n, "answer")

Answer(n) == /\ turns[n].pc = "answer"
             /\ WriteOrStop(n, "turn.agent_message.delta", "", "complete")

(* The ends of a turn.                                                     *)
CompleteMessage(n) ==
  /\ turns[n].pc = "complete"
  /\ WriteAnyway(n, "turn.agent_message.completed", "", "close")
CompleteTurn(n) == /\ turns[n].pc = "close"
                   /\ WriteAnyway(n, "turn.completed", "completed", "finish")
Interrupted(n) == /\ turns[n].pc = "interrupt"
                  /\ WriteAnyway(n, "turn.interrupted", "", "closeInterrupted")

(* Mutant of CompleteInterrupted: the loop is not left.                    *)
CompleteInterruptedAndReadOn(n) ==
  /\ turns[n].pc = "closeInterrupted"
  /\ WriteAnyway(n, "turn.completed", "interrupted", "recv")

CompleteInterrupted(n) ==
  /\ turns[n].pc = "closeInterrupted"
  /\ WriteAnyway(n, "turn.completed", "interrupted", "finish")

(* Mutant of FinishTurn: the entry stays.                                  *)
FinishKeepsEntry(n) ==
  /\ turns[n].pc = "finish"
  /\ turns' = [turns EXCEPT ![n].pc = "over"]
  /\ UNCHANGED <<log, interrupts, spent>>

(* FinishTurn, deferred: it removes the entry whoever owns it now.         *)
FinishTurn(n) ==
  /\ turns[n].pc = "finish"
  /\ turns' = [turns EXCEPT ![n].pc = "over"]
  /\ interrupts' = Unregister(turns[n].id)
  /\ UNCHANGED <<log, spent>>

Step(n) ==
  \/ Prepare(n) \/ PrepareFails(n)
  \/ Start(n) \/ Accept(n)
  \/ LookAtInterrupt(n) \/ Chunk(n) \/ StreamDone(n) \/ RecvFails(n)
  \/ ReplyFails(n) \/ QueryDone(n) \/ Answer(n)
  \/ CompleteMessage(n) \/ CompleteTurn(n)
  \/ Interrupted(n) \/ CompleteInterrupted(n)
  \/ FinishTurn(n)

TurnStep(n) == Len(turns[n].out) <= MaxUnread /\ Step(n)

(* The server process stops: its turns end where they are.  What they wrote*)
(* to the network may still arrive.                                        *)
Restart ==
  /\ \E n \in Slots : Running(n)
  /\ Fault
  /\ turns' = [n \in Slots |-> IF Running(n) THEN [turns[n] EXCEPT !.pc = "over"]
                                            ELSE turns[n]]
  /\ interrupts' = [i \in {} |-> 0]
  /\ UNCHANGED log

(***************************************************************************)
(* The other requests.  Creating a conversation, renaming or archiving it  *)
(* write one event; stopping a turn answers whether it was found.          *)
(***************************************************************************)
CreateConversation(c) ==
  /\ ~Exists(c) /\ \A d \in Conversations : d < c => Exists(d)
  /\ log' = [log EXCEPT ![c] =
               {Event(c, 1, "conversation.loaded", NoTurn, NoDraft, "active")}]
  /\ UNCHANGED <<turns, interrupts>>

UpdateConversation(c, type) ==
  /\ Exists(c)
  /\ LET status == CASE type = "conversation.archived" -> "archived"
                     [] type = "conversation.unarchived" -> "active"
                     [] OTHER -> IF ArchivedIn(log[c]) THEN "archived" ELSE "active"
     IN log' = [log EXCEPT ![c] = @ \cup
                  {Event(c, NextSequence(@), type, NoTurn, NoDraft, status)}]
  /\ UNCHANGED <<turns, interrupts>>

InterruptTurn(c, id) ==
  IF id \in DOMAIN interrupts /\ turns[interrupts[id]].conv = c
  THEN /\ turns' = [turns EXCEPT ![interrupts[id]].stopped = TRUE]
       /\ interrupts' = Unregister(id)
       /\ UNCHANGED log
  ELSE UNCHANGED turnVars

(* The network takes an event from a stream, or clients go away.           *)
Deliver(n) == /\ turns[n].out # <<>>
              /\ turns' = [turns EXCEPT ![n].out = Tail(@)]
              /\ UNCHANGED <<log, interrupts>>

Disconnect(dropped) ==
  /\ turns' = [n \in Slots |-> IF n \in dropped
                                THEN [turns[n] EXCEPT !.gone = TRUE, !.out = <<>>]
                                ELSE turns[n]]
  /\ UNCHANGED <<log, interrupts>>

(***************************************************************************)
(* The server with any clients: CubeBox is one of them.                    *)
(***************************************************************************)
ServerStep == Restart \/ \E n \in Slots : TurnStep(n)

ClientStep ==
  \/ \E n \in Slots : Deliver(n)
  \/ \E c \in Conversations :
       \/ CreateConversation(c)
       \/ \E n \in Slots, next \in Requests, prompt \in Drafts :
            Receive(n, c, next, prompt)
       \/ \E id \in Requests : InterruptTurn(c, id)
       \/ \E type \in ConversationTypes : UpdateConversation(c, type)
  \/ \E dropped \in SUBSET Slots : Disconnect(dropped)

TurnsNext == ServerStep \/ ClientStep
TurnsSpec == ServerInit /\ [][TurnsNext]_turnVars
=============================================================================
