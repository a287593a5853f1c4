------------------------------ MODULE CubeBox ------------------------------
(***************************************************************************)
(* CubeBox: CubeBoxProvider and CubeBoxPanel in one browser tab, and the   *)
(* server they talk to.  Dispatching an action, rendering the new view and *)
(* updating the provider's refs are one step; every await ends one.        *)
(*                                                                         *)
(* A request is sent, served (or it fails; its answer may also get lost),  *)
(* and received; several may be under way and are answered in any order.   *)
(***************************************************************************)
EXTENDS CubeBoxTurns

CONSTANT MaxCalls   \* bound on the requests under way

ASSUME CallBound == MaxCalls \in Nat

VARIABLES view,      \* the reducer's state
          list,      \* the conversations of the history dialog and their archived flags
          listing,   \* who awaits the shared list request, {} when there is none
          calls,     \* the other requests under way
          ensuring,  \* the shared request for a first conversation
          reading,   \* the streams the provider reads
          mixed,     \* has the view taken an event of another conversation
          steady     \* the streams read to their end on the timeline they began on

clientVars == <<view, list, listing, calls, ensuring, reading, mixed, steady>>
vars == <<log, turns, interrupts, spent, view, list, listing, calls, ensuring,
          reading, mixed, steady>>

NotEnsuring == [on |-> FALSE, conv |-> NoConversation, sends |-> 0]
NoPayload == Replay(NoConversation, {})

(* refreshConversations: callers share the request that is under way.      *)
Refreshed(caller) == listing \cup {caller}

(* The provider mounts: it lists the conversations and restores the latest.*)
Mounted ==
  /\ view' = InitialView
  /\ list' = {}
  /\ listing' = {"restore"}
  /\ calls' = {}
  /\ ensuring' = NotEnsuring
  /\ reading' = [n \in Slots |-> "no"]
  /\ mixed' = FALSE
  /\ steady' = {}

Init ==
  /\ ServerInit
  /\ view = InitialView
  /\ list = {}
  /\ listing = {"restore"}
  /\ calls = {}
  /\ ensuring = NotEnsuring
  /\ reading = [n \in Slots |-> "no"]
  /\ mixed = FALSE
  /\ steady = {}

(* A rename, an archive or a reload is looked at apart from other clicks.  *)
Click == Spend(1)
RareClick == Spend(2)

HasRoom == Cardinality(calls) < MaxCalls

(* The ids are bounded: a conversation is only asked for while one is left.*)
CanCreate == /\ \E c \in Conversations : ~Exists(c)
             /\ \A call \in calls : call.op # "create"

Call(op, c, arg) ==
  [op |-> op, conv |-> c, arg |-> arg, stage |-> "sent", payload |-> NoPayload]

(***************************************************************************)
(* Sending.  The request names the conversation and the next sequence      *)
(* number the view knew; the composer is not cleared here.                 *)
(***************************************************************************)
ReadsNothing == \A n \in Slots : reading[n] = "no"

(* Mutant of StreamTurn: the next sequence is left out of the request.     *)
StreamUnnumbered(c, next, prompt) ==
  \E n \in Slots :
    /\ Spend(TurnCost(n, c))
    /\ Receive(n, c, 0, prompt)
    /\ reading' = [reading EXCEPT ![n] = "open"]
    /\ steady' = IF view.conv = c /\ ~mixed THEN steady \cup {n} ELSE steady

StreamTurn(c, next, prompt) ==
  \E n \in Slots :
    /\ Spend(TurnCost(n, c))
    /\ Receive(n, c, next, prompt)
    /\ reading' = [reading EXCEPT ![n] = "open"]
    /\ steady' = IF view.conv = c /\ ~mixed THEN steady \cup {n} ELSE steady

CanSend == ~view.loading /\ view.composer # NoDraft /\ view.status # "streaming"

Send ==
  /\ CanSend
  /\ view.conv # NoConversation
  /\ view' = ErrorMessageSet(view, FALSE)
  /\ StreamTurn(view.conv, view.next, view.composer)
  /\ UNCHANGED <<list, listing, calls, ensuring, mixed>>

(* Without a conversation one is created first; sends share that request.  *)
SendFirst ==
  /\ CanSend
  /\ view.conv = NoConversation
  /\ IF ensuring.on
     THEN /\ ensuring.sends < MaxTurns
          /\ ensuring' = [ensuring EXCEPT !.sends = @ + 1]
          /\ UNCHANGED <<view, calls>>
     ELSE /\ HasRoom /\ CanCreate
          /\ ensuring' = [NotEnsuring EXCEPT !.on = TRUE, !.sends = 1]
          /\ view' = LoadingStarted(view)
          /\ calls' = calls \cup {Call("create", NoConversation, "ensure")}
  /\ UNCHANGED <<serverVars, list, listing, reading, mixed, steady>>

(***************************************************************************)
(* The other things the user does.                                         *)
(***************************************************************************)
Type == /\ ~view.loading
        /\ \E d \in Drafts \ {view.composer} : view' = ComposerChanged(view, d)
        /\ UNCHANGED <<serverVars, list, listing, calls, ensuring, reading, mixed, steady>>

Listed == {item.conv : item \in list}

Request(call) == /\ IF call.op = "update" THEN RareClick ELSE Click
                 /\ HasRoom
                 /\ calls' = calls \cup {call}
                 /\ UNCHANGED <<log, turns, interrupts, list, listing, ensuring, reading, mixed, steady>>

SelectConversation ==
  \E c \in Listed : /\ view' = LoadingStarted(view)
                    /\ Request(Call("load", c, ""))

(* error_message_set also ends the loading that was just started.          *)
StartNewConversation ==
  /\ ~view.loading
  /\ view.status # "streaming"
  /\ CanCreate
  /\ view' = ErrorMessageSet(LoadingStarted(view), FALSE)
  /\ Request(Call("create", NoConversation, "new"))

RenameConversation ==
  \E c \in Listed : /\ Request(Call("update", c, "conversation.renamed"))
                    /\ UNCHANGED view

ArchiveConversation ==
  \E item \in list :
    /\ Request(Call("update", item.conv,
                    IF item.archived THEN "conversation.unarchived"
                                        ELSE "conversation.archived"))
    /\ UNCHANGED view

Interrupt ==
  /\ view.status = "streaming"
  /\ view.active # NoTurn
  /\ view.conv # NoConversation
  /\ Request(Call("interrupt", view.conv, view.active))
  /\ UNCHANGED view

(* The tab is reloaded: its requests and streams are dropped.              *)
Reload ==
  /\ ~ReadsNothing
  /\ RareClick
  /\ Mounted
  /\ Disconnect({n \in Slots : reading[n] # "no"})

(***************************************************************************)
(* Answers, where the server gives them.                                   *)
(***************************************************************************)
Answered(call, c) == [call EXCEPT !.stage = "answered", !.conv = c,
                                  !.payload = Replay(c, log'[c])]
Failed(call) == [call EXCEPT !.stage = "failed"]

(* The server does what is asked, on the conversation c.                   *)
Perform(call, c) ==
  CASE call.op = "create" -> CreateConversation(c)
    [] call.op = "load" -> c = call.conv /\ UNCHANGED turnVars
    [] call.op = "update" -> c = call.conv /\ UpdateConversation(c, call.arg)
    [] call.op = "interrupt" -> c = call.conv /\ InterruptTurn(c, call.arg)

(* A request may fail without a trace.                                     *)
Serve(call) ==
  /\ call.stage = "sent"
  /\ \/ \E c \in Conversations :
          /\ Perform(call, c)
          /\ NoFault
          /\ calls' = (calls \ {call}) \cup {Answered(call, c)}
     \/ /\ Fault
        /\ calls' = (calls \ {call}) \cup {Failed(call)}
        /\ UNCHANGED <<log, turns, interrupts>>
  /\ UNCHANGED <<view, list, listing, ensuring, reading, mixed, steady>>

(* The answer gets lost on its way.                                        *)
LoseAnswer(call) ==
  /\ call.stage = "answered"
  /\ Fault
  /\ calls' = (calls \ {call}) \cup {Failed(call)}
  /\ UNCHANGED <<log, turns, interrupts, view, list, listing, ensuring, reading, mixed, steady>>

(***************************************************************************)
(* Answers, where the provider gets them.                                  *)
(***************************************************************************)
Shows(payload) ==
  /\ mixed' = (mixed /\ KeepsItems(view, payload))
  /\ steady' = IF KeepsItems(view, payload) THEN steady ELSE {}

ReceiveLoad(call) ==
  /\ call.op = "load"
  /\ IF call.stage = "answered"
     THEN /\ view' = LoadingFinished(ConversationLoaded(view, call.payload))
          /\ Shows(call.payload)
     ELSE view' = ErrorMessageSet(view, TRUE) /\ UNCHANGED <<mixed, steady>>
  /\ UNCHANGED <<listing, ensuring>>

ReceiveUpdate(call) ==
  /\ call.op = "update"
  /\ IF call.stage = "answered"
     THEN /\ view' = ConversationLoaded(view, call.payload)
          /\ Shows(call.payload)
          /\ listing' = Refreshed("update")
     ELSE view' = ErrorMessageSet(view, TRUE) /\ UNCHANGED <<mixed, steady, listing>>
  /\ UNCHANGED ensuring

(* A failed creation also ends the sends that waited for it.               *)
ReceiveCreate(call) ==
  /\ call.op = "create"
  /\ IF call.stage = "answered"
     THEN /\ view' = ConversationLoaded(view, call.payload)
          /\ Shows(call.payload)
          /\ listing' = Refreshed(call.arg)
          /\ ensuring' = IF call.arg = "ensure"
                         THEN [ensuring EXCEPT !.conv = call.conv] ELSE ensuring
     ELSE /\ view' = ErrorMessageSet(view, TRUE)
          /\ ensuring' = IF call.arg = "ensure" THEN NotEnsuring ELSE ensuring
          /\ UNCHANGED <<mixed, steady, listing>>

ReceiveInterrupt(call) ==
  /\ call.op = "interrupt"
  /\ view' = IF call.stage = "failed" THEN ErrorMessageSet(view, TRUE) ELSE view
  /\ UNCHANGED <<listing, ensuring, mixed, steady>>

ReceiveAnswer(call) ==
  /\ call.stage # "sent"
  /\ \/ ReceiveLoad(call) \/ ReceiveUpdate(call)
     \/ ReceiveCreate(call) \/ ReceiveInterrupt(call)
  /\ calls' = calls \ {call}
  /\ UNCHANGED <<serverVars, list, reading>>

(***************************************************************************)
(* The list, answered as it arrives.  It is ordered by the last write,     *)
(* which is not tracked: any active conversation may be the latest.        *)
(* restoreLatestConversation loads the latest unless it is shown.          *)
(***************************************************************************)
Summaries == {[conv |-> c, archived |-> ArchivedIn(log[c])] :
                c \in {d \in Conversations : Exists(d)}}
Active == {item.conv : item \in {i \in Summaries : ~i.archived}}

Restoring(c) == "restore" \in listing /\ c # view.conv

(* The view when the awaited list has arrived.                             *)
AfterList(restoring) ==
  LET restored == IF restoring THEN LoadingStarted(view) ELSE view IN
  IF listing \cap {"new", "ensure"} # {} THEN LoadingFinished(restored) ELSE restored

(* The sends that waited for a conversation go on with the composer as it  *)
(* is now; without text they end.                                          *)
SendsGoOn(shown) ==
  IF "ensure" \in listing
  THEN /\ ensuring' = NotEnsuring
       /\ IF shown.composer = NoDraft
          THEN /\ view' = shown
               /\ UNCHANGED <<serverVars, reading, steady>>
          ELSE /\ view' = ErrorMessageSet(shown, FALSE)
               /\ StreamTurn(ensuring.conv, 2, shown.composer)
  ELSE /\ view' = shown
       /\ UNCHANGED <<serverVars, ensuring, reading, steady>>

ReceiveList ==
  /\ listing # {}
  /\ UNCHANGED mixed
  /\ list' = Summaries
  /\ listing' = {}
  /\ \/ \E c \in Active : /\ Restoring(c)
                          /\ calls' = calls \cup {Call("load", c, "")}
                          /\ SendsGoOn(AfterList(TRUE))
     \/ /\ (\E c \in Active : ~Restoring(c)) \/ Active = {}
        /\ SendsGoOn(AfterList(FALSE))
        /\ UNCHANGED calls

(* A failed list empties the history and fails whoever awaits it: a reply  *)
(* that has been received is marked as failed, a send is given up.         *)
ListFails ==
  /\ listing # {}
  /\ Fault
  /\ list' = {}
  /\ listing' = {}
  /\ ensuring' = IF "ensure" \in listing THEN NotEnsuring ELSE ensuring
  /\ view' = IF "stream" \in listing THEN StreamFailedLocally(view)
             ELSE ErrorMessageSet(view, TRUE)
  /\ UNCHANGED <<log, turns, interrupts, calls, reading, mixed, steady>>

(***************************************************************************)
(* The event streams.                                                      *)
(***************************************************************************)
TerminalTypes == {"turn.completed", "turn.error"}

ReadEvent(n) ==
  /\ reading[n] # "no"
  /\ turns[n].out # <<>>
  /\ view' = ApplyToView(view, Head(turns[n].out))
  /\ turns' = [turns EXCEPT ![n].out = Tail(@)]
  /\ reading' = [reading EXCEPT ![n] =
                   IF Head(turns[n].out).type \in TerminalTypes THEN "terminal" ELSE @]
  /\ IF Head(turns[n].out).conv = view.conv THEN UNCHANGED <<mixed, steady>>
     ELSE mixed' = TRUE /\ steady' = {}
  /\ UNCHANGED <<log, interrupts, spent, list, listing, calls, ensuring>>

EndOfStream(n) ==
  /\ reading[n] # "no"
  /\ turns[n].out = <<>>
  /\ turns[n].pc = "over"
  /\ reading' = [reading EXCEPT ![n] = "no"]
  /\ IF reading[n] = "terminal"
     THEN listing' = Refreshed("stream") /\ UNCHANGED <<view, steady>>
     ELSE /\ view' = StreamFailedLocally(view)
          /\ steady' = steady \ {n}
          /\ UNCHANGED listing
  /\ UNCHANGED <<serverVars, list, calls, ensuring, mixed>>

(* The request fails or the connection is lost.                            *)
LoseConnection(n) ==
  /\ Fault
  /\ reading[n] # "no"
  /\ view' = StreamFailedLocally(view)
  /\ reading' = [reading EXCEPT ![n] = "no"]
  /\ Disconnect({n})
  /\ UNCHANGED <<list, listing, calls, ensuring, mixed, steady>>

Next ==
  \/ ServerStep /\ UNCHANGED clientVars
  \/ Send \/ SendFirst \/ Type
  \/ SelectConversation \/ StartNewConversation
  \/ RenameConversation \/ ArchiveConversation
  \/ Interrupt \/ Reload
  \/ ReceiveList \/ ListFails
  \/ \E call \in calls : Serve(call) \/ LoseAnswer(call) \/ ReceiveAnswer(call)
  \/ \E n \in Slots : ReadEvent(n) \/ EndOfStream(n) \/ LoseConnection(n)

Fairness ==
  /\ \A n \in Slots : /\ WF_vars(TurnStep(n) /\ UNCHANGED clientVars)
                      /\ WF_vars(ReadEvent(n) \/ EndOfStream(n))

Spec == Init /\ [][Next]_vars /\ Fairness
=============================================================================
