-------------------------- MODULE CubeBoxTurnsProofs --------------------------
(***************************************************************************)
(* Theorems about the turns of the CubeBox server, for any number of       *)
(* conversations, turns and clients: what is stored of a turn, and what    *)
(* the registry of interrupt channels remembers.                           *)
(***************************************************************************)
EXTENDS CubeBoxTurnsProperties, SequenceTheorems, TLAPS

Statuses == {"", "active", "archived", "failed", "completed", "interrupted"}

(* What is known of a stored event.                                        *)
LEMMA EventNumbers == \A e \in Events : e.seq \in Nat \ {0} /\ e.turn \in Nat
BY DEF Events

(* A turn has been registered, and its first event has been stored.        *)
OwnerPCs == PCs \ {"idle", "prepare", "over"}
WritingPCs == {"accept", "talk", "recv", "answer", "interrupt", "closeInterrupted",
               "complete", "close"}
Writing(t) == t.pc \in WritingPCs

(* The numbers a turn was given.                                           *)
NumbersOK(t) ==
  /\ t.pc # "idle" => t.conv \in Conversations
  /\ t.pc = "prepare" => t.req # 0
  /\ t.pc \in OwnerPCs => t.id # 0 /\ t.seq # 0
  /\ t.pc = "start" => t.seq = t.id

(* What is stored of a turn that has written up to but not including seq.  *)
Begun(c, id) == \E f \in log[c] : f.seq = id /\ f.turn = id

WrittenUpTo(c, id, seq) ==
  /\ id < seq
  /\ Begun(c, id)
  /\ \A f \in log[c] : f.turn = id => f.seq < seq /\ f.type # "turn.completed"

TurnsOK ==
  \A n \in Slots : /\ NumbersOK(turns[n])
                   /\ Writing(turns[n]) =>
                        WrittenUpTo(turns[n].conv, turns[n].id, turns[n].seq)

(* Two turns that write to a conversation do not have the same number.     *)
WritersDiffer ==
  \A m, n \in Slots :
    Writing(turns[m]) /\ Writing(turns[n]) /\ turns[m].conv = turns[n].conv
      /\ turns[m].id = turns[n].id => m = n

(* A log that is not empty has a last event.                               *)
LogsHaveLast ==
  \A c \in Conversations : log[c] # {} => \E e \in log[c] : \A f \in log[c] : f.seq <= e.seq

RegistryOK ==
  \A i \in DOMAIN interrupts :
    /\ i \in Nat /\ interrupts[i] \in Slots
    /\ turns[interrupts[i]].id = i
    /\ turns[interrupts[i]].pc \in OwnerPCs

LogsOK ==
  /\ log \in [Conversations -> SUBSET Events]
  /\ \A c \in Conversations : \A e, f \in log[c] : e.conv = c /\ (e.seq = f.seq => e = f)
  /\ LogsHaveLast
  /\ OneOutcome

TurnsTyped == turns \in [Slots -> TurnRecords]

ServerInv ==
  /\ LogsOK
  /\ TurnsTyped
  /\ TurnsOK
  /\ WritersDiffer
  /\ RegistryOK

-----------------------------------------------------------------------------
(* What the invariant says of the three properties.                        *)
LEMMA InvImplies == ServerInv => ServerTypeOK /\ OneOutcome /\ RegistryFollowsTurns
BY DEF ServerInv, LogsOK, TurnsTyped, RegistryOK, ServerTypeOK, RegistryFollowsTurns,
       Running, OwnerPCs

LEMMA ServerInvInit == ServerInit => ServerInv
<1> SUFFICES ASSUME ServerInit PROVE ServerInv
  OBVIOUS
<1>1. LogsOK
  BY DEF ServerInit, LogsOK, LogsHaveLast, OneOutcome
<1>2. Idle \in TurnRecords
  <2>1. <<>> \in Seq(Events)
    BY EmptySeq
  <2>2. QED
    BY <2>1 DEF Idle, TurnRecords, PCs, NoConversation, NoTurn, NoDraft
<1>3. TurnsTyped /\ \A n \in Slots : turns[n] = Idle
  BY <1>2 DEF ServerInit, TurnsTyped
<1>4. TurnsOK /\ WritersDiffer
  BY <1>3 DEF TurnsOK, WritersDiffer, NumbersOK, Writing, WritingPCs, OwnerPCs, Idle
<1>5. RegistryOK
  BY DEF ServerInit, RegistryOK
<1>6. QED
  BY <1>1, <1>3, <1>4, <1>5 DEF ServerInv

-----------------------------------------------------------------------------
(***************************************************************************)
(* What is added to a log: the events es of turn id, numbered from first.  *)
(* The turn has stored events before, or begins with them.                 *)
(***************************************************************************)
Adds(c, id, first, es) ==
  /\ es \subseteq Events /\ es # {}
  /\ \A e \in es : e.conv = c /\ e.turn = id /\ first <= e.seq /\ Free(c, e.seq)
  /\ \A e, f \in es : e.seq = f.seq => e = f
  /\ \E e \in es : e.seq = first
  /\ \E e \in es : \A f \in es : f.seq <= e.seq
  /\ \A e \in es : e.type = "turn.completed" => \A f \in es : f.seq <= e.seq
  /\ log' = [log EXCEPT ![c] = @ \cup es]

(* A turn whose first number is free has stored nothing.                   *)
LEMMA FreshStoredNothing ==
  ASSUME LogsOK, NEW c \in Conversations, NEW id \in Nat \ {0}, Free(c, id)
  PROVE  \A f \in log[c] : f.turn # id
BY DEF LogsOK, OneOutcome, Free, NoTurn

LEMMA AddsKeepsLogs ==
  ASSUME LogsOK, NEW c \in Conversations, NEW id \in Nat \ {0}, NEW first \in Nat \ {0},
         NEW es, Adds(c, id, first, es),
         WrittenUpTo(c, id, first) \/ id = first
  PROVE  LogsOK'
<1>1. /\ log' \in [Conversations -> SUBSET Events]
      /\ log'[c] = log[c] \cup es
      /\ \A d \in Conversations : d # c => log'[d] = log[d]
  BY DEF LogsOK, Adds
<1>2. \A e \in Events : e.seq \in Nat /\ e.turn \in Nat
  BY EventNumbers
<1>3. \A f \in log[c] : f \in Events /\ f.conv = c
  BY DEF LogsOK
<1>4. \A f \in log[c] : f.turn = id => f.seq < first /\ f.type # "turn.completed"
  <2>1. CASE WrittenUpTo(c, id, first)
    BY <2>1 DEF WrittenUpTo
  <2>2. CASE id = first
    <3>1. Free(c, id)
      BY <2>2 DEF Adds
    <3>2. QED
      BY <3>1, FreshStoredNothing
  <2>3. QED
    BY <2>1, <2>2
<1>5. Begun(c, id)'
  <2>1. CASE WrittenUpTo(c, id, first)
    BY <2>1, <1>1 DEF WrittenUpTo, Begun
  <2>2. CASE id = first
    BY <2>2, <1>1 DEF Adds, Begun
  <2>3. QED
    BY <2>1, <2>2
<1>6. id <= first
  BY DEF WrittenUpTo
<1>7. \A d \in Conversations : \A e, f \in log'[d] :
        e.conv = d /\ (e.seq = f.seq => e = f)
  <2>1. \A e, f \in log'[c] : e.conv = c /\ (e.seq = f.seq => e = f)
    BY <1>1, <1>3 DEF LogsOK, Adds, Free
  <2>2. QED
    BY <2>1, <1>1 DEF LogsOK
<1>8. LogsHaveLast'
  <2> SUFFICES ASSUME NEW d \in Conversations, log'[d] # {}
               PROVE  \E e \in log'[d] : \A f \in log'[d] : f.seq <= e.seq
    BY DEF LogsHaveLast
  <2>1. CASE d # c
    BY <2>1, <1>1 DEF LogsOK, LogsHaveLast
  <2>2. CASE d = c
    <3>1. PICK e \in es : \A f \in es : f.seq <= e.seq
      BY DEF Adds
    <3>2. e \in Events
      BY DEF Adds
    <3>3. CASE log[c] = {}
      BY <2>2, <3>1, <3>3, <1>1
    <3>4. CASE log[c] # {}
      <4>1. PICK g \in log[c] : \A f \in log[c] : f.seq <= g.seq
        BY <3>4 DEF LogsOK, LogsHaveLast
      <4>2. CASE e.seq <= g.seq
        <5>1. \A f \in es : f.seq <= g.seq
          BY <3>1, <3>2, <4>1, <4>2, <1>2, <1>3 DEF Adds
        <5>2. QED
          BY <2>2, <4>1, <5>1, <1>1
      <4>3. CASE ~(e.seq <= g.seq)
        <5>1. \A f \in log[c] : f.seq <= e.seq
          BY <3>2, <4>1, <4>3, <1>2, <1>3
        <5>2. QED
          BY <2>2, <3>1, <5>1, <1>1
      <4>4. QED
        BY <4>2, <4>3
    <3>5. QED
      BY <3>3, <3>4
  <2>3. QED
    BY <2>1, <2>2
<1>9. OneOutcome'
  <2> SUFFICES ASSUME NEW d \in Conversations, NEW e \in log'[d], e.turn # NoTurn
               PROVE  /\ e.turn <= e.seq
                      /\ \E f \in log'[d] : f.seq = e.turn /\ f.turn = e.turn
                      /\ e.type = "turn.completed" =>
                           \A f \in log'[d] : f.turn = e.turn => f.seq <= e.seq
    BY DEF OneOutcome
  <2>1. CASE d # c
    <3>1. log'[d] = log[d]
      BY <2>1, <1>1
    <3>2. QED
      BY <3>1 DEF LogsOK, OneOutcome
  <2>2. CASE d = c /\ e.turn = id
    <3>1. e.turn <= e.seq
      <4>1. CASE e \in es
        BY <4>1, <2>2, <1>2, <1>6 DEF Adds
      <4>2. CASE e \in log[c]
        BY <4>2, <2>2 DEF LogsOK, OneOutcome
      <4>3. QED
        BY <4>1, <4>2, <2>2, <1>1
    <3>2. \E f \in log'[d] : f.seq = e.turn /\ f.turn = e.turn
      BY <2>2, <1>5 DEF Begun
    <3>3. ASSUME e.type = "turn.completed", NEW f \in log'[d], f.turn = e.turn
          PROVE  f.seq <= e.seq
      <4>1. e \in es
        BY <3>3, <2>2, <1>1, <1>4
      <4>2. CASE f \in es
        BY <3>3, <4>1, <4>2 DEF Adds
      <4>3. CASE f \in log[c]
        <5>1. f.seq < first /\ first <= e.seq
          BY <3>3, <4>1, <4>3, <2>2, <1>4 DEF Adds
        <5>2. f.seq \in Nat /\ e.seq \in Nat
          BY <4>1, <4>3, <1>2, <1>3 DEF Adds
        <5>3. QED
          BY <5>1, <5>2
      <4>4. QED
        BY <4>2, <4>3, <2>2, <1>1
    <3>4. QED
      BY <3>1, <3>2, <3>3
  <2>3. CASE d = c /\ e.turn # id
    <3>1. e \in log[c] /\ \A f \in log'[c] : f.turn = e.turn => f \in log[c]
      BY <2>3, <1>1 DEF Adds
    <3>2. \E f \in log[c] : f.seq = e.turn /\ f.turn = e.turn
      BY <3>1 DEF LogsOK, OneOutcome
    <3>3. QED
      BY <2>3, <3>1, <3>2, <1>1 DEF LogsOK, OneOutcome
  <2>4. QED
    BY <2>1, <2>2, <2>3
<1>10. QED
  BY <1>1, <1>7, <1>8, <1>9 DEF LogsOK

(* Of another turn the same is stored as before.                           *)
LEMMA AddsKeepsOthers ==
  ASSUME LogsOK, NEW c \in Conversations, NEW id \in Nat \ {0}, NEW first \in Nat \ {0},
         NEW es, Adds(c, id, first, es),
         NEW d \in Conversations, NEW other \in Nat, NEW seq \in Nat,
         WrittenUpTo(d, other, seq), d = c => other # id
  PROVE  WrittenUpTo(d, other, seq)'
<1>1. log'[c] = log[c] \cup es /\ (d # c => log'[d] = log[d])
  BY DEF LogsOK, Adds
<1>2. CASE d # c
  BY <1>1, <1>2 DEF WrittenUpTo, Begun
<1>3. CASE d = c
  BY <1>1, <1>3 DEF WrittenUpTo, Begun, Adds
<1>4. QED
  BY <1>2, <1>3

-----------------------------------------------------------------------------
(* Turn n moves on; the others do not.                                     *)
Moves(n, pc, id, seq) ==
  /\ TurnsTyped'
  /\ \A m \in Slots : m # n => turns'[m] = turns[m]
  /\ turns'[n].pc = pc /\ turns'[n].id = id /\ turns'[n].seq = seq
  /\ turns'[n].conv = turns[n].conv /\ turns'[n].req = turns[n].req

(* The registry is kept by a turn that stays registered, or never was.     *)
LEMMA MovesKeepsRegistry ==
  ASSUME RegistryOK, NEW n \in Slots, NEW pc, NEW id, NEW seq, Moves(n, pc, id, seq),
         UNCHANGED interrupts,
         turns[n].pc \notin OwnerPCs \/ (pc \in OwnerPCs /\ id = turns[n].id)
  PROVE  RegistryOK'
BY DEF RegistryOK, Moves

(* A step that leaves the logs alone.                                      *)
LEMMA QuietStep ==
  ASSUME ServerInv, UNCHANGED log, TurnsTyped', RegistryOK',
         \A n \in Slots : NumbersOK(turns[n])',
         \A n \in Slots : Writing(turns[n])' =>
           /\ Writing(turns[n])
           /\ turns'[n].conv = turns[n].conv /\ turns'[n].id = turns[n].id
           /\ turns[n].seq <= turns'[n].seq
  PROVE  ServerInv'
<1>1. LogsOK'
  BY DEF ServerInv, LogsOK, LogsHaveLast, OneOutcome
<1>2. WritersDiffer'
  BY DEF ServerInv, WritersDiffer
<1>3. TurnsOK'
  <2> SUFFICES ASSUME NEW n \in Slots, Writing(turns[n])'
               PROVE  WrittenUpTo(turns[n].conv, turns[n].id, turns[n].seq)'
    BY DEF TurnsOK
  <2>1. /\ Writing(turns[n]) /\ WrittenUpTo(turns[n].conv, turns[n].id, turns[n].seq)
        /\ turns[n].conv \in Conversations
    BY DEF ServerInv, TurnsOK, NumbersOK, Writing, WritingPCs
  <2>2. \A f \in log[turns[n].conv] : f.seq \in Nat
    BY <2>1, EventNumbers DEF ServerInv, LogsOK
  <2>3. turns[n].seq \in Nat /\ turns[n].id \in Nat /\ turns'[n].seq \in Nat
    BY DEF ServerInv, TurnsTyped, TurnRecords
  <2>4. QED
    BY <2>1, <2>2, <2>3 DEF WrittenUpTo, Begun
<1>4. QED
  BY <1>1, <1>2, <1>3 DEF ServerInv

(* A turn that moves on without storing anything.                          *)
LEMMA QuietMove ==
  ASSUME ServerInv, NEW n \in Slots, NEW pc, NEW seq, UNCHANGED <<log, interrupts>>,
         turns[n].pc \in OwnerPCs, Moves(n, pc, turns[n].id, seq),
         seq # 0, turns[n].seq <= seq,
         \/ pc = "finish"
         \/ pc \in WritingPCs /\ Writing(turns[n])
  PROVE  ServerInv'
<1>1. pc \in OwnerPCs
  BY DEF OwnerPCs, PCs, WritingPCs
<1>2. RegistryOK'
  BY <1>1, MovesKeepsRegistry DEF ServerInv
<1>3. TurnsTyped'
  BY DEF Moves
<1>4. \A m \in Slots : NumbersOK(turns[m])'
  BY <1>1 DEF Moves, ServerInv, TurnsOK, NumbersOK, WritingPCs, OwnerPCs
<1>5. \A m \in Slots : Writing(turns[m])' =>
           /\ Writing(turns[m])
           /\ turns'[m].conv = turns[m].conv /\ turns'[m].id = turns[m].id
           /\ turns[m].seq <= turns'[m].seq
  <2>1. \A m \in Slots : turns[m].seq \in Nat
    BY DEF ServerInv, TurnsTyped, TurnRecords
  <2>2. QED
    BY <2>1 DEF Moves, Writing, WritingPCs
<1>6. QED
  BY <1>2, <1>3, <1>4, <1>5, QuietStep

(* A turn that stores events: the first of all, or further ones.           *)
LEMMA AddingMove ==
  ASSUME ServerInv, NEW n \in Slots, NEW pc \in PCs, NEW id \in Nat \ {0},
         NEW first \in Nat \ {0}, NEW next \in Nat, NEW es, UNCHANGED interrupts,
         turns[n].conv \in Conversations,
         Adds(turns[n].conv, id, first, es), Moves(n, pc, id, next),
         \A e \in es : e.seq < next,
         \/ Writing(turns[n]) /\ id = turns[n].id /\ first = turns[n].seq
         \/ turns[n].pc = "start" /\ id = turns[n].id /\ first = id
         \/ turns[n].pc = "prepare" /\ first = id /\ pc = "over",
         turns[n].pc # "prepare" =>
           pc = "finish" \/ (pc \in WritingPCs /\ \A e \in es : e.type # "turn.completed")
  PROVE  ServerInv'
<1> DEFINE c == turns[n].conv
<1>1. WrittenUpTo(c, id, first) \/ id = first
  BY DEF ServerInv, TurnsOK
<1>2. LogsOK'
  BY <1>1, AddsKeepsLogs DEF ServerInv
<1>3. TurnsTyped'
  BY DEF Moves
<1>4. \A m \in Slots : turns[m].id \in Nat /\ turns[m].seq \in Nat
  BY DEF ServerInv, TurnsTyped, TurnRecords
<1>5. log' = [log EXCEPT ![c] = @ \cup es] /\ log \in [Conversations -> SUBSET Events]
  BY DEF Adds, ServerInv, LogsOK
<1>6. \A m \in Slots : m # n /\ Writing(turns[m]) /\ turns[m].conv = c => turns[m].id # id
  <2> SUFFICES ASSUME NEW m \in Slots, m # n, Writing(turns[m]), turns[m].conv = c,
                      turns[m].id = id
               PROVE  FALSE
    OBVIOUS
  <2>1. CASE Writing(turns[n]) /\ id = turns[n].id
    BY <2>1 DEF ServerInv, WritersDiffer
  <2>2. CASE first = id
    <3>1. Begun(c, id)
      BY DEF ServerInv, TurnsOK, WrittenUpTo
    <3>2. Free(c, id)
      BY <2>2 DEF Adds
    <3>3. QED
      BY <3>1, <3>2 DEF Begun, Free
  <2>3. QED
    BY <2>1, <2>2
<1>7. first < next
  <2>1. PICK e \in es : e.seq = first
    BY DEF Adds
  <2>2. QED
    BY <2>1
<1>8. pc \in WritingPCs => WrittenUpTo(c, id, next)'
  <2> SUFFICES ASSUME pc \in WritingPCs
               PROVE  WrittenUpTo(c, id, next)'
    OBVIOUS
  <2>1. pc \notin {"finish", "over"}
    BY DEF WritingPCs
  <2>2. \A e \in es : e.type # "turn.completed" /\ e \in Events
    <3>1. \A e \in es : e \in Events
      BY DEF Adds
    <3>2. turns[n].pc # "prepare"
      BY <2>1 DEF Writing, WritingPCs
    <3>3. QED
      BY <2>1, <3>1, <3>2
  <2>4. log'[c] = log[c] \cup es /\ turns'[n].conv = c
    BY <1>5 DEF Moves
  <2>5. CASE WrittenUpTo(c, id, first)
    <3>1. id < next
      BY <1>7, <2>5 DEF WrittenUpTo
    <3>2. \A f \in log[c] : f.seq \in Nat
      BY <1>5, EventNumbers
    <3>3. \A f \in log[c] : f.turn = id => f.seq < next /\ f.type # "turn.completed"
      BY <1>7, <2>5, <3>2 DEF WrittenUpTo
    <3>4. Begun(c, id)'
      BY <2>4, <2>5 DEF WrittenUpTo, Begun
    <3>5. QED
      BY <2>2, <2>4, <3>1, <3>3, <3>4 DEF WrittenUpTo, Moves
  <2>6. CASE first = id
    <3>1. Free(c, id)
      BY <2>6 DEF Adds
    <3>2. \A f \in log[c] : f.turn # id
      BY <3>1, FreshStoredNothing DEF ServerInv
    <3>3. Begun(c, id)'
      BY <2>4, <2>6 DEF Adds, Begun
    <3>4. QED
      BY <2>2, <1>7, <2>4, <2>6, <3>2, <3>3 DEF WrittenUpTo
  <2>7. QED
    BY <1>1, <2>5, <2>6
<1>9. TurnsOK'
  <2> SUFFICES ASSUME NEW m \in Slots
               PROVE  /\ NumbersOK(turns[m])'
                      /\ Writing(turns[m])' =>
                           WrittenUpTo(turns[m].conv, turns[m].id, turns[m].seq)'
    BY DEF TurnsOK
  <2>1. CASE m # n
    <3>1. turns'[m] = turns[m]
      BY <2>1 DEF Moves
    <3>2. NumbersOK(turns[m]) /\ (Writing(turns[m]) => turns[m].conv \in Conversations)
      BY DEF ServerInv, TurnsOK, NumbersOK, Writing, WritingPCs
    <3>3. ASSUME Writing(turns[m])
          PROVE  WrittenUpTo(turns[m].conv, turns[m].id, turns[m].seq)'
      <4>1. WrittenUpTo(turns[m].conv, turns[m].id, turns[m].seq)
        BY <3>3 DEF ServerInv, TurnsOK
      <4>2. turns[m].conv = c => turns[m].id # id
        BY <2>1, <3>3, <1>6
      <4>3. \A d \in Conversations, i, s \in Nat :
              WrittenUpTo(d, i, s) /\ (d = c => i # id) => WrittenUpTo(d, i, s)'
        BY AddsKeepsOthers DEF ServerInv
      <4>4. QED
        BY <3>1, <3>2, <3>3, <4>1, <4>2, <4>3, <1>4 DEF WrittenUpTo, Begun
    <3>4. QED
      BY <3>1, <3>2, <3>3 DEF NumbersOK, Writing
  <2>2. CASE m = n
    <3>1. pc \notin {"idle", "prepare", "start"} /\ next # 0
      BY <1>7 DEF Writing, WritingPCs
    <3>3. turns'[n].pc = pc /\ turns'[n].id = id /\ turns'[n].seq = next /\ turns'[n].conv = c
      BY DEF Moves
    <3>4. NumbersOK(turns[n])'
      BY <3>1, <3>3 DEF NumbersOK
    <3>2. QED
      BY <2>2, <3>3, <3>4, <1>8 DEF Writing, WrittenUpTo, Begun
  <2>3. QED
    BY <2>1, <2>2
<1>10. WritersDiffer'
  BY <1>6 DEF Moves, ServerInv, WritersDiffer, Writing, WritingPCs
<1>11. RegistryOK'
  <2>1. turns[n].pc \notin OwnerPCs \/ (pc \in OwnerPCs /\ id = turns[n].id)
    BY DEF OwnerPCs, PCs, WritingPCs
  <2>2. QED
    BY <2>1, MovesKeepsRegistry DEF ServerInv
<1>12. QED
  BY <1>2, <1>3, <1>9, <1>10, <1>11 DEF ServerInv

-----------------------------------------------------------------------------
(* The actions are such steps.  What a turn says is a sequence of events.  *)
LEMMA Numbered ==
  ASSUME ServerInv, NEW n \in Slots, turns[n].pc \in OwnerPCs
  PROVE  /\ turns[n] \in TurnRecords
         /\ turns[n].conv \in Conversations
         /\ turns[n].id \in Nat \ {0} /\ turns[n].seq \in Nat \ {0}
         /\ turns[n].prompt \in Nat
<1>1. turns[n] \in TurnRecords
  BY DEF ServerInv, TurnsTyped
<1>2. NumbersOK(turns[n])
  BY DEF ServerInv, TurnsOK
<1>3. QED
  BY <1>1, <1>2 DEF TurnRecords, NumbersOK, OwnerPCs

LEMMA TurnEventFacts ==
  ASSUME NEW n \in Slots, turns[n].conv \in Conversations, turns[n].id \in Nat,
         turns[n].prompt \in Nat, NEW seq \in Nat \ {0}, NEW type \in EventTypes,
         NEW status \in Statuses
  PROVE  /\ TurnEvent(n, seq, type, status) \in Events
         /\ TurnEvent(n, seq, type, status).conv = turns[n].conv
         /\ TurnEvent(n, seq, type, status).seq = seq
         /\ TurnEvent(n, seq, type, status).type = type
         /\ TurnEvent(n, seq, type, status).turn = turns[n].id
BY DEF TurnEvent, Event, Events, Statuses, NoDraft

LEMMA SayFacts ==
  ASSUME TurnsTyped, NEW n \in Slots, NEW es \in Seq(Events)
  PROVE  Say(n, es) \in Seq(Events)
<1>1. turns[n].out \in Seq(Events)
  BY DEF TurnsTyped, TurnRecords
<1>2. QED
  BY <1>1, ConcatProperties DEF Say

LEMMA SayOne ==
  ASSUME TurnsTyped, NEW n \in Slots, NEW e \in Events
  PROVE  Say(n, <<e>>) \in Seq(Events)
<1>1. <<e>> \in Seq(Events)
  OBVIOUS
<1>2. QED
  BY <1>1, SayFacts

(* The events of an append of one.                                         *)
LEMMA AddsOne ==
  ASSUME LogsOK, NEW c \in Conversations, NEW e \in Events, e.conv = c, Free(c, e.seq),
         log' = [log EXCEPT ![c] = @ \cup {e}]
  PROVE  Adds(c, e.turn, e.seq, {e})
<1>1. e.seq \in Nat
  BY EventNumbers
<1>2. QED
  BY <1>1 DEF Adds

(* The records the writing steps leave.                                    *)
StoredRecord(t, seq, then, deltas, out) ==
  [t EXCEPT !.seq = seq, !.pc = then, !.deltas = deltas, !.out = out]
RefusedRecord(t, seq, then, out) ==
  [t EXCEPT !.seq = seq, !.pc = then, !.broken = TRUE, !.out = out]
EndedRecord(t, id, seq, then, out) ==
  [t EXCEPT !.pc = then, !.id = id, !.seq = seq, !.out = out]
BrokenRecord(t, id, seq, then, out) ==
  [t EXCEPT !.pc = then, !.id = id, !.seq = seq, !.broken = TRUE, !.out = out]

LEMMA RecordStored ==
  ASSUME NEW t \in TurnRecords, NEW seq \in Nat, NEW then \in PCs,
         NEW deltas \in Nat,
         NEW out \in Seq(Events)
  PROVE  LET new == StoredRecord(t, seq, then, deltas, out)
         IN /\ new \in TurnRecords
            /\ new.pc = then /\ new.id = t.id /\ new.seq = seq
            /\ new.conv = t.conv /\ new.req = t.req
<1> DEFINE S == Seq(Events)
<1>1. out \in S
  OBVIOUS
<1>2. TurnRecords =
        [pc : PCs, conv : Conversations \cup {NoConversation}, req : Nat, seq : Nat,
         id : Nat, prompt : Nat, flow : {"provider", "query"}, deltas : Nat,
         stopped : BOOLEAN, gone : BOOLEAN, broken : BOOLEAN, out : S]
  BY DEF TurnRecords
<1> HIDE DEF S
<1>3. QED
  BY <1>1, <1>2 DEF StoredRecord

LEMMA RecordRefused ==
  ASSUME NEW t \in TurnRecords, NEW seq \in Nat, NEW then \in PCs,
         NEW out \in Seq(Events)
  PROVE  LET new == RefusedRecord(t, seq, then, out)
         IN /\ new \in TurnRecords
            /\ new.pc = then /\ new.id = t.id /\ new.seq = seq
            /\ new.conv = t.conv /\ new.req = t.req
<1> DEFINE S == Seq(Events)
<1>1. out \in S
  OBVIOUS
<1>2. TurnRecords =
        [pc : PCs, conv : Conversations \cup {NoConversation}, req : Nat, seq : Nat,
         id : Nat, prompt : Nat, flow : {"provider", "query"}, deltas : Nat,
         stopped : BOOLEAN, gone : BOOLEAN, broken : BOOLEAN, out : S]
  BY DEF TurnRecords
<1> HIDE DEF S
<1>3. QED
  BY <1>1, <1>2 DEF RefusedRecord

LEMMA RecordEnded ==
  ASSUME NEW t \in TurnRecords, NEW seq \in Nat, NEW then \in PCs,
         NEW id \in Nat,
         NEW out \in Seq(Events)
  PROVE  LET new == EndedRecord(t, id, seq, then, out)
         IN /\ new \in TurnRecords
            /\ new.pc = then /\ new.id = id /\ new.seq = seq
            /\ new.conv = t.conv /\ new.req = t.req
<1> DEFINE S == Seq(Events)
<1>1. out \in S
  OBVIOUS
<1>2. TurnRecords =
        [pc : PCs, conv : Conversations \cup {NoConversation}, req : Nat, seq : Nat,
         id : Nat, prompt : Nat, flow : {"provider", "query"}, deltas : Nat,
         stopped : BOOLEAN, gone : BOOLEAN, broken : BOOLEAN, out : S]
  BY DEF TurnRecords
<1> HIDE DEF S
<1>3. QED
  BY <1>1, <1>2 DEF EndedRecord

LEMMA RecordBroken ==
  ASSUME NEW t \in TurnRecords, NEW seq \in Nat, NEW then \in PCs,
         NEW id \in Nat,
         NEW out \in Seq(Events)
  PROVE  LET new == BrokenRecord(t, id, seq, then, out)
         IN /\ new \in TurnRecords
            /\ new.pc = then /\ new.id = id /\ new.seq = seq
            /\ new.conv = t.conv /\ new.req = t.req
<1> DEFINE S == Seq(Events)
<1>1. out \in S
  OBVIOUS
<1>2. TurnRecords =
        [pc : PCs, conv : Conversations \cup {NoConversation}, req : Nat, seq : Nat,
         id : Nat, prompt : Nat, flow : {"provider", "query"}, deltas : Nat,
         stopped : BOOLEAN, gone : BOOLEAN, broken : BOOLEAN, out : S]
  BY DEF TurnRecords
<1> HIDE DEF S
<1>3. QED
  BY <1>1, <1>2 DEF BrokenRecord

LEMMA StoredIsAdding ==
  ASSUME ServerInv, NEW n \in Slots, turns[n].pc \in OwnerPCs, NEW type \in EventTypes,
         NEW status \in Statuses, NEW then \in PCs, Stored(n, type, status, then)
  PROVE  LET e == TurnEvent(n, turns[n].seq, type, status)
         IN /\ e.seq = turns[n].seq /\ e.type = type
            /\ Adds(turns[n].conv, turns[n].id, turns[n].seq, {e})
            /\ Moves(n, then, turns[n].id, turns[n].seq + 1)
<1> DEFINE t == turns[n]
           e == TurnEvent(n, t.seq, type, status)
<1>1. /\ t \in TurnRecords /\ t.conv \in Conversations /\ t.prompt \in Nat
      /\ t.id \in Nat \ {0} /\ t.seq \in Nat \ {0}
  BY Numbered
<1>2. /\ e \in Events /\ e.conv = t.conv /\ e.seq = t.seq /\ e.type = type
      /\ e.turn = t.id
  BY <1>1, TurnEventFacts
<1>3. Adds(t.conv, t.id, t.seq, {e})
  <2>1. Free(t.conv, e.seq) /\ log' = [log EXCEPT ![t.conv] = @ \cup {e}]
    BY <1>2 DEF Stored
  <2>2. Adds(t.conv, e.turn, e.seq, {e})
    BY <1>1, <1>2, <2>1, AddsOne DEF ServerInv
  <2>3. QED
    BY <1>2, <2>2
<1>4. Moves(n, then, t.id, t.seq + 1)
  <2> DEFINE deltas == IF type = "turn.agent_message.delta" THEN t.deltas + 1 ELSE t.deltas
             out == Say(n, <<e>>)
             next == t.seq + 1
             new == StoredRecord(t, next, then, deltas, out)
  <2>1. turns' = [turns EXCEPT ![n] = new]
    BY DEF Stored, StoredRecord, ServerInv, TurnsTyped
  <2>2. out \in Seq(Events)
    BY <1>2, SayOne DEF ServerInv
  <2>3. deltas \in Nat /\ next \in Nat
    BY <1>1 DEF TurnRecords
  <2> HIDE DEF deltas, out
  <2>4. /\ new \in TurnRecords /\ new.pc = then /\ new.id = t.id /\ new.seq = next
        /\ new.conv = t.conv /\ new.req = t.req
    <3> HIDE DEF t, next
    <3>1. QED
      BY <1>1, <2>2, <2>3, RecordStored, SMTT(30)
  <2> HIDE DEF new
  <2>5. QED
    BY <2>1, <2>4 DEF Moves, ServerInv, TurnsTyped
<1>5. QED
  BY <1>2, <1>3, <1>4

LEMMA RefusedIsQuiet ==
  ASSUME ServerInv, NEW n \in Slots, turns[n].pc \in OwnerPCs, NEW then \in PCs,
         Refused(n, then)
  PROVE  Moves(n, then, turns[n].id, turns[n].seq + 1) /\ UNCHANGED log
<1> DEFINE t == turns[n]
           e == TurnEvent(n, t.seq, "turn.error", "")
           out == Say(n, <<e>>)
           next == t.seq + 1
           new == RefusedRecord(t, next, then, out)
<1>1. /\ t \in TurnRecords /\ t.conv \in Conversations /\ t.prompt \in Nat
      /\ t.id \in Nat \ {0} /\ t.seq \in Nat \ {0}
  BY Numbered
<1>2. turns' = [turns EXCEPT ![n] = new]
  BY DEF Refused, RefusedRecord, ServerInv, TurnsTyped
<1>3. out \in Seq(Events)
  <2>1. "turn.error" \in EventTypes /\ "" \in Statuses
    BY DEF EventTypes, Statuses
  <2>2. e \in Events
    BY <1>1, <2>1, TurnEventFacts
  <2>3. QED
    BY <2>2, SayOne DEF ServerInv
<1> HIDE DEF e, out
<1>4. /\ new \in TurnRecords /\ new.pc = then /\ new.id = t.id /\ new.seq = next
      /\ new.conv = t.conv /\ new.req = t.req
  <2>1. next \in Nat
    BY <1>1
  <2> HIDE DEF t, next
  <2>2. QED
    BY <1>1, <1>3, <2>1, RecordRefused
<1> HIDE DEF new
<1>5. Moves(n, then, t.id, t.seq + 1)
  BY <1>2, <1>4 DEF Moves, ServerInv, TurnsTyped
<1>6. QED
  BY <1>5 DEF Refused

(* A write of a turn that has begun, or begins with it.                    *)
LEMMA StoredKeeps ==
  ASSUME ServerInv, NEW n \in Slots, Writing(turns[n]) \/ turns[n].pc = "start",
         NEW type \in EventTypes, NEW status \in Statuses, NEW then \in PCs,
         then = "finish" \/ (then \in WritingPCs /\ type # "turn.completed"),
         Stored(n, type, status, then), UNCHANGED interrupts
  PROVE  ServerInv'
<1> DEFINE t == turns[n]
           e == TurnEvent(n, t.seq, type, status)
<1>1. t.pc \in OwnerPCs
  BY DEF Writing, WritingPCs, OwnerPCs, PCs
<1>2. /\ e.seq = t.seq /\ e.type = type
      /\ Adds(t.conv, t.id, t.seq, {e})
      /\ Moves(n, then, t.id, t.seq + 1)
  BY <1>1, StoredIsAdding
<1>3. t.conv \in Conversations /\ t.id \in Nat \ {0} /\ t.seq \in Nat \ {0}
  BY <1>1, Numbered
<1>4. t.pc = "start" => t.seq = t.id
  BY DEF ServerInv, TurnsOK, NumbersOK
<1>5. t.pc # "prepare"
  BY <1>1 DEF OwnerPCs
<1>6. t.seq + 1 \in Nat /\ \A x \in {e} : x.seq < t.seq + 1 /\ x.type = type
  BY <1>2, <1>3
<1> HIDE DEF e
<1>7. QED
  BY <1>2, <1>3, <1>4, <1>5, <1>6, AddingMove

LEMMA RefusedKeeps ==
  ASSUME ServerInv, NEW n \in Slots, turns[n].pc \in OwnerPCs, NEW then \in PCs,
         then = "finish" \/ (then \in WritingPCs /\ Writing(turns[n])),
         Refused(n, then), UNCHANGED interrupts
  PROVE  ServerInv'
<1>1. Moves(n, then, turns[n].id, turns[n].seq + 1) /\ UNCHANGED log
  BY RefusedIsQuiet
<1>2. turns[n].seq \in Nat
  BY Numbered
<1>3. turns[n].seq + 1 # 0 /\ turns[n].seq <= turns[n].seq + 1
  BY <1>2
<1>4. QED
  BY <1>1, <1>3, QuietMove

LEMMA WriteOrStopKeeps ==
  ASSUME ServerInv, NEW n \in Slots, Writing(turns[n]) \/ turns[n].pc = "start",
         NEW type \in EventTypes \ {"turn.completed"}, NEW status \in Statuses,
         NEW then \in WritingPCs, WriteOrStop(n, type, status, then)
  PROVE  ServerInv'
<1>1. then \in PCs /\ "finish" \in PCs
  BY DEF WritingPCs, PCs
<1>2. CASE Refused(n, "finish")
  <2>1. turns[n].pc \in OwnerPCs
    BY DEF Writing, WritingPCs, OwnerPCs, PCs
  <2>2. QED
    BY <1>1, <1>2, <2>1, RefusedKeeps DEF WriteOrStop
<1>3. CASE Stored(n, type, status, "finish")
  BY <1>1, <1>3, StoredKeeps DEF WriteOrStop
<1>4. CASE Stored(n, type, status, then)
  BY <1>1, <1>4, StoredKeeps DEF WriteOrStop
<1>5. QED
  BY <1>2, <1>3, <1>4 DEF WriteOrStop

LEMMA WriteAnywayKeeps ==
  ASSUME ServerInv, NEW n \in Slots, Writing(turns[n]),
         NEW type \in EventTypes, NEW status \in Statuses, NEW then \in PCs,
         then = "finish" \/ (then \in WritingPCs /\ type # "turn.completed"),
         WriteAnyway(n, type, status, then)
  PROVE  ServerInv'
<1>1. turns[n].pc \in OwnerPCs
  BY DEF Writing, WritingPCs, OwnerPCs, PCs
<1>2. CASE Refused(n, then)
  BY <1>1, <1>2, RefusedKeeps DEF WriteAnyway
<1>3. CASE Stored(n, type, status, then)
  BY <1>3, StoredKeeps DEF WriteAnyway
<1>4. QED
  BY <1>2, <1>3 DEF WriteAnyway

(* The terminal error stores both of its events or neither.                *)
LEMMA FailTurnFacts ==
  ASSUME ServerInv, NEW n \in Slots, turns[n].conv \in Conversations,
         NEW id \in Nat \ {0}, NEW seq \in Nat \ {0}, NEW then \in PCs,
         FailTurn(n, id, seq, then)
  PROVE  /\ UNCHANGED interrupts
         /\ Moves(n, then, id, seq + 2)
         /\ \/ UNCHANGED log
            \/ \E es : /\ Adds(turns[n].conv, id, seq, es)
                       /\ \A e \in es : e.seq < seq + 2
<1> DEFINE t == turns[n]
           err == Event(t.conv, seq, "turn.error", id, NoDraft, "")
           done == Event(t.conv, seq + 1, "turn.completed", id, NoDraft, "failed")
           next == seq + 2
           two == Say(n, <<err, done>>)
           one == Say(n, <<err>>)
<1>1. t \in TurnRecords /\ TurnsTyped /\ LogsOK /\ turns \in [Slots -> TurnRecords]
  BY DEF ServerInv, TurnsTyped
<1>2. /\ err \in Events /\ err.conv = t.conv /\ err.seq = seq /\ err.turn = id
      /\ err.type = "turn.error"
  BY DEF Event, Events, EventTypes, NoDraft
<1>3. /\ done \in Events /\ done.conv = t.conv /\ done.seq = seq + 1 /\ done.turn = id
      /\ done.type = "turn.completed"
  BY DEF Event, Events, EventTypes, NoDraft
<1> HIDE DEF err, done
<1>4. two \in Seq(Events) /\ one \in Seq(Events)
  <2>1. <<err, done>> \in Seq(Events) /\ <<err>> \in Seq(Events)
    BY <1>2, <1>3
  <2>2. QED
    BY <1>1, <2>1, SayFacts
<1>5. next \in Nat /\ id \in Nat /\ next = seq + 2
  OBVIOUS
<1> HIDE DEF two, one, next
<1>6. UNCHANGED interrupts
  BY DEF FailTurn
<1>7. CASE /\ ~Taken(n, {seq, seq + 1})
           /\ log' = [log EXCEPT ![t.conv] = @ \cup {err, done}]
           /\ turns' = [turns EXCEPT ![n] = EndedRecord(t, id, next, then, two)]
  <2> DEFINE new == EndedRecord(t, id, next, then, two)
  <2>1. /\ new \in TurnRecords /\ new.pc = then /\ new.id = id /\ new.seq = next
        /\ new.conv = t.conv /\ new.req = t.req
    <3>1. t \in TurnRecords /\ next \in Nat /\ id \in Nat
      BY <1>1, <1>5
    <3> HIDE DEF t
    <3>2. QED
      BY <1>4, <3>1, RecordEnded, SMTT(60)
  <2> HIDE DEF new
  <2>2. Moves(n, then, id, next)
    BY <1>1, <1>7, <2>1 DEF Moves, TurnsTyped, new
  <2>3. Free(t.conv, seq) /\ Free(t.conv, seq + 1)
    BY <1>7 DEF Taken
  <2>4. Adds(t.conv, id, seq, {err, done})
    BY <1>2, <1>3, <1>7, <2>3 DEF Adds
  <2>5. \A e \in {err, done} : e.seq < seq + 2
    BY <1>2, <1>3
  <2>6. QED
    BY <1>5, <1>6, <2>2, <2>4, <2>5
<1>8. CASE /\ UNCHANGED log
           /\ turns' = [turns EXCEPT ![n] = BrokenRecord(t, id, next, then, one)]
  <2> DEFINE new == BrokenRecord(t, id, next, then, one)
  <2>1. /\ new \in TurnRecords /\ new.pc = then /\ new.id = id /\ new.seq = next
        /\ new.conv = t.conv /\ new.req = t.req
    <3>1. t \in TurnRecords /\ next \in Nat /\ id \in Nat
      BY <1>1, <1>5
    <3> HIDE DEF t
    <3>2. QED
      BY <1>4, <3>1, RecordBroken, SMTT(60)
  <2> HIDE DEF new
  <2>2. Moves(n, then, id, next)
    BY <1>1, <1>8, <2>1 DEF Moves, TurnsTyped, new
  <2>3. QED
    BY <1>5, <1>8, <1>6, <2>2
<1>9. QED
  BY <1>1, <1>7, <1>8 DEF FailTurn, EndedRecord, BrokenRecord, err, done, next, two, one

LEMMA FailTurnKeeps ==
  ASSUME ServerInv, NEW n \in Slots, Writing(turns[n]),
         FailTurn(n, turns[n].id, turns[n].seq, "finish")
  PROVE  ServerInv'
<1> DEFINE t == turns[n]
<1>1. t.pc \in OwnerPCs /\ t.pc # "prepare" /\ "finish" \in PCs
  BY DEF Writing, WritingPCs, OwnerPCs, PCs
<1>2. t.conv \in Conversations /\ t.id \in Nat \ {0} /\ t.seq \in Nat \ {0}
  BY <1>1, Numbered
<1>3. /\ UNCHANGED interrupts
      /\ Moves(n, "finish", t.id, t.seq + 2)
      /\ \/ UNCHANGED log
         \/ \E es : /\ Adds(t.conv, t.id, t.seq, es)
                    /\ \A e \in es : e.seq < t.seq + 2
  BY <1>1, <1>2, FailTurnFacts
<1>4. t.seq + 2 \in Nat /\ t.seq + 2 # 0 /\ t.seq <= t.seq + 2
  BY <1>2
<1>5. CASE UNCHANGED log
  BY <1>1, <1>3, <1>4, <1>5, QuietMove
<1>6. CASE \E es : /\ Adds(t.conv, t.id, t.seq, es)
                   /\ \A e \in es : e.seq < t.seq + 2
  BY <1>1, <1>2, <1>3, <1>4, <1>6, AddingMove
<1>7. QED
  BY <1>3, <1>5, <1>6

-----------------------------------------------------------------------------
(* The sequence of a log: a number above all of it.                        *)
LEMMA NextSequenceAbove ==
  ASSUME LogsOK, NEW c \in Conversations, log[c] # {}
  PROVE  /\ NextSequence(log[c]) \in Nat \ {0}
         /\ \A e \in log[c] : e.seq < NextSequence(log[c])
<1>1. PICK e \in log[c] : \A f \in log[c] : f.seq <= e.seq
  BY DEF LogsOK, LogsHaveLast
<1>2. \A f \in log[c] : f.seq \in Nat \ {0}
  BY EventNumbers DEF LogsOK
<1>3. LastSequence(log[c]) = e.seq
  BY <1>1, <1>2 DEF LastSequence
<1>4. QED
  BY <1>1, <1>2, <1>3 DEF NextSequence

(* An event of the conversation itself, above the rest of its log.         *)
LEMMA ConversationEventKeeps ==
  ASSUME ServerInv, NEW c \in Conversations, NEW e \in Events, e.conv = c,
         e.turn = NoTurn, \A f \in log[c] : f.seq < e.seq,
         log' = [log EXCEPT ![c] = @ \cup {e}], UNCHANGED <<turns, interrupts>>
  PROVE  ServerInv'
<1>1. /\ log' \in [Conversations -> SUBSET Events]
      /\ log'[c] = log[c] \cup {e}
      /\ \A d \in Conversations : d # c => log'[d] = log[d]
  BY DEF ServerInv, LogsOK
<1>2. \A f \in Events : f.seq \in Nat /\ f.turn \in Nat
  BY EventNumbers
<1>3. \A f \in log[c] : f \in Events /\ f.conv = c
  BY DEF ServerInv, LogsOK
<1>4. \A d \in Conversations : \A f, g \in log'[d] :
        f.conv = d /\ (f.seq = g.seq => f = g)
  <2>1. \A f, g \in log'[c] : f.conv = c /\ (f.seq = g.seq => f = g)
    BY <1>1, <1>2, <1>3 DEF ServerInv, LogsOK
  <2>2. QED
    BY <2>1, <1>1 DEF ServerInv, LogsOK
<1>5. LogsHaveLast'
  <2>1. \A f \in log'[c] : f.seq <= e.seq
    BY <1>1, <1>2, <1>3
  <2>2. \A d \in Conversations : d # c /\ log'[d] # {} =>
          \E g \in log'[d] : \A f \in log'[d] : f.seq <= g.seq
    BY <1>1 DEF ServerInv, LogsOK, LogsHaveLast
  <2>3. QED
    BY <2>1, <2>2, <1>1 DEF LogsHaveLast
<1>6. OneOutcome'
  BY <1>1 DEF ServerInv, LogsOK, OneOutcome
<1>7. TurnsOK'
  <2> SUFFICES ASSUME NEW n \in Slots
               PROVE  /\ NumbersOK(turns[n])
                      /\ Writing(turns[n]) =>
                           WrittenUpTo(turns[n].conv, turns[n].id, turns[n].seq)'
    BY DEF TurnsOK, NumbersOK, Writing
  <2>1. NumbersOK(turns[n])
    BY DEF ServerInv, TurnsOK
  <2>2. ASSUME Writing(turns[n])
        PROVE  WrittenUpTo(turns[n].conv, turns[n].id, turns[n].seq)'
    <3>1. /\ WrittenUpTo(turns[n].conv, turns[n].id, turns[n].seq)
          /\ turns[n].conv \in Conversations /\ turns[n].id # NoTurn
      BY <2>1, <2>2
         DEF ServerInv, TurnsOK, NumbersOK, Writing, WritingPCs, OwnerPCs, PCs, NoTurn
    <3>2. QED
      BY <3>1, <1>1 DEF WrittenUpTo, Begun
  <2>3. QED
    BY <2>1, <2>2
<1>8. TurnsTyped' /\ WritersDiffer' /\ RegistryOK'
  BY DEF ServerInv, TurnsTyped, WritersDiffer, RegistryOK, Writing
<1>9. QED
  BY <1>1, <1>4, <1>5, <1>6, <1>7, <1>8 DEF ServerInv, LogsOK

LEMMA CreateConversationKeeps ==
  ASSUME ServerInv, NEW c \in Conversations, CreateConversation(c)
  PROVE  ServerInv'
<1> DEFINE e == Event(c, 1, "conversation.loaded", NoTurn, NoDraft, "active")
<1>1. e \in Events /\ e.conv = c /\ e.turn = NoTurn
  BY DEF Event, Events, EventTypes, ConversationTypes, NoTurn, NoDraft
<1>2. log[c] = {} /\ UNCHANGED <<turns, interrupts>> /\ log' = [log EXCEPT ![c] = @ \cup {e}]
  BY DEF CreateConversation, Exists
<1> HIDE DEF e
<1>3. QED
  BY <1>1, <1>2, ConversationEventKeeps

LEMMA UpdateConversationKeeps ==
  ASSUME ServerInv, NEW c \in Conversations, NEW type \in ConversationTypes,
         UpdateConversation(c, type)
  PROVE  ServerInv'
<1> DEFINE status == CASE type = "conversation.archived" -> "archived"
                       [] type = "conversation.unarchived" -> "active"
                       [] OTHER -> IF ArchivedIn(log[c]) THEN "archived" ELSE "active"
           next == NextSequence(log[c])
           e == Event(c, next, type, NoTurn, NoDraft, status)
<1>1. log[c] # {} /\ UNCHANGED <<turns, interrupts>>
  BY DEF UpdateConversation, Exists
<1>2. log' = [log EXCEPT ![c] = @ \cup {e}]
  BY DEF UpdateConversation, ServerInv, LogsOK
<1>3. next \in Nat \ {0} /\ \A f \in log[c] : f.seq < next
  BY <1>1, NextSequenceAbove DEF ServerInv
<1>4. status \in {"archived", "active"}
  OBVIOUS
<1> HIDE DEF next, status
<1>5. e \in Events /\ e.conv = c /\ e.turn = NoTurn /\ e.seq = next
  BY <1>3, <1>4 DEF Event, Events, EventTypes, NoTurn, NoDraft
<1> HIDE DEF e
<1>6. QED
  BY <1>1, <1>2, <1>3, <1>5, ConversationEventKeeps

-----------------------------------------------------------------------------
(* The actions of a turn.                                                  *)
LEMMA PrepareKeeps ==
  ASSUME ServerInv, NEW n \in Slots, Prepare(n)
  PROVE  ServerInv'
<1> DEFINE t == turns[n]
           last == IF t.req > 1 THEN NextSequence(log[t.conv]) ELSE 1
           seq == IF last > t.req THEN last ELSE t.req
<1>1. /\ t \in TurnRecords /\ turns \in [Slots -> TurnRecords]
      /\ t.pc = "prepare" /\ t.conv \in Conversations /\ t.req \in Nat \ {0}
      /\ t.id \in Nat
  BY DEF Prepare, ServerInv, TurnsTyped, TurnsOK, NumbersOK, TurnRecords
<1>2. seq \in Nat \ {0}
  <2>1. NextSequence(log[t.conv]) \in Nat \/ log[t.conv] = {}
    BY <1>1, NextSequenceAbove DEF ServerInv
  <2>2. NextSequence({}) = 1
    BY DEF NextSequence, LastSequence
  <2>3. last \in Nat
    BY <2>1, <2>2
  <2> HIDE DEF last
  <2>4. QED
    BY <1>1, <2>3
<1>3. PICK flow \in Flows :
        turns' = [turns EXCEPT ![n].pc = "start", ![n].seq = seq, ![n].id = seq,
                               ![n].flow = flow]
  BY DEF Prepare
<1>4. interrupts' = Register(seq, n) /\ UNCHANGED log
  BY DEF Prepare
<1> HIDE DEF seq
<1> DEFINE new == [t EXCEPT !.pc = "start", !.seq = seq, !.id = seq, !.flow = flow]
<1>5. turns' = [turns EXCEPT ![n] = new]
  BY <1>1, <1>3
<1>6. /\ new \in TurnRecords /\ new.pc = "start" /\ new.id = seq /\ new.seq = seq
      /\ new.conv = t.conv
  <2>1. flow \in {"provider", "query"}
    BY FlowAssumption
  <2>2. QED
    BY <1>1, <1>2, <2>1 DEF TurnRecords, PCs
<1> HIDE DEF new
<1>7. TurnsTyped'
  BY <1>1, <1>5, <1>6 DEF TurnsTyped
<1>8. turns'[n] = new /\ \A m \in Slots : m # n => turns'[m] = turns[m]
  BY <1>1, <1>5
<1>9. RegistryOK'
  <2> SUFFICES ASSUME NEW i \in DOMAIN interrupts'
               PROVE  /\ i \in Nat /\ interrupts'[i] \in Slots
                      /\ turns'[interrupts'[i]].id = i
                      /\ turns'[interrupts'[i]].pc \in OwnerPCs
    BY DEF RegistryOK
  <2>1. CASE i = seq
    BY <1>2, <1>4, <1>6, <1>8, <2>1 DEF Register, OwnerPCs, PCs
  <2>2. CASE i # seq
    <3>1. i \in DOMAIN interrupts /\ interrupts'[i] = interrupts[i]
      BY <1>4, <2>2 DEF Register
    <3>2. /\ i \in Nat /\ interrupts[i] \in Slots
          /\ turns[interrupts[i]].id = i /\ turns[interrupts[i]].pc \in OwnerPCs
      BY <3>1 DEF ServerInv, RegistryOK
    <3>3. interrupts[i] # n
      BY <1>1, <3>2 DEF OwnerPCs
    <3>4. QED
      BY <1>8, <3>1, <3>2, <3>3
  <2>3. QED
    BY <2>1, <2>2
<1>10. \A m \in Slots : NumbersOK(turns[m])'
  BY <1>1, <1>2, <1>6, <1>8 DEF ServerInv, TurnsOK, NumbersOK
<1>11. \A m \in Slots : Writing(turns[m])' =>
           /\ Writing(turns[m])
           /\ turns'[m].conv = turns[m].conv /\ turns'[m].id = turns[m].id
           /\ turns[m].seq <= turns'[m].seq
  <2>1. \A m \in Slots : turns[m].seq \in Nat
    BY <1>1 DEF TurnRecords
  <2>2. QED
    BY <1>6, <1>8, <2>1 DEF Writing, WritingPCs
<1>12. QED
  BY <1>4, <1>7, <1>9, <1>10, <1>11, QuietStep

LEMMA PrepareFailsKeeps ==
  ASSUME ServerInv, NEW n \in Slots, PrepareFails(n)
  PROVE  ServerInv'
<1> DEFINE t == turns[n]
<1>1. /\ t.pc = "prepare" /\ t.conv \in Conversations /\ t.req \in Nat \ {0}
      /\ FailTurn(n, t.req, t.req, "over")
  BY DEF PrepareFails, ServerInv, TurnsTyped, TurnsOK, NumbersOK, TurnRecords
<1>2. "over" \in PCs /\ t.pc \notin OwnerPCs
  BY <1>1 DEF PCs, OwnerPCs
<1>3. /\ UNCHANGED interrupts
      /\ Moves(n, "over", t.req, t.req + 2)
      /\ \/ UNCHANGED log
         \/ \E es : /\ Adds(t.conv, t.req, t.req, es)
                    /\ \A e \in es : e.seq < t.req + 2
  BY <1>1, <1>2, FailTurnFacts
<1>4. CASE UNCHANGED log
  <2>1. RegistryOK'
    BY <1>2, <1>3, MovesKeepsRegistry DEF ServerInv
  <2>2. \A m \in Slots : NumbersOK(turns[m])'
    BY <1>1, <1>3 DEF Moves, ServerInv, TurnsOK, NumbersOK, OwnerPCs
  <2>3. \A m \in Slots : Writing(turns[m])' =>
           /\ Writing(turns[m])
           /\ turns'[m].conv = turns[m].conv /\ turns'[m].id = turns[m].id
           /\ turns[m].seq <= turns'[m].seq
    <3>1. \A m \in Slots : turns[m].seq \in Nat
      BY DEF ServerInv, TurnsTyped, TurnRecords
    <3>2. QED
      BY <1>3, <3>1 DEF Moves, Writing, WritingPCs
  <2>4. QED
    BY <1>3, <1>4, <2>1, <2>2, <2>3, QuietStep DEF Moves
<1>5. CASE \E es : /\ Adds(t.conv, t.req, t.req, es)
                   /\ \A e \in es : e.seq < t.req + 2
  <2>1. t.req + 2 \in Nat
    BY <1>1
  <2>2. QED
    BY <1>1, <1>2, <1>3, <1>5, <2>1, AddingMove
<1>6. QED
  BY <1>3, <1>4, <1>5

LEMMA GotoKeeps ==
  ASSUME ServerInv, NEW n \in Slots, Writing(turns[n]), NEW pc \in WritingPCs, Goto(n, pc)
  PROVE  ServerInv'
<1> DEFINE t == turns[n]
           new == [t EXCEPT !.pc = pc]
<1>1. t.pc \in OwnerPCs /\ pc \in PCs
  BY DEF Writing, WritingPCs, OwnerPCs, PCs
<1>2. t \in TurnRecords /\ turns \in [Slots -> TurnRecords] /\ t.seq \in Nat \ {0}
  BY <1>1, Numbered DEF ServerInv, TurnsTyped
<1>3. turns' = [turns EXCEPT ![n] = new] /\ UNCHANGED <<log, interrupts>>
  BY <1>2 DEF Goto
<1>4. /\ new \in TurnRecords /\ new.pc = pc /\ new.id = t.id /\ new.seq = t.seq
      /\ new.conv = t.conv /\ new.req = t.req
  BY <1>1, <1>2 DEF TurnRecords
<1> HIDE DEF new
<1>5. Moves(n, pc, t.id, t.seq)
  BY <1>2, <1>3, <1>4 DEF Moves, TurnsTyped
<1>6. t.seq # 0 /\ t.seq <= t.seq
  BY <1>2
<1>7. QED
  BY <1>1, <1>3, <1>5, <1>6, QuietMove

(* An event that is stored but not streamed.                               *)
LEMMA SilentKeeps ==
  ASSUME ServerInv, NEW n \in Slots, Writing(turns[n]), NEW then \in WritingPCs,
         NEW type \in EventTypes \ {"turn.completed"}, NEW status \in Statuses,
         Free(turns[n].conv, turns[n].seq), UNCHANGED interrupts,
         log' = [log EXCEPT ![turns[n].conv] =
                   @ \cup {TurnEvent(n, turns[n].seq, type, status)}],
         turns' = [turns EXCEPT ![n].seq = @ + 1, ![n].pc = then]
  PROVE  ServerInv'
<1> DEFINE t == turns[n]
           e == TurnEvent(n, t.seq, type, status)
           next == t.seq + 1
           new == [t EXCEPT !.seq = next, !.pc = then]
<1>1. t.pc \in OwnerPCs /\ t.pc # "prepare" /\ then \in PCs
  BY DEF Writing, WritingPCs, OwnerPCs, PCs
<1>2. /\ t \in TurnRecords /\ turns \in [Slots -> TurnRecords]
      /\ t.conv \in Conversations /\ t.prompt \in Nat
      /\ t.id \in Nat \ {0} /\ t.seq \in Nat \ {0}
  BY <1>1, Numbered DEF ServerInv, TurnsTyped
<1>3. /\ e \in Events /\ e.conv = t.conv /\ e.seq = t.seq /\ e.type = type
      /\ e.turn = t.id
  BY <1>2, TurnEventFacts
<1>4. log' = [log EXCEPT ![t.conv] = @ \cup {e}]
  OBVIOUS
<1> HIDE DEF e
<1>5. Adds(t.conv, t.id, t.seq, {e})
  <2>1. Adds(t.conv, e.turn, e.seq, {e})
    BY <1>2, <1>3, <1>4, AddsOne DEF ServerInv
  <2>2. QED
    BY <1>3, <2>1
<1>6. turns' = [turns EXCEPT ![n] = new]
  BY <1>2
<1>7. next \in Nat /\ next = t.seq + 1
  BY <1>2
<1> HIDE DEF next
<1>8. /\ new \in TurnRecords /\ new.pc = then /\ new.id = t.id /\ new.seq = next
      /\ new.conv = t.conv /\ new.req = t.req
  BY <1>1, <1>2, <1>7 DEF TurnRecords
<1> HIDE DEF new
<1>9. Moves(n, then, t.id, next)
  BY <1>2, <1>6, <1>8 DEF Moves, TurnsTyped
<1>10. \A x \in {e} : x.seq < next /\ x.type # "turn.completed"
  BY <1>2, <1>3, <1>7
<1>11. QED
  BY <1>1, <1>2, <1>5, <1>7, <1>9, <1>10, AddingMove

LEMMA QueryDoneKeeps ==
  ASSUME ServerInv, NEW n \in Slots, QueryDone(n)
  PROVE  ServerInv'
<1> DEFINE t == turns[n]
           confirmed == "turn.query_entity.confirmed"
<1>1. Writing(t) /\ "answer" \in WritingPCs
  BY DEF QueryDone, Writing, WritingPCs
<1>2. CASE Goto(n, "answer")
  BY <1>1, <1>2, GotoKeeps
<1>3. CASE /\ Free(t.conv, t.seq)
           /\ log' = [log EXCEPT ![t.conv] = @ \cup {TurnEvent(n, t.seq, confirmed, "")}]
           /\ turns' = [turns EXCEPT ![n].seq = @ + 1, ![n].pc = "answer"]
           /\ UNCHANGED <<interrupts, spent>>
  <2>1. confirmed \in EventTypes \ {"turn.completed"} /\ "" \in Statuses
    BY DEF EventTypes, Statuses
  <2>2. QED
    BY <1>1, <1>3, <2>1, SilentKeeps
<1>4. QED
  BY <1>2, <1>3 DEF QueryDone

LEMMA FinishTurnKeeps ==
  ASSUME ServerInv, NEW n \in Slots, FinishTurn(n)
  PROVE  ServerInv'
<1> DEFINE t == turns[n]
           new == [t EXCEPT !.pc = "over"]
<1>1. /\ t \in TurnRecords /\ turns \in [Slots -> TurnRecords] /\ t.pc = "finish"
      /\ UNCHANGED log /\ interrupts' = Unregister(t.id)
  BY DEF FinishTurn, ServerInv, TurnsTyped
<1>2. turns' = [turns EXCEPT ![n] = new]
  BY <1>1 DEF FinishTurn
<1>3. new \in TurnRecords /\ new.pc = "over" /\ new.conv = t.conv /\ new.id = t.id
  BY <1>1 DEF TurnRecords, PCs
<1> HIDE DEF new
<1>4. turns'[n] = new /\ \A m \in Slots : m # n => turns'[m] = turns[m]
  BY <1>1, <1>2
<1>5. TurnsTyped'
  BY <1>1, <1>2, <1>3 DEF TurnsTyped
<1>6. RegistryOK'
  <2> SUFFICES ASSUME NEW i \in DOMAIN interrupts'
               PROVE  /\ i \in Nat /\ interrupts'[i] \in Slots
                      /\ turns'[interrupts'[i]].id = i
                      /\ turns'[interrupts'[i]].pc \in OwnerPCs
    BY DEF RegistryOK
  <2>1. i \in DOMAIN interrupts /\ i # t.id /\ interrupts'[i] = interrupts[i]
    BY <1>1 DEF Unregister
  <2>2. /\ i \in Nat /\ interrupts[i] \in Slots
        /\ turns[interrupts[i]].id = i /\ turns[interrupts[i]].pc \in OwnerPCs
    BY <2>1 DEF ServerInv, RegistryOK
  <2>3. QED
    BY <1>4, <2>1, <2>2
<1>7. \A m \in Slots : NumbersOK(turns[m])'
  BY <1>1, <1>3, <1>4 DEF ServerInv, TurnsOK, NumbersOK, OwnerPCs
<1>8. \A m \in Slots : Writing(turns[m])' =>
           /\ Writing(turns[m])
           /\ turns'[m].conv = turns[m].conv /\ turns'[m].id = turns[m].id
           /\ turns[m].seq <= turns'[m].seq
  <2>1. \A m \in Slots : turns[m].seq \in Nat
    BY <1>1 DEF TurnRecords
  <2>2. QED
    BY <1>3, <1>4, <2>1 DEF Writing, WritingPCs
<1>9. QED
  BY <1>1, <1>5, <1>6, <1>7, <1>8, QuietStep

(* Every step of a turn.                                                   *)
LEMMA StepKeeps ==
  ASSUME ServerInv, NEW n \in Slots, Step(n)
  PROVE  ServerInv'
<1>1. CASE Prepare(n)
  BY <1>1, PrepareKeeps
<1>2. CASE PrepareFails(n)
  BY <1>2, PrepareFailsKeeps
<1>3. CASE Start(n)
  <2>1. "turn.started" \in EventTypes \ {"turn.completed"} /\ "" \in Statuses
        /\ "accept" \in WritingPCs
    BY DEF EventTypes, Statuses, WritingPCs
  <2>2. turns[n].pc = "start" /\ WriteOrStop(n, "turn.started", "", "accept")
    BY <1>3 DEF Start
  <2>3. QED
    BY <2>1, <2>2, WriteOrStopKeeps
<1>4. CASE Accept(n)
  <2>1. "turn.user_message.accepted" \in EventTypes \ {"turn.completed"}
        /\ "" \in Statuses /\ "talk" \in WritingPCs
    BY DEF EventTypes, Statuses, WritingPCs
  <2>2. Writing(turns[n]) /\ WriteOrStop(n, "turn.user_message.accepted", "", "talk")
    BY <1>4 DEF Accept, Writing, WritingPCs
  <2>3. QED
    BY <2>1, <2>2, WriteOrStopKeeps
<1>5. CASE LookAtInterrupt(n)
  <2>1. Writing(turns[n]) /\ {"interrupt", "recv"} \subseteq WritingPCs
    BY <1>5 DEF LookAtInterrupt, Writing, WritingPCs
  <2>2. QED
    BY <1>5, <2>1, GotoKeeps DEF LookAtInterrupt
<1>6. CASE Chunk(n)
  <2>1. "turn.agent_message.delta" \in EventTypes \ {"turn.completed"}
        /\ "" \in Statuses /\ "talk" \in WritingPCs
    BY DEF EventTypes, Statuses, WritingPCs
  <2>2. Writing(turns[n]) /\ WriteOrStop(n, "turn.agent_message.delta", "", "talk")
    BY <1>6 DEF Chunk, Writing, WritingPCs
  <2>3. QED
    BY <2>1, <2>2, WriteOrStopKeeps
<1>7. CASE StreamDone(n)
  <2>1. Writing(turns[n]) /\ "complete" \in WritingPCs
    BY <1>7 DEF StreamDone, Writing, WritingPCs
  <2>2. QED
    BY <1>7, <2>1, GotoKeeps DEF StreamDone
<1>8. CASE RecvFails(n)
  <2>1. Writing(turns[n]) /\ "interrupt" \in WritingPCs
    BY <1>8 DEF RecvFails, Writing, WritingPCs
  <2>2. CASE Goto(n, "interrupt")
    BY <2>1, <2>2, GotoKeeps
  <2>3. CASE FailTurn(n, turns[n].id, turns[n].seq, "finish")
    BY <2>1, <2>3, FailTurnKeeps
  <2>4. QED
    BY <1>8, <2>2, <2>3 DEF RecvFails
<1>9. CASE ReplyFails(n)
  <2>1. Writing(turns[n])
    BY <1>9 DEF ReplyFails, Writing, WritingPCs
  <2>2. QED
    BY <1>9, <2>1, FailTurnKeeps DEF ReplyFails
<1>10. CASE QueryDone(n)
  BY <1>10, QueryDoneKeeps
<1>11. CASE Answer(n)
  <2>1. "turn.agent_message.delta" \in EventTypes \ {"turn.completed"}
        /\ "" \in Statuses /\ "complete" \in WritingPCs
    BY DEF EventTypes, Statuses, WritingPCs
  <2>2. Writing(turns[n]) /\ WriteOrStop(n, "turn.agent_message.delta", "", "complete")
    BY <1>11 DEF Answer, Writing, WritingPCs
  <2>3. QED
    BY <2>1, <2>2, WriteOrStopKeeps
<1>12. CASE CompleteMessage(n)
  <2>1. "turn.agent_message.completed" \in EventTypes /\ "" \in Statuses
        /\ "close" \in WritingPCs /\ "close" \in PCs
    BY DEF EventTypes, Statuses, WritingPCs, PCs
  <2>2. Writing(turns[n]) /\ WriteAnyway(n, "turn.agent_message.completed", "", "close")
    BY <1>12 DEF CompleteMessage, Writing, WritingPCs
  <2>3. QED
    BY <2>1, <2>2, WriteAnywayKeeps
<1>13. CASE CompleteTurn(n)
  <2>1. "turn.completed" \in EventTypes /\ "completed" \in Statuses /\ "finish" \in PCs
    BY DEF EventTypes, Statuses, PCs
  <2>2. Writing(turns[n]) /\ WriteAnyway(n, "turn.completed", "completed", "finish")
    BY <1>13 DEF CompleteTurn, Writing, WritingPCs
  <2>3. QED
    BY <2>1, <2>2, WriteAnywayKeeps
<1>14. CASE Interrupted(n)
  <2>1. "turn.interrupted" \in EventTypes /\ "" \in Statuses
        /\ "closeInterrupted" \in WritingPCs /\ "closeInterrupted" \in PCs
    BY DEF EventTypes, Statuses, WritingPCs, PCs
  <2>2. Writing(turns[n]) /\ WriteAnyway(n, "turn.interrupted", "", "closeInterrupted")
    BY <1>14 DEF Interrupted, Writing, WritingPCs
  <2>3. QED
    BY <2>1, <2>2, WriteAnywayKeeps
<1>15. CASE CompleteInterrupted(n)
  <2>1. "turn.completed" \in EventTypes /\ "interrupted" \in Statuses /\ "finish" \in PCs
    BY DEF EventTypes, Statuses, PCs
  <2>2. Writing(turns[n]) /\ WriteAnyway(n, "turn.completed", "interrupted", "finish")
    BY <1>15 DEF CompleteInterrupted, Writing, WritingPCs
  <2>3. QED
    BY <2>1, <2>2, WriteAnywayKeeps
<1>16. CASE FinishTurn(n)
  BY <1>16, FinishTurnKeeps
<1>17. QED
  BY <1>1, <1>2, <1>3, <1>4, <1>5, <1>6, <1>7, <1>8, <1>9, <1>10, <1>11, <1>12, <1>13,
     <1>14, <1>15, <1>16 DEF Step

-----------------------------------------------------------------------------
(* The other steps.  A step that changes neither the logs nor the course of*)
(* a turn, and at most forgets entries.                                    *)
LEMMA AsideKeeps ==
  ASSUME ServerInv, UNCHANGED log, TurnsTyped',
         \A n \in Slots : /\ turns'[n].pc = turns[n].pc /\ turns'[n].id = turns[n].id
                          /\ turns'[n].seq = turns[n].seq /\ turns'[n].req = turns[n].req
                          /\ turns'[n].conv = turns[n].conv,
         \A i \in DOMAIN interrupts' :
           i \in DOMAIN interrupts /\ interrupts'[i] = interrupts[i]
  PROVE  ServerInv'
<1>1. RegistryOK'
  BY DEF ServerInv, RegistryOK
<1>2. \A n \in Slots : NumbersOK(turns[n])'
  BY DEF ServerInv, TurnsOK, NumbersOK
<1>3. \A n \in Slots : Writing(turns[n])' =>
           /\ Writing(turns[n])
           /\ turns'[n].conv = turns[n].conv /\ turns'[n].id = turns[n].id
           /\ turns[n].seq <= turns'[n].seq
  <2>1. \A n \in Slots : turns[n].seq \in Nat
    BY DEF ServerInv, TurnsTyped, TurnRecords
  <2>2. QED
    BY <2>1 DEF Writing
<1>4. QED
  BY <1>1, <1>2, <1>3, QuietStep

(* What such steps change in the record of a turn.                         *)
LeftRecord(t, out) == [t EXCEPT !.gone = TRUE, !.out = out]

LEMMA RecordAside ==
  ASSUME NEW t \in TurnRecords, NEW out \in Seq(Events), NEW new,
         \/ new = [t EXCEPT !.stopped = TRUE]
         \/ new = [t EXCEPT !.out = out]
         \/ new = LeftRecord(t, out)
  PROVE  /\ new \in TurnRecords
         /\ new.pc = t.pc /\ new.id = t.id /\ new.seq = t.seq
         /\ new.conv = t.conv /\ new.req = t.req
<1> DEFINE S == Seq(Events)
<1>1. out \in S
  OBVIOUS
<1>2. TurnRecords =
        [pc : PCs, conv : Conversations \cup {NoConversation}, req : Nat, seq : Nat,
         id : Nat, prompt : Nat, flow : {"provider", "query"}, deltas : Nat,
         stopped : BOOLEAN, gone : BOOLEAN, broken : BOOLEAN, out : S]
  BY DEF TurnRecords
<1> HIDE DEF S
<1>3. QED
  BY <1>1, <1>2 DEF LeftRecord

LEMMA InterruptTurnKeeps ==
  ASSUME ServerInv, NEW c \in Conversations, NEW id, InterruptTurn(c, id)
  PROVE  ServerInv'
<1>1. CASE id \in DOMAIN interrupts /\ turns[interrupts[id]].conv = c
  <2> DEFINE n == interrupts[id]
             t == turns[n]
             new == [t EXCEPT !.stopped = TRUE]
  <2>1. n \in Slots /\ t \in TurnRecords /\ turns \in [Slots -> TurnRecords]
    BY <1>1 DEF ServerInv, RegistryOK, TurnsTyped
  <2>2. turns' = [turns EXCEPT ![n] = new] /\ interrupts' = Unregister(id) /\ UNCHANGED log
    BY <1>1, <2>1 DEF InterruptTurn
  <2>3. t.out \in Seq(Events)
    BY <2>1 DEF TurnRecords
  <2>4. /\ new \in TurnRecords
        /\ new.pc = t.pc /\ new.id = t.id /\ new.seq = t.seq
        /\ new.conv = t.conv /\ new.req = t.req
    <3> HIDE DEF t
    <3>1. QED
      BY <2>1, <2>3, RecordAside
  <2> HIDE DEF new, n
  <2>5. TurnsTyped' /\ \A m \in Slots : turns'[m] = IF m = n THEN new ELSE turns[m]
    BY <2>1, <2>2, <2>4 DEF TurnsTyped
  <2>6. \A i \in DOMAIN interrupts' :
          i \in DOMAIN interrupts /\ interrupts'[i] = interrupts[i]
    BY <2>2 DEF Unregister
  <2>7. \A m \in Slots : /\ turns'[m].pc = turns[m].pc /\ turns'[m].id = turns[m].id
                         /\ turns'[m].seq = turns[m].seq /\ turns'[m].req = turns[m].req
                         /\ turns'[m].conv = turns[m].conv
    BY <2>4, <2>5
  <2>8. QED
    BY <2>2, <2>5, <2>6, <2>7, AsideKeeps
<1>2. CASE UNCHANGED turnVars
  BY <1>2, AsideKeeps DEF turnVars, ServerInv, TurnsTyped
<1>3. QED
  BY <1>1, <1>2 DEF InterruptTurn

LEMMA DeliverKeeps ==
  ASSUME ServerInv, NEW n \in Slots, Deliver(n)
  PROVE  ServerInv'
<1> DEFINE t == turns[n]
           out == Tail(t.out)
           new == [t EXCEPT !.out = out]
<1>1. t \in TurnRecords /\ turns \in [Slots -> TurnRecords] /\ t.out \in Seq(Events)
  BY DEF ServerInv, TurnsTyped, TurnRecords
<1>2. out \in Seq(Events)
  BY <1>1, HeadTailProperties DEF Deliver
<1>3. turns' = [turns EXCEPT ![n] = new] /\ UNCHANGED <<log, interrupts>>
  BY <1>1 DEF Deliver
<1> HIDE DEF out
<1>4. /\ new \in TurnRecords
      /\ new.pc = t.pc /\ new.id = t.id /\ new.seq = t.seq
      /\ new.conv = t.conv /\ new.req = t.req
  <2> HIDE DEF t
  <2>1. QED
    BY <1>1, <1>2, RecordAside
<1> HIDE DEF new
<1>5. TurnsTyped' /\ \A m \in Slots : turns'[m] = IF m = n THEN new ELSE turns[m]
  BY <1>1, <1>3, <1>4 DEF TurnsTyped
<1>6. \A m \in Slots : /\ turns'[m].pc = turns[m].pc /\ turns'[m].id = turns[m].id
                       /\ turns'[m].seq = turns[m].seq /\ turns'[m].req = turns[m].req
                       /\ turns'[m].conv = turns[m].conv
  BY <1>4, <1>5
<1>7. QED
  BY <1>3, <1>5, <1>6, AsideKeeps

LEMMA DisconnectKeeps ==
  ASSUME ServerInv, NEW dropped \in SUBSET Slots, Disconnect(dropped)
  PROVE  ServerInv'
<1> DEFINE Left(m) == [turns[m] EXCEPT !.gone = TRUE, !.out = <<>>]
<1>1. turns \in [Slots -> TurnRecords] /\ UNCHANGED <<log, interrupts>>
  BY DEF Disconnect, ServerInv, TurnsTyped
<1>2. \A m \in Slots :
        /\ Left(m) \in TurnRecords
        /\ Left(m).pc = turns[m].pc /\ Left(m).id = turns[m].id
        /\ Left(m).seq = turns[m].seq
        /\ Left(m).conv = turns[m].conv /\ Left(m).req = turns[m].req
  <2> SUFFICES ASSUME NEW m \in Slots
               PROVE  /\ Left(m) \in TurnRecords
                      /\ Left(m).pc = turns[m].pc /\ Left(m).id = turns[m].id
                      /\ Left(m).seq = turns[m].seq
                      /\ Left(m).conv = turns[m].conv /\ Left(m).req = turns[m].req
    OBVIOUS
  <2> DEFINE none == <<>>
             t == turns[m]
             new == Left(m)
  <2>1. none \in Seq(Events) /\ t \in TurnRecords
    BY <1>1, EmptySeq
  <2>2. new = LeftRecord(t, none)
    BY DEF LeftRecord
  <2> HIDE DEF new, none, t
  <2>3. /\ new \in TurnRecords
        /\ new.pc = t.pc /\ new.id = t.id /\ new.seq = t.seq
        /\ new.conv = t.conv /\ new.req = t.req
    BY <2>1, <2>2, RecordAside
  <2>4. QED
    BY <2>3 DEF new, t
<1>3. turns' = [m \in Slots |-> IF m \in dropped THEN Left(m) ELSE turns[m]]
  BY DEF Disconnect
<1> HIDE DEF Left
<1>4. TurnsTyped'
  BY <1>1, <1>2, <1>3 DEF TurnsTyped
<1>5. \A m \in Slots : /\ turns'[m].pc = turns[m].pc /\ turns'[m].id = turns[m].id
                       /\ turns'[m].seq = turns[m].seq /\ turns'[m].req = turns[m].req
                       /\ turns'[m].conv = turns[m].conv
  BY <1>2, <1>3
<1>6. QED
  BY <1>1, <1>4, <1>5, AsideKeeps

LEMMA RestartKeeps ==
  ASSUME ServerInv, Restart
  PROVE  ServerInv'
<1> DEFINE Stopped(m) == [turns[m] EXCEPT !.pc = "over"]
<1>1. /\ turns \in [Slots -> TurnRecords] /\ UNCHANGED log
      /\ turns' = [m \in Slots |-> IF Running(m) THEN Stopped(m) ELSE turns[m]]
      /\ interrupts' = [i \in {} |-> 0]
  BY DEF Restart, ServerInv, TurnsTyped
<1>2. \A m \in Slots : /\ Stopped(m) \in TurnRecords /\ Stopped(m).pc = "over"
                       /\ Stopped(m).conv = turns[m].conv
  <2> SUFFICES ASSUME NEW m \in Slots
               PROVE  /\ Stopped(m) \in TurnRecords /\ Stopped(m).pc = "over"
                      /\ Stopped(m).conv = turns[m].conv
    OBVIOUS
  <2>1. turns[m] \in TurnRecords
    BY <1>1
  <2>2. QED
    BY <2>1 DEF TurnRecords, PCs
<1> HIDE DEF Stopped
<1>3. TurnsTyped'
  BY <1>1, <1>2 DEF TurnsTyped
<1>4. RegistryOK'
  BY <1>1 DEF RegistryOK
<1>5. \A m \in Slots : NumbersOK(turns[m])'
  BY <1>1, <1>2 DEF ServerInv, TurnsOK, NumbersOK, OwnerPCs, Running
<1>6. \A m \in Slots : ~Writing(turns[m])'
  BY <1>1, <1>2 DEF Writing, WritingPCs, Running, TurnRecords, PCs
<1>7. QED
  BY <1>1, <1>3, <1>4, <1>5, <1>6, QuietStep

LEMMA ReceiveKeeps ==
  ASSUME ServerInv, NEW n \in Slots, NEW c \in Conversations, NEW next \in Nat \ {0},
         NEW prompt \in Drafts, Receive(n, c, next, prompt)
  PROVE  ServerInv'
<1> DEFINE new == [Idle EXCEPT !.pc = "prepare", !.conv = c, !.req = next,
                              !.prompt = prompt]
<1>1. /\ turns \in [Slots -> TurnRecords] /\ turns[n].pc = "idle"
      /\ turns' = [turns EXCEPT ![n] = new] /\ UNCHANGED <<log, interrupts>>
  BY DEF Receive, Unused, ServerInv, TurnsTyped
<1>2. new \in TurnRecords /\ new.pc = "prepare" /\ new.conv = c /\ new.req = next
  <2>1. <<>> \in Seq(Events)
    BY EmptySeq
  <2>2. prompt \in Nat
    BY DraftAssumption
  <2>3. QED
    BY <2>1, <2>2 DEF Idle, TurnRecords, PCs, NoConversation, NoTurn, NoDraft
<1> HIDE DEF new
<1>3. turns'[n] = new /\ \A m \in Slots : m # n => turns'[m] = turns[m]
  BY <1>1
<1>4. TurnsTyped'
  BY <1>1, <1>2 DEF TurnsTyped
<1>5. RegistryOK'
  BY <1>1, <1>3 DEF ServerInv, RegistryOK, OwnerPCs
<1>6. \A m \in Slots : NumbersOK(turns[m])'
  BY <1>2, <1>3 DEF ServerInv, TurnsOK, NumbersOK, OwnerPCs
<1>7. \A m \in Slots : Writing(turns[m])' =>
           /\ Writing(turns[m])
           /\ turns'[m].conv = turns[m].conv /\ turns'[m].id = turns[m].id
           /\ turns[m].seq <= turns'[m].seq
  <2>1. \A m \in Slots : turns[m].seq \in Nat
    BY <1>1 DEF TurnRecords
  <2>2. QED
    BY <1>2, <1>3, <2>1 DEF Writing, WritingPCs
<1>8. QED
  BY <1>1, <1>4, <1>5, <1>6, <1>7, QuietStep

(***************************************************************************)
(* The server with clients that ask for any number.                        *)
(***************************************************************************)
AnyClientStep ==
  \/ \E n \in Slots : Deliver(n)
  \/ \E c \in Conversations :
       \/ CreateConversation(c)
       \/ \E n \in Slots, next \in Nat \ {0}, prompt \in Drafts :
            Receive(n, c, next, prompt)
       \/ \E id \in Nat \ {0} : InterruptTurn(c, id)
       \/ \E type \in ConversationTypes : UpdateConversation(c, type)
  \/ \E dropped \in SUBSET Slots : Disconnect(dropped)

AnyTurnsNext == ServerStep \/ AnyClientStep

LEMMA TurnsNextIsAny == TurnsNext => AnyTurnsNext
BY RequestAssumption DEF TurnsNext, AnyTurnsNext, ClientStep, AnyClientStep

LEMMA ServerInvNext == ServerInv /\ [AnyTurnsNext]_turnVars => ServerInv'
<1> SUFFICES ASSUME ServerInv, [AnyTurnsNext]_turnVars PROVE ServerInv'
  OBVIOUS
<1>1. CASE UNCHANGED turnVars
  BY <1>1, AsideKeeps DEF turnVars, ServerInv, TurnsTyped
<1>2. CASE Restart
  BY <1>2, RestartKeeps
<1>3. CASE \E n \in Slots : TurnStep(n)
  BY <1>3, StepKeeps DEF TurnStep
<1>4. ASSUME NEW c \in Conversations, NEW id \in Nat \ {0}, InterruptTurn(c, id)
      PROVE  ServerInv'
  BY <1>4, InterruptTurnKeeps
<1>5. ASSUME NEW c \in Conversations, CreateConversation(c)
      PROVE  ServerInv'
  BY <1>5, CreateConversationKeeps
<1>6. ASSUME NEW c \in Conversations, NEW type \in ConversationTypes,
             UpdateConversation(c, type)
      PROVE  ServerInv'
  BY <1>6, UpdateConversationKeeps
<1>7. ASSUME NEW c \in Conversations, NEW n \in Slots, NEW next \in Nat \ {0},
             NEW prompt \in Drafts, Receive(n, c, next, prompt)
      PROVE  ServerInv'
  BY <1>7, ReceiveKeeps
<1>8. CASE \E n \in Slots : Deliver(n)
  BY <1>8, DeliverKeeps
<1>9. CASE \E dropped \in SUBSET Slots : Disconnect(dropped)
  BY <1>9, DisconnectKeeps
<1>10. QED
  BY <1>1, <1>2, <1>3, <1>4, <1>5, <1>6, <1>7, <1>8, <1>9
     DEF AnyTurnsNext, ServerStep, AnyClientStep

LEMMA ServerAlwaysInv == TurnsSpec => []ServerInv
BY ServerInvInit, ServerInvNext, TurnsNextIsAny, PTL DEF TurnsSpec

(***************************************************************************)
(* However many turns write to a conversation and whatever fails or        *)
(* restarts, the numbers of its log stay distinct, and turns and registry  *)
(* keep their shape: the unique index of the event table is all the turns  *)
(* of gateway.go and cubebox_query_flow.go share.                          *)
(***************************************************************************)
THEOREM ServerAlwaysTyped == TurnsSpec => []ServerTypeOK
BY ServerAlwaysInv, InvImplies, PTL

(* A stored turn begins under its own number and nothing of it is stored   *)
(* after its completion, with any number of turns racing.                  *)
THEOREM OneOutcomeAlways == TurnsSpec => []OneOutcome
BY ServerAlwaysInv, InvImplies, PTL

(* The registry of interrupt channels never keeps a turn that is over: no  *)
(* order of StartTurnWithIDs, InterruptTurn and FinishTurn leaks an entry, *)
(* though turns of different conversations share their keys.               *)
THEOREM RegistryAlwaysFollows == TurnsSpec => []RegistryFollowsTurns
BY ServerAlwaysInv, InvImplies, PTL

-----------------------------------------------------------------------------
(***************************************************************************)
(* The story of a turn: what it has stored, and what of it is on its way   *)
(* to the panel.                                                           *)
(***************************************************************************)
Began(t) == t.id < t.seq /\ ~t.broken
Unread(t) == {t.out[i] : i \in DOMAIN t.out}
Mine(t) == {e \in log[t.conv] : e.turn = t.id}
Heard(t) == Mine(t) \ Unread(t)

(* A turn that has stored events, as far as the others can tell.           *)
Speaker(t) == Writing(t) \/ Began(t) \/ \E e \in Unread(t) : e.type # "turn.error"

(* Once its end has been told a turn is closing.                           *)
ClosingPCs == {"close", "closeInterrupted", "finish", "over"}

(* What shows of a turn.                                                   *)
TellTypes == {"turn.user_message.accepted", "turn.agent_message.delta"} \cup FinishTypes

(* Nothing has finished the reply yet.                                     *)
TalkPCs == {"accept", "talk", "recv", "answer", "interrupt", "complete"}
EarlyPCs == {"idle", "prepare", "start"}

SpeakersDiffer ==
  \A m, n \in Slots :
    Speaker(turns[m]) /\ Speaker(turns[n]) /\ turns[m].conv = turns[n].conv
      /\ turns[m].id = turns[n].id => m = n

TurnStory(t) ==
  /\ Speaker(t) => /\ t.conv \in Conversations /\ t.id \in Nat \ {0} /\ Begun(t.conv, t.id)
                   /\ \A e \in Mine(t) : e.type = "turn.user_message.accepted" =>
                        e.text = t.prompt
  /\ t.pc \in TalkPCs => \A e \in Mine(t) : e.type \notin FinishTypes
  /\ t.pc \in EarlyPCs \/ t.gone => t.out = <<>>
  /\ t.pc = "prepare" => t.seq = 0
  /\ \A e \in Unread(t) : /\ e.turn = t.id /\ e.conv = t.conv
                          /\ e.type # "turn.error" => e \in log[t.conv]

(* The stream of a turn whose writes have all succeeded: what is not yet   *)
(* read is what was stored last.                                           *)
OutStory(t) ==
  /\ Began(t)
  /\ Unread(t) \subseteq log[t.conv]
  /\ \A i, j \in DOMAIN t.out : i < j => t.out[i].seq < t.out[j].seq
  /\ \A e \in Unread(t) : e.seq < t.seq
  /\ \A e \in Unread(t), f \in Mine(t) :
       f.type \in FinishTypes /\ e.seq <= f.seq => f \in Unread(t)

StoryInv ==
  /\ DeltasFirst
  /\ SpeakersDiffer
  /\ \A n \in Slots : TurnStory(turns[n])
  /\ \A n \in Slots : turns[n].out # <<>> /\ ~turns[n].broken => OutStory(turns[n])

(***************************************************************************)
(* A step of turn n: it stores the events es and says what said holds.     *)
(***************************************************************************)
Rising(es) == \A i, j \in DOMAIN es : i < j => es[i].seq < es[j].seq
Among(said, es) == \A i \in DOMAIN said : said[i] \in es

Continues(t, es) == Writing(t) /\ \A e \in es : t.seq <= e.seq
Begins(t, u, es) == /\ t.pc \in EarlyPCs
                    /\ \E e \in es : e.seq = u.id

MovesOn(t, u, es, said) ==
  /\ u.conv = t.conv /\ u.prompt = t.prompt /\ u.gone = t.gone /\ t.seq <= u.seq
  /\ u.out = IF t.gone THEN t.out ELSE t.out \o said
  /\ u.id # t.id => t.pc = "prepare"
  /\ t.pc # "idle" /\ u.pc \notin {"idle", "prepare"}
  /\ u.pc = "start" => t.pc = "prepare" /\ said = <<>>
  /\ u.pc \in TalkPCs => /\ t.pc \in TalkPCs \/ Begins(t, u, es)
                         /\ \A e \in es : e.type \notin FinishTypes

StoresMore(t, u, es) ==
  /\ \A e \in es : /\ e.conv = t.conv /\ e.turn = u.id /\ Free(t.conv, e.seq) /\ e.seq < u.seq
                   /\ e.type = "turn.user_message.accepted" => e.text = t.prompt
                   /\ e.type = "turn.agent_message.delta" =>
                        t.pc \in TalkPCs /\ \A f \in es : f.type \notin FinishTypes
  /\ es # {} => /\ u.id \in Nat \ {0} /\ u.id < u.seq
                /\ Continues(t, es) \/ Begins(t, u, es)
  /\ es = {} => (Began(u) => Began(t)) /\ (Writing(u) => Writing(t))

SaysMore(t, u, es, said) ==
  /\ \A i \in DOMAIN said : /\ said[i].turn = u.id /\ said[i].conv = t.conv
                            /\ said[i].type # "turn.error" => said[i] \in es
  /\ ~u.broken => /\ ~t.broken
                  /\ Among(said, es) /\ Rising(said)
                  /\ \A e \in es : e.type \in TellTypes => \E i \in DOMAIN said : said[i] = e

Tale(n, es, said) ==
  /\ es \in SUBSET Events /\ said \in Seq(Events)
  /\ \A m \in Slots : m # n => turns'[m] = turns[m]
  /\ log' = [log EXCEPT ![turns[n].conv] = @ \cup es]
  /\ MovesOn(turns[n], turns'[n], es, said)
  /\ StoresMore(turns[n], turns'[n], es)
  /\ SaysMore(turns[n], turns'[n], es, said)

(* A stream with more said.                                                *)
LEMMA Spoken ==
  ASSUME NEW out \in Seq(Events), NEW said \in Seq(Events)
  PROVE  LET both == out \o said
         IN /\ both \in Seq(Events)
            /\ {both[i] : i \in DOMAIN both} =
                 {out[i] : i \in DOMAIN out} \cup {said[i] : i \in DOMAIN said}
            /\ Rising(out) /\ Rising(said)
                 /\ (\A i \in DOMAIN out, j \in DOMAIN said : out[i].seq < said[j].seq)
                 => Rising(both)
<1> DEFINE both == out \o said
<1>1. /\ both \in Seq(Events) /\ Len(both) = Len(out) + Len(said)
      /\ \A i \in 1..Len(both) :
           both[i] = IF i <= Len(out) THEN out[i] ELSE said[i - Len(out)]
  BY ConcatProperties
<1>2. /\ Len(out) \in Nat /\ Len(said) \in Nat /\ Len(both) \in Nat
      /\ DOMAIN out = 1..Len(out) /\ DOMAIN said = 1..Len(said) /\ DOMAIN both = 1..Len(both)
  BY <1>1, LenProperties
<1> HIDE DEF both
<1>3. \A i \in DOMAIN out : i \in DOMAIN both /\ both[i] = out[i]
  BY <1>1, <1>2
<1>4. \A j \in DOMAIN said : Len(out) + j \in DOMAIN both /\ both[Len(out) + j] = said[j]
  BY <1>1, <1>2
<1>5. \A i \in DOMAIN both : \/ i \in DOMAIN out /\ both[i] = out[i]
                             \/ /\ i - Len(out) \in DOMAIN said
                                /\ both[i] = said[i - Len(out)] /\ ~(i <= Len(out))
  BY <1>1, <1>2
<1>6. {both[i] : i \in DOMAIN both} =
        {out[i] : i \in DOMAIN out} \cup {said[i] : i \in DOMAIN said}
  <2> DEFINE A == {both[i] : i \in DOMAIN both}
             B == {out[i] : i \in DOMAIN out}
             C == {said[i] : i \in DOMAIN said}
  <2>1. \A e \in A : e \in B \cup C
    BY <1>5
  <2>2. \A e \in B : e \in A
    BY <1>3
  <2>3. \A e \in C : e \in A
    BY <1>4
  <2> QED
    BY <2>1, <2>2, <2>3
<1>7. ASSUME Rising(out), Rising(said),
             \A i \in DOMAIN out, j \in DOMAIN said : out[i].seq < said[j].seq,
             NEW i \in DOMAIN both, NEW j \in DOMAIN both, i < j
      PROVE  both[i].seq < both[j].seq
  <2>1. CASE i \in DOMAIN out /\ j \in DOMAIN out
    BY <1>3, <1>7, <2>1 DEF Rising
  <2>2. CASE i \in DOMAIN out /\ j \notin DOMAIN out
    BY <1>5, <1>7, <2>2
  <2>3. CASE i \notin DOMAIN out
    <3>1. /\ i - Len(out) \in DOMAIN said /\ both[i] = said[i - Len(out)]
          /\ j - Len(out) \in DOMAIN said /\ both[j] = said[j - Len(out)]
      BY <1>2, <1>5, <1>7, <2>3
    <3>2. i - Len(out) < j - Len(out)
      BY <1>2, <1>7
    <3> QED
      BY <1>7, <3>1, <3>2 DEF Rising
  <2> QED
    BY <2>1, <2>2, <2>3
<1> QED
  BY <1>1, <1>6, <1>7 DEF both, Rising

(* What such a step means for the logs.                                    *)
TaleMeans(n, es, said) ==
  LET t == turns[n]
      u == turns'[n]
      c == turns[n].conv
  IN /\ c \in Conversations /\ u.conv = c
     /\ log'[c] = log[c] \cup es
     /\ \A d \in Conversations : d # c => log'[d] = log[d]
     /\ \A d \in Conversations : log[d] \subseteq log'[d]
     /\ t.seq \in Nat /\ t.id \in Nat
     /\ Unread(u) = IF t.gone THEN {} ELSE Unread(t) \cup {said[i] : i \in DOMAIN said}
     /\ t.gone => t.out = <<>> /\ u.out = <<>>
     /\ Begins(t, u, es) => \A f \in log[c] : f.turn # u.id /\ f.seq # u.id
     /\ Begins(t, u, es) => t.out = <<>>
     /\ es # {} /\ Continues(t, es) =>
          /\ u.id = t.id /\ Speaker(t) /\ \A f \in log[c] : f.turn = u.id => f.seq < t.seq
     /\ u.id # t.id => t.out = <<>> /\ t.seq = 0 /\ ~Speaker(t)
     /\ \A m \in Slots : es # {} /\ m # n /\ Speaker(turns[m]) /\ turns[m].conv = c =>
          turns[m].id # u.id

LEMMA TaleFacts ==
  ASSUME ServerInv, StoryInv, NEW n \in Slots, NEW es, NEW said, Tale(n, es, said)
  PROVE  TaleMeans(n, es, said)
<1> DEFINE t == turns[n]
           u == turns'[n]
           c == turns[n].conv
<1>1. /\ TurnStory(t) /\ NumbersOK(t) /\ t \in TurnRecords /\ LogsOK
      /\ log \in [Conversations -> SUBSET Events]
      /\ Writing(t) => WrittenUpTo(c, t.id, t.seq)
  BY DEF ServerInv, StoryInv, TurnsTyped, TurnsOK, LogsOK
<1>2. MovesOn(t, u, es, said) /\ StoresMore(t, u, es) /\ SaysMore(t, u, es, said)
      /\ log' = [log EXCEPT ![c] = @ \cup es] /\ said \in Seq(Events)
  BY DEF Tale
<1>3. t.seq \in Nat /\ t.id \in Nat /\ t.out \in Seq(Events)
  BY <1>1 DEF TurnRecords
<1>4. c \in Conversations /\ u.conv = c
  BY <1>1, <1>2 DEF MovesOn, NumbersOK
<1>5. /\ log'[c] = log[c] \cup es
      /\ \A d \in Conversations : d # c => log'[d] = log[d]
  BY <1>1, <1>2, <1>4
<1> HIDE DEF t, u, c
<1>6. t.gone => t.out = <<>> /\ u.out = <<>>
  BY <1>1, <1>2 DEF TurnStory, MovesOn
<1>7. Unread(u) = IF t.gone THEN {} ELSE Unread(t) \cup {said[i] : i \in DOMAIN said}
  <2>1. CASE t.gone
    <3>1. Unread(u) = {}
      BY <1>6, <2>1 DEF Unread
    <3> QED
      BY <2>1, <3>1
  <2>2. CASE ~t.gone
    <3>1. u.out = t.out \o said
      BY <1>2, <2>2 DEF MovesOn
    <3>2. {(t.out \o said)[i] : i \in DOMAIN (t.out \o said)} =
            {t.out[i] : i \in DOMAIN t.out} \cup {said[i] : i \in DOMAIN said}
      BY <1>2, <1>3, Spoken
    <3>3. Unread(u) = {(t.out \o said)[i] : i \in DOMAIN (t.out \o said)}
      BY <3>1 DEF Unread
    <3>4. Unread(t) = {t.out[i] : i \in DOMAIN t.out}
      BY DEF Unread
    <3> QED
      BY <2>2, <3>2, <3>3, <3>4
  <2> QED
    BY <2>1, <2>2
<1>8. ASSUME Begins(t, u, es)
      PROVE  t.out = <<>> /\ \A f \in log[c] : f.turn # u.id /\ f.seq # u.id
  <2>1. Free(c, u.id) /\ u.id \in Nat \ {0}
    <3>1. PICK e \in es : e.seq = u.id
      BY <1>8 DEF Begins
    <3>2. Free(t.conv, e.seq) /\ u.id \in Nat \ {0}
      BY <1>2, <3>1 DEF StoresMore
    <3> QED
      BY <3>1, <3>2 DEF t, c
  <2>2. \A f \in log[c] : f.turn # u.id
    BY <1>1, <1>4, <2>1, FreshStoredNothing
  <2> QED
    BY <1>1, <1>8, <2>1, <2>2 DEF Free, Begins, TurnStory
<1>9. ASSUME es # {}, Continues(t, es)
      PROVE  u.id = t.id /\ Speaker(t) /\ \A f \in log[c] : f.turn = u.id => f.seq < t.seq
  <2>1. Writing(t)
    BY <1>9 DEF Continues
  <2>2. u.id = t.id
    BY <1>2, <2>1 DEF MovesOn, Writing, WritingPCs
  <2> QED
    BY <1>1, <2>1, <2>2 DEF WrittenUpTo, Speaker
<1>10. ASSUME u.id # t.id
       PROVE  t.out = <<>> /\ t.seq = 0 /\ ~Speaker(t)
  <2>1. t.pc = "prepare" /\ t.out = <<>> /\ t.seq = 0
    BY <1>1, <1>2, <1>10 DEF MovesOn, TurnStory, EarlyPCs
  <2>2. Unread(t) = {}
    BY <2>1 DEF Unread
  <2>3. ~Began(t) /\ ~Writing(t)
    BY <1>3, <2>1 DEF Began, Writing, WritingPCs
  <2> QED
    BY <2>1, <2>2, <2>3 DEF Speaker
<1>11. ASSUME NEW m \in Slots, es # {}, m # n, Speaker(turns[m]), turns[m].conv = c
       PROVE  turns[m].id # u.id
  <2>1. TurnStory(turns[m])
    BY DEF StoryInv
  <2>2. PICK f \in log[c] : f.seq = turns[m].id
    BY <1>11, <2>1 DEF TurnStory, Begun
  <2>3. Continues(t, es) \/ Begins(t, u, es)
    BY <1>2, <1>11 DEF StoresMore
  <2>4. CASE Begins(t, u, es)
    BY <1>8, <2>2, <2>4
  <2>5. CASE Continues(t, es)
    <3>1. u.id = t.id /\ Speaker(t)
      BY <1>9, <1>11, <2>5
    <3> QED
      BY <1>11, <3>1 DEF StoryInv, SpeakersDiffer, t, c
  <2> QED
    BY <2>3, <2>4, <2>5
<1>12. \A d \in Conversations : log[d] \subseteq log'[d]
  BY <1>5
<1> QED
  BY <1>3, <1>4, <1>5, <1>6, <1>7, <1>8, <1>9, <1>10, <1>11, <1>12 DEF TaleMeans, t, u, c

(* Such a step keeps the stories of all turns.                             *)
LEMMA TaleKeepsDeltasFirst ==
  ASSUME ServerInv, StoryInv, NEW n \in Slots, NEW es, NEW said, Tale(n, es, said)
  PROVE  DeltasFirst'
<1> DEFINE t == turns[n]
           u == turns'[n]
           c == turns[n].conv
<1>0. TaleMeans(n, es, said)
  BY TaleFacts
<1>1. /\ c \in Conversations
      /\ log'[c] = log[c] \cup es
      /\ \A d \in Conversations : d # c => log'[d] = log[d]
      /\ t.seq \in Nat
      /\ Begins(t, u, es) => \A f \in log[c] : f.turn # u.id
      /\ es # {} /\ Continues(t, es) =>
           u.id = t.id /\ \A f \in log[c] : f.turn = u.id => f.seq < t.seq
  BY <1>0 DEF TaleMeans
<1>2. /\ StoresMore(t, u, es) /\ es \in SUBSET Events /\ TurnStory(t) /\ DeltasFirst
      /\ \A d \in Conversations : log[d] \in SUBSET Events
  BY DEF Tale, StoryInv, ServerInv, LogsOK
<1>3. \A d \in Conversations : \A e \in log[d] \cup es : e.seq \in Nat
  BY <1>2, EventNumbers
<1>4. \A e \in es : /\ e.turn = u.id
                    /\ e.type = "turn.agent_message.delta" =>
                         t.pc \in TalkPCs /\ \A f \in es : f.type \notin FinishTypes
  BY <1>2 DEF StoresMore
<1>5. es # {} => Continues(t, es) \/ Begins(t, u, es)
  BY <1>2 DEF StoresMore
<1>6. t.pc \in TalkPCs => \A f \in log[c] : f.turn = t.id => f.type \notin FinishTypes
  BY <1>2 DEF TurnStory, Mine
<1>7. t.pc \in TalkPCs => ~Begins(t, u, es)
  BY DEF Begins, TalkPCs, EarlyPCs
<1> HIDE DEF t, u, c
<1>8. SUFFICES ASSUME NEW d \in Conversations, NEW e \in log'[d], NEW f \in log'[d],
                      e.turn = f.turn, e.type = "turn.agent_message.delta",
                      f.type \in FinishTypes
               PROVE  e.seq < f.seq
  BY DEF DeltasFirst
<1>9. CASE e \in log[d] /\ f \in log[d]
  BY <1>2, <1>8, <1>9 DEF DeltasFirst
<1>10. CASE d = c /\ e \in es
  <2>1. t.pc \in TalkPCs /\ f \notin es /\ f \in log[c] /\ f.turn = u.id
    BY <1>1, <1>4, <1>8, <1>10
  <2>2. u.id = t.id
    BY <1>1, <1>5, <1>7, <1>10, <2>1
  <2> QED
    BY <1>6, <1>8, <2>1, <2>2
<1>11. CASE d = c /\ e \notin es /\ f \in es
  <2>1. e \in log[c] /\ e.turn = u.id
    BY <1>1, <1>4, <1>8, <1>11
  <2>2. Continues(t, es) /\ e.seq < t.seq
    BY <1>1, <1>5, <1>11, <2>1
  <2>3. t.seq <= f.seq
    BY <1>11, <2>2 DEF Continues
  <2> QED
    BY <1>1, <1>3, <1>11, <2>1, <2>2, <2>3
<1> QED
  BY <1>1, <1>8, <1>9, <1>10, <1>11

LEMMA TaleSpeaker ==
  ASSUME ServerInv, StoryInv, NEW n \in Slots, NEW es, NEW said, Tale(n, es, said),
         Speaker(turns'[n])
  PROVE  es # {} \/ (Speaker(turns[n]) /\ turns'[n].id = turns[n].id)
<1> DEFINE t == turns[n]
           u == turns'[n]
<1> SUFFICES ASSUME es = {}
             PROVE  Speaker(t) /\ u.id = t.id
  OBVIOUS
<1>0. TaleMeans(n, es, said)
  BY TaleFacts
<1>1. /\ Unread(u) = IF t.gone THEN {} ELSE Unread(t) \cup {said[i] : i \in DOMAIN said}
      /\ u.id # t.id => ~Speaker(t)
  BY <1>0 DEF TaleMeans
<1>2. /\ (Began(u) => Began(t)) /\ (Writing(u) => Writing(t))
      /\ \A i \in DOMAIN said : said[i].type = "turn.error"
  BY DEF Tale, StoresMore, SaysMore
<1>3. Speaker(u)
  OBVIOUS
<1> HIDE DEF t, u
<1>4. (\E e \in Unread(u) : e.type # "turn.error") => \E e \in Unread(t) : e.type # "turn.error"
  BY <1>1, <1>2
<1>5. Speaker(t)
  BY <1>2, <1>3, <1>4 DEF Speaker
<1> QED
  BY <1>1, <1>5

LEMMA TaleKeepsDifferent ==
  ASSUME ServerInv, StoryInv, NEW n \in Slots, NEW es, NEW said, Tale(n, es, said)
  PROVE  SpeakersDiffer'
<1>0. TaleMeans(n, es, said)
  BY TaleFacts
<1>1. \A m \in Slots : m # n => turns'[m] = turns[m]
  BY DEF Tale
<1>2. SpeakersDiffer
  BY DEF StoryInv
<1>3. turns'[n].conv = turns[n].conv
  BY <1>0 DEF TaleMeans
<1>4. ASSUME NEW m \in Slots, m # n, Speaker(turns[m]), Speaker(turns'[n]),
             turns[m].conv = turns[n].conv
      PROVE  turns[m].id # turns'[n].id
  <2>1. CASE es # {}
    BY <1>4, <2>1, <1>0 DEF TaleMeans
  <2>2. CASE es = {}
    <3>1. Speaker(turns[n]) /\ turns'[n].id = turns[n].id
      BY <1>4, <2>2, TaleSpeaker
    <3> QED
      BY <1>2, <1>4, <3>1 DEF SpeakersDiffer
  <2> QED
    BY <2>1, <2>2
<1>5. SUFFICES ASSUME NEW m \in Slots, NEW k \in Slots,
                      Speaker(turns'[m]), Speaker(turns'[k]), turns'[m].conv = turns'[k].conv,
                      turns'[m].id = turns'[k].id
               PROVE  m = k
  BY DEF SpeakersDiffer, Speaker, Writing, Began, Unread
<1>6. CASE m # n /\ k # n
  BY <1>1, <1>2, <1>5, <1>6 DEF SpeakersDiffer
<1>7. CASE m = n /\ k # n
  BY <1>1, <1>3, <1>4, <1>5, <1>7
<1>8. CASE m # n /\ k = n
  BY <1>1, <1>3, <1>4, <1>5, <1>8
<1> QED
  BY <1>6, <1>7, <1>8

(* Of another turn nothing changes.                                        *)
LEMMA TaleKeepsMine ==
  ASSUME ServerInv, StoryInv, NEW n \in Slots, NEW es, NEW said, Tale(n, es, said),
         NEW m \in Slots, m # n, Speaker(turns[m])
  PROVE  Mine(turns[m])' = Mine(turns[m])
<1>0. TaleMeans(n, es, said)
  BY TaleFacts
<1>1. turns'[m] = turns[m] /\ turns[m].conv \in Conversations
  BY DEF Tale, StoryInv, TurnStory
<1>2. \A e \in es : e.turn = turns'[n].id
  BY DEF Tale, StoresMore
<1>3. /\ log'[turns[n].conv] = log[turns[n].conv] \cup es
      /\ \A d \in Conversations : d # turns[n].conv => log'[d] = log[d]
      /\ es # {} /\ turns[m].conv = turns[n].conv => turns[m].id # turns'[n].id
  BY <1>0 DEF TaleMeans
<1> QED
  BY <1>1, <1>2, <1>3 DEF Mine

LEMMA TaleKeepsOthers ==
  ASSUME ServerInv, StoryInv, NEW n \in Slots, NEW es, NEW said, Tale(n, es, said),
         NEW m \in Slots, m # n
  PROVE  /\ TurnStory(turns[m])'
         /\ (turns[m].out # <<>> /\ ~turns[m].broken => OutStory(turns[m]))'
<1> DEFINE t == turns[m]
           c == turns[n].conv
<1>0. TaleMeans(n, es, said)
  BY TaleFacts
<1>1. /\ turns'[m] = t /\ TurnStory(t)
      /\ t.out # <<>> /\ ~t.broken => OutStory(t)
  BY DEF Tale, StoryInv
<1>2. /\ \A d \in Conversations : log[d] \subseteq log'[d]
      /\ log'[c] = log[c] \cup es
      /\ \A d \in Conversations : d # c => log'[d] = log[d]
      /\ es # {} /\ Speaker(t) /\ t.conv = c => t.id # turns'[n].id
  BY <1>0 DEF TaleMeans
<1>3. Speaker(t) => Mine(t)' = Mine(t)
  BY TaleKeepsMine
<1>4. t.pc \in TalkPCs => Speaker(t)
  BY DEF TalkPCs, Speaker, Writing, WritingPCs
<1>5. \A e \in Unread(t) : e.type # "turn.error" => Speaker(t)
  BY DEF Speaker
<1>6. t.out # <<>> /\ ~t.broken => Speaker(t) /\ t.conv \in Conversations
  BY <1>1 DEF OutStory, Speaker, TurnStory
<1>7. Speaker(t)' <=> Speaker(t)
  BY <1>1 DEF Speaker, Writing, Began, Unread
<1>8. Mine(turns[m])' = {e \in log'[t.conv] : e.turn = t.id}
  BY <1>1 DEF Mine
<1> DEFINE mine == {e \in log'[t.conv] : e.turn = t.id}
<1>9. Speaker(t) => mine = Mine(t)
  BY <1>3, <1>8
<1> HIDE DEF mine, t, c
<1>10. /\ Speaker(t) => /\ t.conv \in Conversations /\ t.id \in Nat \ {0}
                        /\ \E f \in log'[t.conv] : f.seq = t.id /\ f.turn = t.id
                        /\ \A e \in mine : e.type = "turn.user_message.accepted" => e.text = t.prompt
       /\ t.pc \in TalkPCs => \A e \in mine : e.type \notin FinishTypes
       /\ t.pc \in EarlyPCs \/ t.gone => t.out = <<>>
       /\ t.pc = "prepare" => t.seq = 0
       /\ \A e \in Unread(t) : /\ e.turn = t.id /\ e.conv = t.conv
                               /\ e.type # "turn.error" => e \in log'[t.conv]
  BY <1>1, <1>2, <1>4, <1>5, <1>9 DEF TurnStory, Begun
<1>11. TurnStory(turns[m])'
  BY <1>1, <1>7, <1>8, <1>10 DEF TurnStory, Begun, Unread, mine, t
<1>12. t.out # <<>> /\ ~t.broken =>
         /\ Began(t) /\ Unread(t) \subseteq log'[t.conv]
         /\ \A i, j \in DOMAIN t.out : i < j => t.out[i].seq < t.out[j].seq
         /\ \A e \in Unread(t) : e.seq < t.seq
         /\ \A e \in Unread(t), f \in mine :
              f.type \in FinishTypes /\ e.seq <= f.seq => f \in Unread(t)
  BY <1>1, <1>2, <1>6, <1>9 DEF OutStory
<1>13. (turns[m].out # <<>> /\ ~turns[m].broken => OutStory(turns[m]))'
  BY <1>1, <1>8, <1>12 DEF OutStory, Began, Unread, mine, t
<1> QED
  BY <1>11, <1>13

(* The speaking turn keeps its own story.                                  *)
LEMMA TaleKeepsOwn ==
  ASSUME ServerInv, ServerInv', StoryInv, NEW n \in Slots, NEW es, NEW said,
         Tale(n, es, said)
  PROVE  TurnStory(turns[n])'
<1> DEFINE t == turns[n]
           u == turns'[n]
           c == turns[n].conv
<1>0. TaleMeans(n, es, said)
  BY TaleFacts
<1>1. /\ c \in Conversations /\ u.conv = c
      /\ log'[c] = log[c] \cup es
      /\ Unread(u) = IF t.gone THEN {} ELSE Unread(t) \cup {said[i] : i \in DOMAIN said}
      /\ t.gone => t.out = <<>> /\ u.out = <<>>
      /\ Begins(t, u, es) => \A f \in log[c] : f.turn # u.id
      /\ es # {} /\ Continues(t, es) => u.id = t.id /\ Speaker(t)
      /\ u.id # t.id => t.out = <<>>
  BY <1>0 DEF TaleMeans
<1>2. /\ TurnStory(t) /\ MovesOn(t, u, es, said) /\ StoresMore(t, u, es)
      /\ SaysMore(t, u, es, said)
      /\ Speaker(u) => es # {} \/ (Speaker(t) /\ u.id = t.id)
  BY TaleSpeaker DEF Tale, StoryInv
<1> DEFINE mine == {e \in log'[c] : e.turn = u.id}
<1>3. \A e \in mine : e \in es \/ (e \in log[c] /\ e.turn = u.id)
  BY <1>1
<1>4. Mine(turns[n])' = mine
  BY <1>1 DEF Mine
<1> HIDE DEF t, u, c, mine
<1>5. u.id = t.id => \A e \in log[c] : e.turn = u.id => e \in Mine(t)
  BY DEF Mine, c, t
<1>6. ASSUME Speaker(u)
      PROVE  /\ u.id \in Nat \ {0} /\ \E f \in log'[c] : f.seq = u.id /\ f.turn = u.id
             /\ \A e \in mine : e.type = "turn.user_message.accepted" => e.text = u.prompt
  <2>1. \A e \in es : /\ e.turn = u.id
                      /\ e.type = "turn.user_message.accepted" => e.text = u.prompt
    BY <1>2 DEF StoresMore, MovesOn
  <2>2. CASE Begins(t, u, es)
    <3>1. PICK e \in es : e.seq = u.id
      BY <2>2 DEF Begins
    <3>2. u.id \in Nat \ {0}
      BY <1>2, <3>1 DEF StoresMore
    <3> QED
      BY <1>1, <1>3, <2>1, <2>2, <3>1, <3>2
  <2>3. CASE Speaker(t) /\ u.id = t.id
    <3>1. /\ t.id \in Nat \ {0} /\ Begun(t.conv, t.id)
          /\ \A e \in Mine(t) : e.type = "turn.user_message.accepted" => e.text = t.prompt
      BY <1>2, <2>3 DEF TurnStory
    <3>2. t.prompt = u.prompt
      BY <1>2 DEF MovesOn
    <3>3. \E f \in log[c] : f.seq = t.id /\ f.turn = t.id
      BY <3>1 DEF Begun, t, c
    <3> QED
      BY <1>1, <1>3, <1>5, <2>1, <2>3, <3>1, <3>2, <3>3
  <2>4. es # {} => Continues(t, es) \/ Begins(t, u, es)
    BY <1>2 DEF StoresMore
  <2> QED
    BY <1>1, <1>2, <1>6, <2>2, <2>3, <2>4
<1>7. ASSUME u.pc \in TalkPCs
      PROVE  \A e \in mine : e.type \notin FinishTypes
  <2>1. t.pc \in TalkPCs \/ Begins(t, u, es)
    BY <1>2, <1>7 DEF MovesOn
  <2>2. \A e \in es : e.type \notin FinishTypes
    BY <1>2, <1>7 DEF MovesOn
  <2>3. t.pc \in TalkPCs => u.id = t.id
    BY <1>2 DEF MovesOn, TalkPCs
  <2>4. t.pc \in TalkPCs => \A e \in Mine(t) : e.type \notin FinishTypes
    BY <1>2 DEF TurnStory
  <2> QED
    BY <1>1, <1>3, <1>5, <2>1, <2>2, <2>3, <2>4
<1>8. u.pc \in EarlyPCs \/ u.gone => u.out = <<>>
  <2>1. u.gone => u.out = <<>>
    BY <1>1, <1>2 DEF MovesOn
  <2>2. ASSUME u.pc \in EarlyPCs
        PROVE  u.out = <<>>
    <3>1. t.pc = "prepare" /\ said = <<>>
      BY <1>2, <2>2 DEF MovesOn, EarlyPCs
    <3>2. t.out = <<>>
      BY <1>2, <3>1 DEF TurnStory, EarlyPCs
    <3>3. <<>> \o <<>> = <<>>
      OBVIOUS
    <3> QED
      BY <1>2, <3>1, <3>2, <3>3 DEF MovesOn
  <2> QED
    BY <2>1, <2>2
<1>9. u.pc # "prepare"
  BY <1>2 DEF MovesOn
<1>10. ASSUME NEW e \in Unread(u)
       PROVE  /\ e.turn = u.id /\ e.conv = u.conv
              /\ e.type # "turn.error" => e \in log'[c]
  <2>1. ~t.gone /\ (e \in Unread(t) \/ \E i \in DOMAIN said : e = said[i])
    BY <1>1, <1>10
  <2>2. CASE e \in Unread(t)
    <3>1. e.turn = t.id /\ e.conv = t.conv /\ (e.type # "turn.error" => e \in log[t.conv])
      BY <1>2, <2>2 DEF TurnStory
    <3>2. t.out # <<>>
      BY <2>2 DEF Unread
    <3>3. t.conv = c
      BY DEF t, c
    <3> QED
      BY <1>1, <3>1, <3>2, <3>3
  <2>3. CASE \E i \in DOMAIN said : e = said[i]
    BY <1>1, <1>2, <2>3 DEF SaysMore, t, c
  <2> QED
    BY <2>1, <2>2, <2>3
<1> DEFINE Told == /\ Speaker(u) => /\ u.conv \in Conversations /\ u.id \in Nat \ {0}
                                    /\ \E f \in log'[u.conv] : f.seq = u.id /\ f.turn = u.id
                                    /\ \A e \in mine : e.type = "turn.user_message.accepted" =>
                                         e.text = u.prompt
                   /\ u.pc \in TalkPCs => \A e \in mine : e.type \notin FinishTypes
                   /\ u.pc \in EarlyPCs \/ u.gone => u.out = <<>>
                   /\ u.pc = "prepare" => u.seq = 0
                   /\ \A e \in Unread(u) : /\ e.turn = u.id /\ e.conv = u.conv
                                           /\ e.type # "turn.error" => e \in log'[u.conv]
<1>11. Told
  BY <1>1, <1>6, <1>7, <1>8, <1>9, <1>10
<1>12. Speaker(turns[n])' <=> Speaker(u)
  BY DEF Speaker, Writing, Began, Unread, u
<1>13. Unread(turns[n])' = Unread(u)
  BY DEF Unread, u
<1> QED
  BY <1>4, <1>11, <1>12, <1>13 DEF TurnStory, Begun, u

LEMMA TaleKeepsOutStory ==
  ASSUME ServerInv, ServerInv', StoryInv, NEW n \in Slots, NEW es, NEW said,
         Tale(n, es, said)
  PROVE  (turns[n].out # <<>> /\ ~turns[n].broken => OutStory(turns[n]))'
<1> DEFINE t == turns[n]
           u == turns'[n]
           c == turns[n].conv
           new == {said[i] : i \in DOMAIN said}
           mine == {e \in log'[c] : e.turn = u.id}
<1>0. TaleMeans(n, es, said)
  BY TaleFacts
<1>1. /\ c \in Conversations /\ u.conv = c
      /\ log'[c] = log[c] \cup es
      /\ Unread(u) = IF t.gone THEN {} ELSE Unread(t) \cup new
      /\ t.gone => u.out = <<>>
      /\ Begins(t, u, es) => \A f \in log[c] : f.turn # u.id
      /\ Begins(t, u, es) => t.out = <<>>
      /\ es # {} /\ Continues(t, es) => \A f \in log[c] : f.turn = u.id => f.seq < t.seq
      /\ u.id # t.id => t.out = <<>>
  BY <1>0 DEF TaleMeans
<1>2. /\ MovesOn(t, u, es, said) /\ StoresMore(t, u, es) /\ SaysMore(t, u, es, said)
      /\ es \in SUBSET Events /\ said \in Seq(Events)
      /\ t.out # <<>> /\ ~t.broken => OutStory(t)
      /\ log[c] \in SUBSET Events
  BY <1>1 DEF Tale, StoryInv, ServerInv, LogsOK
<1>3. t.seq \in Nat /\ t.id \in Nat /\ t.out \in Seq(Events) /\ u.seq \in Nat /\ u.id \in Nat
  BY DEF ServerInv, TurnsTyped, TurnRecords
<1>4. Mine(turns[n])' = mine /\ \A e \in mine : e \in es \/ (e \in log[c] /\ e.turn = u.id)
  BY <1>1 DEF Mine
<1>5. \A e \in log[c] \cup es : e.seq \in Nat
  BY <1>2, EventNumbers
<1>6. t.conv = c
  OBVIOUS
<1>7. u.id = t.id => \A e \in log[c] : e.turn = u.id => e \in Mine(t)
  BY DEF Mine
<1> HIDE DEF t, u, c, new, mine
<1> SUFFICES ASSUME u.out # <<>>, ~u.broken
             PROVE  OutStory(turns[n])'
  BY DEF u
<1>8. ~t.gone /\ u.out = t.out \o said /\ ~t.broken /\ Among(said, es) /\ Rising(said)
      /\ t.seq <= u.seq
  BY <1>1, <1>2 DEF MovesOn, SaysMore
<1>9. Unread(u) = Unread(t) \cup new /\ new \subseteq es
  BY <1>1, <1>8 DEF new, Among
<1>10. es # {} => /\ u.id < u.seq
                  /\ \A e \in es : e.seq < u.seq
                  /\ Continues(t, es) \/ Begins(t, u, es)
  BY <1>2 DEF StoresMore
<1>11. t.out # <<>> => u.id = t.id /\ Began(t) /\ OutStory(t)
  BY <1>1, <1>2, <1>8 DEF OutStory
<1>12. t.out # <<>> \/ es # {}
  <2>1. CASE t.out = <<>> /\ es = {}
    <3>1. DOMAIN said = {}
      BY <1>8, <2>1 DEF Among
    <3>2. said = <<>>
      BY <1>2, <3>1
    <3> QED
      BY <1>8, <2>1, <3>2
  <2> QED
    BY <2>1
<1>13. Began(u)
  <2>1. u.id < u.seq
    BY <1>3, <1>8, <1>10, <1>11, <1>12 DEF Began
  <2> QED
    BY <2>1 DEF Began
<1>14. Unread(u) \subseteq log'[c]
  <2>1. Unread(t) \subseteq log[c]
    <3>1. CASE t.out = <<>>
      BY <3>1 DEF Unread
    <3>2. CASE t.out # <<>>
      BY <1>6, <1>11, <3>2 DEF OutStory
    <3> QED
      BY <3>1, <3>2
  <2> QED
    BY <1>1, <1>9, <2>1
<1>15. \A e \in Unread(t) : e.seq < t.seq /\ e \in log[c]
  <2>1. CASE t.out = <<>>
    BY <2>1 DEF Unread
  <2>2. CASE t.out # <<>>
    BY <1>6, <1>11, <2>2 DEF OutStory
  <2> QED
    BY <2>1, <2>2
<1>16. \A e \in Unread(u) : e.seq < u.seq
  BY <1>3, <1>5, <1>8, <1>9, <1>10, <1>15
<1>17. \A i, j \in DOMAIN u.out : i < j => u.out[i].seq < u.out[j].seq
  <2>1. Rising(t.out)
    <3>1. CASE t.out = <<>>
      BY <3>1 DEF Rising
    <3>2. CASE t.out # <<>>
      BY <1>11, <3>2 DEF OutStory, Rising
    <3> QED
      BY <3>1, <3>2
  <2>2. ASSUME NEW i \in DOMAIN t.out, NEW j \in DOMAIN said
        PROVE  t.out[i].seq < said[j].seq
    <3>1. t.out # <<>> /\ t.out[i] \in Unread(t) /\ said[j] \in es
      BY <1>8 DEF Unread, Among
    <3>2. Continues(t, es)
      BY <1>1, <1>10, <3>1
    <3>3. t.seq <= said[j].seq
      BY <3>1, <3>2 DEF Continues
    <3> QED
      BY <1>3, <1>5, <1>15, <3>1, <3>3
  <2> DEFINE both == t.out \o said
  <2>3. Rising(both)
    BY <1>2, <1>3, <1>8, <2>1, <2>2, Spoken
  <2> HIDE DEF both
  <2>4. u.out = both
    BY <1>8 DEF both
  <2> QED
    BY <2>3, <2>4 DEF Rising
<1>18. ASSUME NEW e \in Unread(u), NEW f \in mine, f.type \in FinishTypes, e.seq <= f.seq
       PROVE  f \in Unread(u)
  <2>1. CASE f \in es
    <3>1. f.type \in TellTypes
      BY <1>18 DEF TellTypes, FinishTypes
    <3>2. \E i \in DOMAIN said : said[i] = f
      BY <1>2, <2>1, <3>1 DEF SaysMore, u
    <3> QED
      BY <1>9, <3>2 DEF new
  <2>2. CASE f \in log[c] /\ f.turn = u.id
    <3>1. CASE e \in Unread(t)
      <4>1. t.out # <<>>
        BY <3>1 DEF Unread
      <4>2. f \in Mine(t)
        BY <1>7, <1>11, <2>2, <4>1
      <4>3. f \in Unread(t)
        BY <1>11, <1>18, <3>1, <4>1, <4>2 DEF OutStory
      <4> QED
        BY <1>9, <4>3
    <3>2. CASE e \in new
      <4>1. e \in es
        BY <1>9, <3>2
      <4>2. Continues(t, es)
        BY <1>1, <1>10, <2>2, <4>1
      <4>3. t.seq <= e.seq /\ f.seq < t.seq
        BY <1>1, <2>2, <4>1, <4>2 DEF Continues
      <4> QED
        BY <1>3, <1>5, <1>18, <2>2, <4>1, <4>3
    <3> QED
      BY <1>9, <3>1, <3>2
  <2> QED
    BY <1>4, <2>1, <2>2
<1>19. Unread(turns[n])' = Unread(u) /\ (Began(turns[n])' <=> Began(u))
  BY DEF Unread, Began, u
<1> QED
  BY <1>1, <1>4, <1>13, <1>14, <1>16, <1>17, <1>18, <1>19 DEF OutStory, u

LEMMA TaleKeepsStory ==
  ASSUME ServerInv, ServerInv', StoryInv, NEW n \in Slots, NEW es, NEW said,
         Tale(n, es, said)
  PROVE  StoryInv'
<1>1. \A m \in Slots : /\ TurnStory(turns[m])'
                       /\ (turns[m].out # <<>> /\ ~turns[m].broken => OutStory(turns[m]))'
  BY TaleKeepsOwn, TaleKeepsOutStory, TaleKeepsOthers
<1> QED
  BY <1>1, TaleKeepsDeltasFirst, TaleKeepsDifferent DEF StoryInv

-----------------------------------------------------------------------------
(***************************************************************************)
(* Every step of a turn is such a tale.                                    *)
(***************************************************************************)
Fields(u, t, id, seq, then, broken, out) ==
  /\ u.conv = t.conv /\ u.prompt = t.prompt /\ u.gone = t.gone
  /\ u.id = id /\ u.seq = seq /\ u.pc = then /\ u.broken = broken /\ u.out = out

LEMMA RecordFields ==
  ASSUME NEW t \in TurnRecords, NEW id, NEW seq, NEW then, NEW deltas, NEW out
  PROVE  /\ Fields(StoredRecord(t, seq, then, deltas, out), t, t.id, seq, then, t.broken, out)
         /\ Fields(RefusedRecord(t, seq, then, out), t, t.id, seq, then, TRUE, out)
         /\ Fields(EndedRecord(t, id, seq, then, out), t, id, seq, then, t.broken, out)
         /\ Fields(BrokenRecord(t, id, seq, then, out), t, id, seq, then, TRUE, out)
<1> DEFINE S == Seq(Events)
<1>1. TurnRecords =
        [pc : PCs, conv : Conversations \cup {NoConversation}, req : Nat, seq : Nat,
         id : Nat, prompt : Nat, flow : {"provider", "query"}, deltas : Nat,
         stopped : BOOLEAN, gone : BOOLEAN, broken : BOOLEAN, out : S]
  BY DEF TurnRecords
<1> HIDE DEF S
<1>2. Fields(StoredRecord(t, seq, then, deltas, out), t, t.id, seq, then, t.broken, out)
  BY <1>1 DEF StoredRecord, Fields
<1>3. Fields(RefusedRecord(t, seq, then, out), t, t.id, seq, then, TRUE, out)
  BY <1>1 DEF RefusedRecord, Fields
<1>4. Fields(EndedRecord(t, id, seq, then, out), t, id, seq, then, t.broken, out)
  BY <1>1 DEF EndedRecord, Fields
<1>5. Fields(BrokenRecord(t, id, seq, then, out), t, id, seq, then, TRUE, out)
  BY <1>1 DEF BrokenRecord, Fields
<1> QED
  BY <1>2, <1>3, <1>4, <1>5

LEMMA NothingStored ==
  ASSUME LogsOK, UNCHANGED log, NEW c
  PROVE  log' = [log EXCEPT ![c] = @ \cup {}]
BY DEF LogsOK

LEMMA NothingMoreSaid ==
  ASSUME TurnsTyped, NEW n \in Slots
  PROVE  turns[n].out \o <<>> = turns[n].out
BY DEF TurnsTyped, TurnRecords

(* Where a turn may go on to.                                              *)
OnlyOn(t, then) ==
  /\ then \notin EarlyPCs
  /\ then \in WritingPCs => Writing(t) \/ t.pc = "start"
  /\ then \in TalkPCs => t.pc \in TalkPCs \/ t.pc = "start"

(* A turn that moves on without storing or saying anything.                *)
LEMMA QuietTale ==
  ASSUME ServerInv, NEW n \in Slots, turns[n].pc \notin EarlyPCs, NEW pc, OnlyOn(turns[n], pc),
         turns' = [turns EXCEPT ![n].pc = pc], UNCHANGED log
  PROVE  Tale(n, {}, <<>>)
<1> DEFINE t == turns[n]
           u == turns'[n]
<1>1. t \in TurnRecords /\ turns \in [Slots -> TurnRecords] /\ TurnsTyped /\ LogsOK
  BY DEF ServerInv, TurnsTyped
<1>2. /\ u = [t EXCEPT !.pc = pc] /\ \A m \in Slots : m # n => turns'[m] = turns[m]
  BY <1>1
<1>3. t.out \o <<>> = t.out
  BY <1>1, NothingMoreSaid
<1>4. Fields(u, t, t.id, t.seq, pc, t.broken, t.out)
  BY <1>1, <1>2 DEF TurnRecords, Fields
<1>5. t.seq \in Nat
  BY <1>1 DEF TurnRecords
<1>6. <<>> \in Seq(Events) /\ DOMAIN <<>> = {}
  BY EmptySeq
<1>7. /\ t.pc \notin EarlyPCs /\ OnlyOn(t, pc)
  OBVIOUS
<1>8. log' = [log EXCEPT ![t.conv] = @ \cup {}]
  BY <1>1, NothingStored
<1> HIDE DEF t, u
<1>9. MovesOn(t, u, {}, <<>>)
  BY <1>3, <1>4, <1>5, <1>7 DEF MovesOn, Fields, OnlyOn, EarlyPCs
<1>10. StoresMore(t, u, {})
  BY <1>4, <1>7 DEF StoresMore, Fields, OnlyOn, Began, Writing, EarlyPCs
<1>11. SaysMore(t, u, {}, <<>>)
  BY <1>4, <1>6 DEF SaysMore, Fields, Among, Rising
<1> QED
  BY <1>2, <1>6, <1>8, <1>9, <1>10, <1>11 DEF Tale, t, u

LEMMA PrepareTale ==
  ASSUME ServerInv, StoryInv, NEW n \in Slots, Prepare(n)
  PROVE  Tale(n, {}, <<>>)
<1> DEFINE t == turns[n]
           u == turns'[n]
           last == IF t.req > 1 THEN NextSequence(log[t.conv]) ELSE 1
           seq == IF last > t.req THEN last ELSE t.req
<1>1. t \in TurnRecords /\ turns \in [Slots -> TurnRecords] /\ TurnsTyped /\ LogsOK
      /\ TurnStory(t)
  BY DEF ServerInv, TurnsTyped, StoryInv
<1>2. PICK flow \in Flows :
        turns' = [turns EXCEPT ![n].pc = "start", ![n].seq = seq, ![n].id = seq,
                               ![n].flow = flow]
  BY DEF Prepare
<1>3. t.pc = "prepare" /\ UNCHANGED log
  BY DEF Prepare
<1>4. TurnsTyped'
  BY PrepareKeeps DEF ServerInv
<1> HIDE DEF seq
<1>5. u = [t EXCEPT !.pc = "start", !.seq = seq, !.id = seq, !.flow = flow]
      /\ \A m \in Slots : m # n => turns'[m] = turns[m]
  BY <1>1, <1>2
<1>6. Fields(u, t, seq, seq, "start", t.broken, t.out)
  BY <1>1, <1>5 DEF TurnRecords, Fields
<1>7. t.seq = 0 /\ seq \in Nat
  <2>1. u.seq \in Nat
    BY <1>4 DEF TurnsTyped, TurnRecords
  <2> QED
    BY <1>1, <1>3, <1>6, <2>1 DEF TurnStory, Fields
<1>8. t.out \o <<>> = t.out
  BY <1>1, NothingMoreSaid
<1>9. <<>> \in Seq(Events) /\ DOMAIN <<>> = {}
  BY EmptySeq
<1>10. log' = [log EXCEPT ![t.conv] = @ \cup {}]
  BY <1>1, <1>3, NothingStored
<1> HIDE DEF t, u
<1>11. MovesOn(t, u, {}, <<>>)
  BY <1>3, <1>6, <1>7, <1>8 DEF MovesOn, Fields, TalkPCs
<1>12. StoresMore(t, u, {})
  BY <1>6, <1>7 DEF StoresMore, Fields, Began, Writing, WritingPCs
<1>13. SaysMore(t, u, {}, <<>>)
  BY <1>6, <1>9 DEF SaysMore, Fields, Among, Rising
<1> QED
  BY <1>5, <1>9, <1>10, <1>11, <1>12, <1>13 DEF Tale, t, u

(* A turn that stores one event, and says it or not.                       *)
LEMMA OneTale ==
  ASSUME ServerInv, NEW n \in Slots, Writing(turns[n]) \/ turns[n].pc = "start",
         NEW e \in Events, e.conv = turns[n].conv, e.turn = turns[n].id, e.seq = turns[n].seq,
         Free(turns[n].conv, turns[n].seq),
         e.type = "turn.user_message.accepted" => e.text = turns[n].prompt,
         e.type = "turn.agent_message.delta" => turns[n].pc \in TalkPCs,
         NEW then, OnlyOn(turns[n], then), then \in TalkPCs => e.type \notin FinishTypes,
         log' = [log EXCEPT ![turns[n].conv] = @ \cup {e}],
         NEW said, said = <<e>> \/ (said = <<>> /\ e.type \notin TellTypes),
         NEW new, turns' = [turns EXCEPT ![n] = new],
         Fields(new, turns[n], turns[n].id, turns[n].seq + 1, then, turns[n].broken,
                Say(n, said))
  PROVE  Tale(n, {e}, said)
<1> DEFINE t == turns[n]
           u == turns'[n]
           next == t.seq + 1
<1>1. t \in TurnRecords /\ turns \in [Slots -> TurnRecords] /\ TurnsOK
  BY DEF ServerInv, TurnsTyped
<1>2. u = new /\ \A m \in Slots : m # n => turns'[m] = turns[m]
  BY <1>1
<1>3. /\ t.pc \in OwnerPCs
      /\ t.id \in Nat \ {0} /\ t.seq \in Nat \ {0}
  <2>1. t.pc \in OwnerPCs
    BY DEF Writing, WritingPCs, OwnerPCs, PCs
  <2> QED
    BY <2>1, Numbered
<1>4. /\ t.pc = "start" => t.seq = t.id
      /\ Writing(t) => t.id < t.seq
  BY <1>1 DEF TurnsOK, NumbersOK, WrittenUpTo
<1>5. Fields(u, t, t.id, next, then, t.broken, IF t.gone THEN t.out ELSE t.out \o said)
  BY <1>2 DEF Say
<1>6. /\ next \in Nat /\ t.seq < next /\ t.id < next
  BY <1>3, <1>4
<1>7. /\ said \in Seq(Events) /\ Rising(said) /\ Among(said, {e})
      /\ e.type \in TellTypes => \E i \in DOMAIN said : said[i] = e
  <2>1. CASE said = <<e>>
    <3>1. DOMAIN said = {1} /\ said[1] = e /\ said \in Seq(Events)
      BY <2>1
    <3> QED
      BY <3>1 DEF Rising, Among
  <2>2. CASE said = <<>> /\ e.type \notin TellTypes
    <3>1. DOMAIN said = {} /\ said \in Seq(Events)
      BY <2>2, EmptySeq
    <3> QED
      BY <2>2, <3>1 DEF Rising, Among
  <2> QED
    BY <2>1, <2>2
<1>8. /\ Writing(t) \/ t.pc = "start"
      /\ e.conv = t.conv /\ e.turn = t.id /\ e.seq = t.seq /\ Free(t.conv, e.seq)
      /\ e.type = "turn.user_message.accepted" => e.text = t.prompt
      /\ e.type = "turn.agent_message.delta" => t.pc \in TalkPCs
      /\ OnlyOn(t, then) /\ (then \in TalkPCs => e.type \notin FinishTypes)
      /\ log' = [log EXCEPT ![t.conv] = @ \cup {e}]
  OBVIOUS
<1> HIDE DEF t, u, next
<1>9. Begins(t, u, {e}) \/ Continues(t, {e})
  BY <1>3, <1>4, <1>5, <1>8 DEF Begins, Continues, Fields, EarlyPCs
<1>10. t.pc = "start" => Begins(t, u, {e})
  BY <1>4, <1>5, <1>8 DEF Begins, Fields, EarlyPCs
<1>11. t.pc # "idle" /\ t.pc # "prepare"
  BY <1>8 DEF Writing, WritingPCs
<1>12. MovesOn(t, u, {e}, said)
  BY <1>5, <1>6, <1>8, <1>10, <1>11, <1>3 DEF MovesOn, Fields, OnlyOn, EarlyPCs
<1>13. StoresMore(t, u, {e})
  <2>1. e.type = "turn.agent_message.delta" => e.type \notin FinishTypes
    BY DEF FinishTypes
  <2> QED
    BY <1>3, <1>5, <1>6, <1>8, <1>9, <2>1 DEF StoresMore, Fields
<1>14. SaysMore(t, u, {e}, said)
  BY <1>5, <1>7, <1>8 DEF SaysMore, Fields, Among
<1> QED
  BY <1>2, <1>7, <1>8, <1>12, <1>13, <1>14 DEF Tale, t, u

(* A step of a turn tells something.                                       *)
TellsTale(n) == \E es, said : Tale(n, es, said)

LEMMA StoredTale ==
  ASSUME ServerInv, NEW n \in Slots, Writing(turns[n]) \/ turns[n].pc = "start",
         NEW type \in EventTypes, NEW status \in Statuses, NEW then,
         Stored(n, type, status, then), OnlyOn(turns[n], then),
         then \in TalkPCs => type \notin FinishTypes,
         type = "turn.agent_message.delta" => turns[n].pc \in TalkPCs
  PROVE  TellsTale(n)
<1> DEFINE t == turns[n]
           e == TurnEvent(n, t.seq, type, status)
           deltas == IF type = "turn.agent_message.delta" THEN t.deltas + 1 ELSE t.deltas
           said == <<e>>
           out == Say(n, said)
           next == t.seq + 1
           new == StoredRecord(t, next, then, deltas, out)
<1>1. t \in TurnRecords /\ turns \in [Slots -> TurnRecords]
  BY DEF ServerInv, TurnsTyped
<1>2. t.pc \in OwnerPCs
  BY DEF Writing, WritingPCs, OwnerPCs, PCs
<1>3. /\ e \in Events /\ e.conv = t.conv /\ e.seq = t.seq /\ e.type = type /\ e.turn = t.id
  BY <1>2, Numbered, TurnEventFacts
<1>4. e.type = "turn.user_message.accepted" => e.text = t.prompt
  BY <1>3 DEF TurnEvent, Event
<1>5. /\ turns' = [turns EXCEPT ![n] = new]
      /\ Free(t.conv, t.seq) /\ log' = [log EXCEPT ![t.conv] = @ \cup {e}]
  BY <1>1 DEF Stored, StoredRecord
<1> HIDE DEF e
<1> HIDE DEF deltas, out, next
<1>6. Fields(new, t, t.id, next, then, t.broken, out)
  <2> HIDE DEF t
  <2> QED
    BY <1>1, RecordFields
<1> HIDE DEF new
<1>7. Fields(new, t, t.id, t.seq + 1, then, t.broken, Say(n, said))
  BY <1>6 DEF next, out
<1>8. said = <<e>>
  OBVIOUS
<1> HIDE DEF said
<1>9. Tale(n, {e}, said)
  BY <1>3, <1>4, <1>5, <1>7, <1>8, OneTale
<1> QED
  BY <1>9 DEF TellsTale

LEMMA RefusedTale ==
  ASSUME ServerInv, NEW n \in Slots, Writing(turns[n]) \/ turns[n].pc = "start", NEW then,
         Refused(n, then), then \in ClosingPCs, then = "finish" \/ Writing(turns[n])
  PROVE  TellsTale(n)
<1> DEFINE t == turns[n]
           u == turns'[n]
           e == TurnEvent(n, t.seq, "turn.error", "")
           said == <<e>>
           out == Say(n, said)
           next == t.seq + 1
           new == RefusedRecord(t, next, then, out)
<1>1. t \in TurnRecords /\ turns \in [Slots -> TurnRecords] /\ LogsOK
  BY DEF ServerInv, TurnsTyped
<1>2. t.pc \in OwnerPCs
  BY DEF Writing, WritingPCs, OwnerPCs, PCs
<1>3. /\ t.conv \in Conversations /\ t.id \in Nat /\ t.prompt \in Nat /\ t.seq \in Nat \ {0}
  BY <1>2, Numbered
<1>4. e \in Events /\ e.conv = t.conv /\ e.type = "turn.error" /\ e.turn = t.id
  <2>1. "turn.error" \in EventTypes
    BY DEF EventTypes
  <2>2. PICK status \in Statuses : status = ""
    BY DEF Statuses
  <2> DEFINE f == TurnEvent(n, t.seq, "turn.error", status)
  <2>3. f \in Events /\ f.conv = t.conv /\ f.type = "turn.error" /\ f.turn = t.id
    BY <1>3, <2>1, TurnEventFacts
  <2>4. e = f
    BY <2>2
  <2> HIDE DEF e, f
  <2> QED
    BY <2>3, <2>4
<1>5. /\ turns' = [turns EXCEPT ![n] = new] /\ UNCHANGED log
  BY <1>1 DEF Refused, RefusedRecord
<1>6. log' = [log EXCEPT ![t.conv] = @ \cup {}]
  BY <1>1, <1>5, NothingStored
<1>7. u = new /\ \A m \in Slots : m # n => turns'[m] = turns[m]
  BY <1>1, <1>5
<1> HIDE DEF e
<1>8. /\ said \in Seq(Events) /\ DOMAIN said = {1}
      /\ \A i \in DOMAIN said : said[i] = e
  <2>1. said = <<e>>
    OBVIOUS
  <2> QED
    BY <1>4, <2>1
<1> HIDE DEF out, next
<1>9. Fields(new, t, t.id, next, then, TRUE, out)
  <2> HIDE DEF t
  <2> QED
    BY <1>1, RecordFields
<1> HIDE DEF new, said
<1>10. Fields(u, t, t.id, next, then, TRUE, IF t.gone THEN t.out ELSE t.out \o said)
  BY <1>7, <1>9 DEF out, Say
<1>11. t.seq <= next /\ then \notin EarlyPCs /\ then \notin TalkPCs
       /\ (then \in WritingPCs => Writing(t))
       /\ t.pc # "idle"
  BY <1>2, <1>3 DEF next, ClosingPCs, EarlyPCs, TalkPCs, WritingPCs, OwnerPCs
<1> HIDE DEF t, u
<1>12. MovesOn(t, u, {}, said)
  BY <1>10, <1>11 DEF MovesOn, Fields, EarlyPCs
<1>13. StoresMore(t, u, {})
  BY <1>10, <1>11 DEF StoresMore, Fields, Began, Writing
<1>14. SaysMore(t, u, {}, said)
  BY <1>4, <1>8, <1>10 DEF SaysMore, Fields
<1>15. Tale(n, {}, said)
  BY <1>6, <1>7, <1>8, <1>12, <1>13, <1>14 DEF Tale, t, u
<1> QED
  BY <1>15 DEF TellsTale

LEMMA FailTurnTale ==
  ASSUME ServerInv, StoryInv, NEW n \in Slots, NEW id \in Nat \ {0}, NEW seq \in Nat \ {0},
         \/ turns[n].pc = "prepare" /\ id = seq
         \/ Writing(turns[n]) /\ id = turns[n].id /\ seq = turns[n].seq,
         NEW then \in {"finish", "over"}, FailTurn(n, id, seq, then)
  PROVE  TellsTale(n)
<1> DEFINE t == turns[n]
           u == turns'[n]
           err == Event(t.conv, seq, "turn.error", id, NoDraft, "")
           done == Event(t.conv, seq + 1, "turn.completed", id, NoDraft, "failed")
           next == seq + 2
           two == <<err, done>>
           one == <<err>>
           said == Say(n, two)
           told == Say(n, one)
           ended == EndedRecord(t, id, next, then, said)
           broken == BrokenRecord(t, id, next, then, told)
<1>1. /\ t \in TurnRecords /\ TurnsTyped /\ turns \in [Slots -> TurnRecords] /\ LogsOK
      /\ NumbersOK(t) /\ TurnStory(t)
      /\ Writing(t) => WrittenUpTo(t.conv, t.id, t.seq)
  BY DEF ServerInv, TurnsTyped, StoryInv, TurnsOK
<1>2. t.pc # "idle" /\ t.conv \in Conversations
  BY <1>1 DEF NumbersOK, Writing, WritingPCs
<1>3. /\ err \in Events /\ err.type = "turn.error" /\ err.conv = t.conv /\ err.turn = id
      /\ err.seq = seq
      /\ done \in Events /\ done.type = "turn.completed" /\ done.conv = t.conv
      /\ done.turn = id /\ done.seq = seq + 1
  BY <1>2 DEF Event, Events, EventTypes, NoDraft
<1>4. \/ turns' = [turns EXCEPT ![n] = ended]
         /\ log' = [log EXCEPT ![t.conv] = @ \cup {err, done}]
         /\ Free(t.conv, seq) /\ Free(t.conv, seq + 1)
      \/ turns' = [turns EXCEPT ![n] = broken] /\ UNCHANGED log
  BY <1>1 DEF FailTurn, EndedRecord, BrokenRecord, Taken
<1> HIDE DEF err, done
<1>5. /\ one \in Seq(Events) /\ DOMAIN one = {1} /\ one[1] = err
      /\ two \in Seq(Events) /\ DOMAIN two = {1, 2} /\ two[1] = err /\ two[2] = done
  BY <1>3
<1>6. t.seq <= next /\ id < next /\ next \in Nat
      /\ \A e \in {err, done} : e.seq < next /\ t.seq <= e.seq
  <2>1. CASE t.pc = "prepare" /\ id = seq
    <3>1. t.seq = 0
      BY <1>1, <2>1 DEF TurnStory
    <3> QED
      BY <1>3, <2>1, <3>1
  <2>2. CASE Writing(t) /\ id = t.id /\ seq = t.seq
    <3>1. id < seq
      BY <1>1, <2>2 DEF WrittenUpTo
    <3> QED
      BY <1>3, <2>2, <3>1
  <2> QED
    BY <2>1, <2>2
<1> HIDE DEF one, two, next, said, told
<1>7. /\ Fields(ended, t, id, next, then, t.broken, said)
      /\ Fields(broken, t, id, next, then, TRUE, told)
  <2> HIDE DEF t
  <2> QED
    BY <1>1, RecordFields
<1> HIDE DEF ended, broken
<1>8. id # t.id => t.pc = "prepare"
  OBVIOUS
<1>9. then \notin EarlyPCs /\ then \notin TalkPCs /\ then \notin WritingPCs
  BY DEF EarlyPCs, TalkPCs, WritingPCs
<1>10. \/ t.pc = "prepare" /\ id = seq
       \/ Writing(t) /\ id = t.id /\ seq = t.seq
  OBVIOUS
<1>11. CASE /\ turns' = [turns EXCEPT ![n] = ended]
            /\ log' = [log EXCEPT ![t.conv] = @ \cup {err, done}]
            /\ Free(t.conv, seq) /\ Free(t.conv, seq + 1)
  <2>1. u = ended /\ \A m \in Slots : m # n => turns'[m] = turns[m]
    BY <1>1, <1>11
  <2>2. Fields(u, t, id, next, then, t.broken, IF t.gone THEN t.out ELSE t.out \o two)
    BY <1>7, <2>1 DEF said, Say
  <2> DEFINE es == {err, done}
  <2>3. /\ \A e \in es : /\ e.conv = t.conv /\ e.turn = id /\ Free(t.conv, e.seq)
                         /\ e.seq < next /\ t.seq <= e.seq
                         /\ e.type \notin TellTypes
        /\ \E e \in es : e.seq = seq
        /\ es # {} /\ es \in SUBSET Events
    BY <1>3, <1>6, <1>11 DEF TellTypes, FinishTypes
  <2>4. /\ Rising(two) /\ Among(two, es)
        /\ \A i \in DOMAIN two : two[i].turn = id /\ two[i].conv = t.conv /\ two[i] \in es
    BY <1>3, <1>5 DEF Rising, Among
  <2>5. log' = [log EXCEPT ![t.conv] = @ \cup es]
    BY <1>11
  <2> HIDE DEF t, u, es
  <2>6. Continues(t, es) \/ Begins(t, u, es)
    BY <1>10, <2>2, <2>3 DEF Continues, Begins, Fields, EarlyPCs
  <2>7. MovesOn(t, u, es, two)
    BY <1>2, <1>6, <1>8, <1>9, <2>2 DEF MovesOn, Fields, EarlyPCs
  <2>8. StoresMore(t, u, es)
    BY <1>6, <2>2, <2>3, <2>6 DEF StoresMore, Fields, TellTypes
  <2>9. SaysMore(t, u, es, two)
    BY <2>2, <2>3, <2>4 DEF SaysMore, Fields
  <2>10. Tale(n, es, two)
    BY <1>5, <2>1, <2>3, <2>5, <2>7, <2>8, <2>9 DEF Tale, t, u
  <2> QED
    BY <2>10 DEF TellsTale
<1>12. CASE turns' = [turns EXCEPT ![n] = broken] /\ UNCHANGED log
  <2>1. u = broken /\ \A m \in Slots : m # n => turns'[m] = turns[m]
    BY <1>1, <1>12
  <2>2. Fields(u, t, id, next, then, TRUE, IF t.gone THEN t.out ELSE t.out \o one)
    BY <1>7, <2>1 DEF told, Say
  <2>3. log' = [log EXCEPT ![t.conv] = @ \cup {}]
    BY <1>1, <1>12, NothingStored
  <2>4. \A i \in DOMAIN one : one[i].turn = id /\ one[i].conv = t.conv
                              /\ one[i].type = "turn.error"
    BY <1>3, <1>5
  <2> HIDE DEF t, u
  <2>5. MovesOn(t, u, {}, one)
    BY <1>2, <1>6, <1>8, <1>9, <2>2 DEF MovesOn, Fields, EarlyPCs
  <2>6. StoresMore(t, u, {})
    BY <1>9, <2>2 DEF StoresMore, Fields, Began, Writing
  <2>7. SaysMore(t, u, {}, one)
    BY <2>2, <2>4 DEF SaysMore, Fields
  <2>8. Tale(n, {}, one)
    BY <1>5, <2>1, <2>3, <2>5, <2>6, <2>7 DEF Tale, t, u
  <2> QED
    BY <2>8 DEF TellsTale
<1> QED
  BY <1>4, <1>11, <1>12

LEMMA QueryDoneTale ==
  ASSUME ServerInv, NEW n \in Slots, QueryDone(n)
  PROVE  TellsTale(n)
<1> DEFINE t == turns[n]
           e == TurnEvent(n, t.seq, "turn.query_entity.confirmed", "")
           new == [t EXCEPT !.seq = @ + 1, !.pc = "answer"]
<1>1. t \in TurnRecords /\ turns \in [Slots -> TurnRecords] /\ TurnsTyped
  BY DEF ServerInv, TurnsTyped
<1>2. t.pc = "talk" /\ OnlyOn(t, "answer")
  BY DEF QueryDone, OnlyOn, EarlyPCs, TalkPCs, WritingPCs, Writing
<1>3. CASE Goto(n, "answer")
  <2>1. t.pc \notin EarlyPCs
    BY <1>2 DEF EarlyPCs
  <2>2. Tale(n, {}, <<>>)
    BY <1>2, <1>3, <2>1, QuietTale DEF Goto
  <2> QED
    BY <2>2 DEF TellsTale
<1>4. CASE /\ Free(t.conv, t.seq)
           /\ log' = [log EXCEPT ![t.conv] = @ \cup {e}]
           /\ turns' = [turns EXCEPT ![n].seq = @ + 1, ![n].pc = "answer"]
  <2>1. turns' = [turns EXCEPT ![n] = new]
    BY <1>1, <1>4
  <2>2. Writing(t) /\ t.pc \in OwnerPCs /\ t.pc \in TalkPCs
    BY <1>2 DEF Writing, WritingPCs, OwnerPCs, PCs, TalkPCs
  <2>3. e \in Events /\ e.conv = t.conv /\ e.seq = t.seq /\ e.turn = t.id
        /\ e.type = "turn.query_entity.confirmed"
    <3>1. "turn.query_entity.confirmed" \in EventTypes
      BY DEF EventTypes
    <3>2. t.conv \in Conversations /\ t.id \in Nat /\ t.prompt \in Nat /\ t.seq \in Nat \ {0}
      BY <2>2, Numbered
    <3>3. PICK status \in Statuses : status = ""
      BY DEF Statuses
    <3> DEFINE f == TurnEvent(n, t.seq, "turn.query_entity.confirmed", status)
    <3>4. f \in Events /\ f.conv = t.conv /\ f.seq = t.seq /\ f.turn = t.id
          /\ f.type = "turn.query_entity.confirmed"
      BY <3>1, <3>2, TurnEventFacts
    <3>5. e = f
      BY <3>3
    <3> HIDE DEF e, f
    <3> QED
      BY <3>4, <3>5
  <2>4. Say(n, <<>>) = t.out
    BY <1>1, NothingMoreSaid DEF Say
  <2>5. Fields(new, t, t.id, t.seq + 1, "answer", t.broken, t.out)
    BY <1>1 DEF TurnRecords, Fields
  <2>6. Fields(new, t, t.id, t.seq + 1, "answer", t.broken, Say(n, <<>>))
    BY <2>4, <2>5
  <2> HIDE DEF e, new
  <2>7. e.type \notin TellTypes /\ e.type \notin FinishTypes
        /\ e.type # "turn.user_message.accepted" /\ e.type # "turn.agent_message.delta"
    BY <2>3 DEF TellTypes, FinishTypes
  <2>8. Tale(n, {e}, <<>>)
    BY <1>2, <1>4, <2>1, <2>2, <2>3, <2>6, <2>7, OneTale
  <2> QED
    BY <2>8 DEF TellsTale
<1> QED
  BY <1>3, <1>4 DEF QueryDone

LEMMA WriteOrStopTale ==
  ASSUME ServerInv, NEW n \in Slots, turns[n].pc \in TalkPCs \/ turns[n].pc = "start",
         NEW type \in EventTypes, NEW status \in Statuses, NEW then \in TalkPCs,
         type \notin FinishTypes,
         type = "turn.agent_message.delta" => turns[n].pc \in TalkPCs,
         WriteOrStop(n, type, status, then)
  PROVE  TellsTale(n)
<1>1. Writing(turns[n]) \/ turns[n].pc = "start"
  BY DEF Writing, WritingPCs, TalkPCs
<1>2. OnlyOn(turns[n], then) /\ OnlyOn(turns[n], "finish") /\ "finish" \notin TalkPCs
      /\ "finish" \in ClosingPCs
  BY <1>1 DEF OnlyOn, EarlyPCs, TalkPCs, WritingPCs, ClosingPCs
<1>3. CASE Refused(n, "finish")
  BY <1>1, <1>2, <1>3, RefusedTale
<1>4. CASE Stored(n, type, status, "finish")
  BY <1>1, <1>2, <1>4, StoredTale
<1>5. CASE Stored(n, type, status, then)
  BY <1>1, <1>2, <1>5, StoredTale
<1> QED
  BY <1>3, <1>4, <1>5 DEF WriteOrStop

LEMMA WriteAnywayTale ==
  ASSUME ServerInv, NEW n \in Slots, Writing(turns[n]),
         NEW type \in EventTypes, NEW status \in Statuses, NEW then \in ClosingPCs,
         type # "turn.agent_message.delta", WriteAnyway(n, type, status, then)
  PROVE  TellsTale(n)
<1>1. OnlyOn(turns[n], then) /\ then \notin TalkPCs
  BY DEF OnlyOn, EarlyPCs, TalkPCs, ClosingPCs
<1>2. CASE Refused(n, then)
  BY <1>2, RefusedTale
<1>3. CASE Stored(n, type, status, then)
  BY <1>1, <1>3, StoredTale
<1> QED
  BY <1>2, <1>3 DEF WriteAnyway

LEMMA GotoTale ==
  ASSUME ServerInv, NEW n \in Slots, turns[n].pc \in TalkPCs, NEW pc \in TalkPCs, Goto(n, pc)
  PROVE  TellsTale(n)
<1>1. turns[n].pc \notin EarlyPCs /\ OnlyOn(turns[n], pc)
  BY DEF OnlyOn, EarlyPCs, TalkPCs, WritingPCs, Writing
<1>2. Tale(n, {}, <<>>)
  BY <1>1, QuietTale DEF Goto
<1> QED
  BY <1>2 DEF TellsTale

LEMMA FinishTurnTale ==
  ASSUME ServerInv, NEW n \in Slots, FinishTurn(n)
  PROVE  TellsTale(n)
<1>1. turns[n].pc \notin EarlyPCs /\ OnlyOn(turns[n], "over")
  BY DEF FinishTurn, OnlyOn, EarlyPCs, TalkPCs, WritingPCs
<1>2. Tale(n, {}, <<>>)
  BY <1>1, QuietTale DEF FinishTurn
<1> QED
  BY <1>2 DEF TellsTale

LEMMA StepTale ==
  ASSUME ServerInv, StoryInv, NEW n \in Slots, Step(n)
  PROVE  TellsTale(n)
<1> USE DEF EventTypes, Statuses
<1>0. "" \in Statuses
  OBVIOUS
<1>1. CASE Prepare(n)
  <2>1. Tale(n, {}, <<>>)
    BY <1>1, PrepareTale
  <2> QED
    BY <2>1 DEF TellsTale
<1>2. CASE PrepareFails(n)
  <2>1. turns[n].req \in Nat \ {0} /\ turns[n].pc = "prepare"
    BY <1>2 DEF PrepareFails, ServerInv, TurnsTyped, TurnsOK, NumbersOK, TurnRecords
  <2> QED
    BY <1>2, <2>1, FailTurnTale DEF PrepareFails
<1>3. CASE Start(n)
  <2>1. turns[n].pc = "start" /\ WriteOrStop(n, "turn.started", "", "accept")
    BY <1>3 DEF Start
  <2>2. /\ "turn.started" \in EventTypes /\ "turn.started" \notin FinishTypes
        /\ "accept" \in TalkPCs /\ "turn.started" # "turn.agent_message.delta"
    BY DEF FinishTypes, TalkPCs
  <2> HIDE DEF Statuses, EventTypes
  <2> QED
    BY <1>0, <2>1, <2>2, WriteOrStopTale
<1>4. CASE Accept(n)
  <2>1. turns[n].pc = "accept" /\ WriteOrStop(n, "turn.user_message.accepted", "", "talk")
    BY <1>4 DEF Accept
  <2>2. /\ "turn.user_message.accepted" \in EventTypes /\ "turn.user_message.accepted" \notin FinishTypes
        /\ "talk" \in TalkPCs /\ "accept" \in TalkPCs
    BY DEF FinishTypes, TalkPCs
  <2> HIDE DEF Statuses, EventTypes
  <2> QED
    BY <1>0, <2>1, <2>2, WriteOrStopTale
<1>5. CASE LookAtInterrupt(n)
  BY <1>5, GotoTale DEF LookAtInterrupt, TalkPCs
<1>6. CASE Chunk(n)
  <2>1. turns[n].pc = "recv" /\ WriteOrStop(n, "turn.agent_message.delta", "", "talk")
    BY <1>6 DEF Chunk
  <2>2. /\ "turn.agent_message.delta" \in EventTypes /\ "turn.agent_message.delta" \notin FinishTypes
        /\ "talk" \in TalkPCs /\ "recv" \in TalkPCs
    BY DEF FinishTypes, TalkPCs
  <2> HIDE DEF Statuses, EventTypes
  <2> QED
    BY <1>0, <2>1, <2>2, WriteOrStopTale
<1>7. CASE StreamDone(n)
  BY <1>7, GotoTale DEF StreamDone, TalkPCs
<1>8. ASSUME turns[n].pc \in {"recv", "talk"}, FailTurn(n, turns[n].id, turns[n].seq, "finish")
      PROVE  TellsTale(n)
  <2>1. Writing(turns[n]) /\ turns[n].pc \in OwnerPCs
    BY <1>8 DEF Writing, WritingPCs, OwnerPCs, PCs
  <2>2. turns[n].id \in Nat \ {0} /\ turns[n].seq \in Nat \ {0}
    BY <2>1, Numbered
  <2> QED
    BY <1>8, <2>1, <2>2, FailTurnTale
<1>9. CASE RecvFails(n)
  BY <1>8, <1>9, GotoTale DEF RecvFails, TalkPCs
<1>10. CASE ReplyFails(n)
  BY <1>8, <1>10 DEF ReplyFails
<1>11. CASE QueryDone(n)
  BY <1>11, QueryDoneTale
<1>12. CASE Answer(n)
  <2>1. turns[n].pc = "answer" /\ WriteOrStop(n, "turn.agent_message.delta", "", "complete")
    BY <1>12 DEF Answer
  <2>2. /\ "turn.agent_message.delta" \in EventTypes /\ "turn.agent_message.delta" \notin FinishTypes
        /\ "complete" \in TalkPCs /\ "answer" \in TalkPCs
    BY DEF FinishTypes, TalkPCs
  <2> HIDE DEF Statuses, EventTypes
  <2> QED
    BY <1>0, <2>1, <2>2, WriteOrStopTale
<1>13. CASE CompleteMessage(n)
  BY <1>13, WriteAnywayTale DEF CompleteMessage, Writing, WritingPCs, ClosingPCs
<1>14. CASE CompleteTurn(n)
  BY <1>14, WriteAnywayTale DEF CompleteTurn, Writing, WritingPCs, ClosingPCs
<1>15. CASE Interrupted(n)
  BY <1>15, WriteAnywayTale DEF Interrupted, Writing, WritingPCs, ClosingPCs
<1>16. CASE CompleteInterrupted(n)
  BY <1>16, WriteAnywayTale DEF CompleteInterrupted, Writing, WritingPCs, ClosingPCs
<1>17. CASE FinishTurn(n)
  BY <1>17, FinishTurnTale
<1> QED
  BY <1>1, <1>2, <1>3, <1>4, <1>5, <1>6, <1>7, <1>9, <1>10, <1>11, <1>12, <1>13, <1>14,
     <1>15, <1>16, <1>17 DEF Step

-----------------------------------------------------------------------------
(***************************************************************************)
(* The other steps: events of no turn are stored, turns are stopped, their *)
(* streams are read or dropped, and a new turn is asked for.               *)
(***************************************************************************)
LogGrows ==
  \A c \in Conversations :
    /\ log[c] \subseteq log'[c]
    /\ \A e \in log'[c] : e \in log[c] \/ (e.turn = NoTurn /\ e.type \in ConversationTypes)

(* What is left of a stream once its first events have been read.          *)
Rest(left, out) ==
  \E k \in Nat : /\ \A i \in DOMAIN left : i \in Int /\ i + k \in DOMAIN out /\ left[i] = out[i + k]
                 /\ \A j \in DOMAIN out : j \in Int /\ (j > k => j - k \in DOMAIN left)
                 /\ \A i \in DOMAIN left : i > 0

Stays(t, u) ==
  /\ u.conv = t.conv /\ u.id = t.id /\ u.seq = t.seq /\ u.prompt = t.prompt
  /\ u.broken = t.broken
  /\ u.pc = t.pc \/ (t.pc # "idle" /\ u.pc = "over")
  /\ Rest(u.out, t.out)
  /\ t.gone => u.gone
  /\ u.gone => t.gone \/ u.out = <<>>

Fresh(u) == u.pc = "prepare" /\ u.seq = 0 /\ u.id = 0 /\ u.out = <<>>

LEMMA EmptyDomain ==
  ASSUME NEW S, NEW s \in Seq(S), DOMAIN s = {}
  PROVE  s = <<>>
<1>1. Len(s) \in Nat /\ DOMAIN s = 1..Len(s)
  BY LenProperties
<1>2. Len(s) = 0
  BY <1>1
<1> QED
  BY <1>2, EmptySeq

LEMMA RestIsUnread ==
  ASSUME NEW t, NEW u, Rest(u.out, t.out)
  PROVE  Unread(u) \subseteq Unread(t)
BY DEF Rest, Unread

LEMMA StaysSpeaker ==
  ASSUME NEW t, NEW u, Stays(t, u), Speaker(u)
  PROVE  Speaker(t)
<1>1. Unread(u) \subseteq Unread(t)
  BY RestIsUnread DEF Stays
<1> QED
  BY <1>1 DEF Stays, Speaker, Writing, WritingPCs, Began

LEMMA FreshIsSilent ==
  ASSUME NEW u, Fresh(u)
  PROVE  ~Speaker(u)
<1>1. Unread(u) = {}
  BY DEF Fresh, Unread
<1> QED
  BY <1>1 DEF Fresh, Speaker, Writing, WritingPCs, Began

LEMMA StaysStory ==
  ASSUME ServerInv, ServerInv', StoryInv, LogGrows, NEW n \in Slots, Stays(turns[n], turns'[n])
  PROVE  /\ TurnStory(turns[n])'
         /\ (turns[n].out # <<>> /\ ~turns[n].broken => OutStory(turns[n]))'
<1> DEFINE t == turns[n]
           u == turns'[n]
<1>1. /\ TurnStory(t) /\ (t.out # <<>> /\ ~t.broken => OutStory(t))
      /\ t \in TurnRecords /\ Stays(t, u)
  BY DEF StoryInv, ServerInv, TurnsTyped
<1>2. t.out \in Seq(Events) /\ u.out \in Seq(Events)
  BY DEF ServerInv, TurnsTyped, TurnRecords
<1> DEFINE mine == {e \in log'[u.conv] : e.turn = u.id}
<1>3. Mine(turns[n])' = mine
  BY DEF Mine
<1>4. (Speaker(turns[n])' <=> Speaker(u)) /\ Unread(turns[n])' = Unread(u)
      /\ (Began(turns[n])' <=> Began(u))
  BY DEF Speaker, Writing, Began, Unread
<1> HIDE DEF t, u, mine
<1>5. Unread(u) \subseteq Unread(t)
  BY <1>1, RestIsUnread DEF Stays
<1>6. Speaker(u) => Speaker(t)
  BY <1>1, StaysSpeaker
<1>7. Speaker(t) => /\ t.conv \in Conversations /\ t.id # 0
                    /\ mine = Mine(t) /\ log[t.conv] \subseteq log'[t.conv]
  <2>1. Speaker(t) => t.conv \in Conversations /\ t.id # 0
    BY <1>1 DEF TurnStory
  <2>2. ASSUME Speaker(t)
        PROVE  mine = Mine(t)
    <3>1. \A e \in log'[t.conv] : e.turn = t.id => e \in log[t.conv]
      BY <2>1, <2>2 DEF LogGrows, NoTurn
    <3>2. log[t.conv] \subseteq log'[t.conv]
      BY <2>1, <2>2 DEF LogGrows
    <3> QED
      BY <1>1, <3>1, <3>2 DEF Mine, mine, Stays
  <2> QED
    BY <2>1, <2>2 DEF LogGrows
<1>8. u.pc \in TalkPCs => t.pc \in TalkPCs /\ Speaker(t)
  BY <1>1 DEF Stays, TalkPCs, Speaker, Writing, WritingPCs
<1>9. u.out # <<>> => t.out # <<>> /\ ~t.gone
  <2>1. CASE t.out = <<>>
    <3>1. DOMAIN u.out = {}
      BY <1>1, <2>1 DEF Stays, Rest
    <3>2. u.out = <<>>
      BY <1>2, <3>1, EmptyDomain
    <3> QED
      BY <3>2
  <2>2. CASE t.out # <<>>
    BY <1>1, <2>2 DEF Stays, TurnStory
  <2> QED
    BY <2>1, <2>2
<1>10. Speaker(u) => /\ u.conv \in Conversations /\ u.id \in Nat \ {0}
                     /\ \E f \in log'[u.conv] : f.seq = u.id /\ f.turn = u.id
                     /\ \A e \in mine : e.type = "turn.user_message.accepted" =>
                          e.text = u.prompt
  BY <1>1, <1>6, <1>7 DEF TurnStory, Begun, Stays
<1>11. u.pc \in TalkPCs => \A e \in mine : e.type \notin FinishTypes
  BY <1>1, <1>7, <1>8 DEF TurnStory
<1>12. u.pc \in EarlyPCs \/ u.gone => u.out = <<>>
  BY <1>1, <1>9 DEF Stays, TurnStory, EarlyPCs
<1>13. u.pc = "prepare" => u.seq = 0
  BY <1>1 DEF Stays, TurnStory
<1>14. \A e \in Unread(u) : /\ e.turn = u.id /\ e.conv = u.conv
                            /\ e.type # "turn.error" => e \in log'[u.conv]
  <2>1. \A e \in Unread(t) : /\ e.turn = t.id /\ e.conv = t.conv
                             /\ e.type # "turn.error" => e \in log[t.conv] /\ Speaker(t)
    BY <1>1 DEF TurnStory, Speaker
  <2> QED
    BY <1>1, <1>5, <1>7, <2>1 DEF Stays
<1>15. TurnStory(turns[n])'
  BY <1>3, <1>4, <1>10, <1>11, <1>12, <1>13, <1>14 DEF TurnStory, Begun, u
<1>16. ASSUME u.out # <<>>, ~u.broken
       PROVE  OutStory(turns[n])'
  <2>1. OutStory(t) /\ Began(t) /\ Began(u) /\ Speaker(t)
    BY <1>1, <1>9, <1>16 DEF Stays, OutStory, Began, Speaker
  <2>2. Unread(u) \subseteq log'[u.conv] /\ \A e \in Unread(u) : e.seq < u.seq
    BY <1>1, <1>5, <1>7, <2>1 DEF OutStory, Stays
  <2>3. PICK k \in Nat :
          /\ \A i \in DOMAIN u.out : i \in Int /\ i + k \in DOMAIN t.out /\ u.out[i] = t.out[i + k]
          /\ \A j \in DOMAIN t.out : j \in Int /\ (j > k => j - k \in DOMAIN u.out)
          /\ \A i \in DOMAIN u.out : i > 0
    BY <1>1 DEF Stays, Rest
  <2>4. \A i, j \in DOMAIN t.out : i < j => t.out[i].seq < t.out[j].seq
    BY <2>1 DEF OutStory
  <2>5. \A i, j \in DOMAIN u.out : i < j => u.out[i].seq < u.out[j].seq
    BY <2>3, <2>4
  <2>6. \A j \in DOMAIN t.out : t.out[j].seq \in Nat
    BY <1>2, EventNumbers, ElementOfSeq, LenProperties
  <2>7. ASSUME NEW e \in Unread(u), NEW f \in mine, f.type \in FinishTypes, e.seq <= f.seq
        PROVE  f \in Unread(u)
    <3>1. f \in Unread(t)
      BY <1>5, <1>7, <2>1, <2>7 DEF OutStory
    <3>2. PICK i \in DOMAIN u.out : e = u.out[i]
      BY <2>7 DEF Unread
    <3>3. PICK j \in DOMAIN t.out : f = t.out[j]
      BY <3>1 DEF Unread
    <3>4. i + k \in DOMAIN t.out /\ e = t.out[i + k] /\ i \in Int /\ j \in Int /\ i > 0
      BY <2>3, <3>2, <3>3
    <3>5. ~(j < i + k)
      BY <2>4, <2>6, <2>7, <3>3, <3>4
    <3>6. j > k
      BY <2>3, <3>4, <3>5
    <3>7. j - k \in DOMAIN u.out /\ (j - k) + k = j
      BY <2>3, <3>4, <3>6
    <3>8. u.out[j - k] = f
      BY <2>3, <3>3, <3>7
    <3> QED
      BY <3>7, <3>8 DEF Unread
  <2> QED
    BY <1>3, <1>4, <2>1, <2>2, <2>5, <2>7 DEF OutStory, u
<1>17. (turns[n].out # <<>> /\ ~turns[n].broken => OutStory(turns[n]))'
  BY <1>16 DEF u
<1> QED
  BY <1>15, <1>17

LEMMA FreshStory ==
  ASSUME NEW n \in Slots, Fresh(turns'[n])
  PROVE  /\ TurnStory(turns[n])'
         /\ (turns[n].out # <<>> /\ ~turns[n].broken => OutStory(turns[n]))'
<1> DEFINE u == turns'[n]
<1>1. ~Speaker(turns[n])' /\ Unread(turns[n])' = {} /\ u.pc = "prepare" /\ u.out = <<>> /\ u.seq = 0
  BY FreshIsSilent DEF Fresh, Unread, Speaker, Writing, Began
<1> QED
  BY <1>1 DEF TurnStory, TalkPCs

LEMMA AsideKeepsStory ==
  ASSUME ServerInv, ServerInv', StoryInv, LogGrows,
         \A n \in Slots : Stays(turns[n], turns'[n]) \/ Fresh(turns'[n])
  PROVE  StoryInv'
<1>1. \A n \in Slots : /\ TurnStory(turns[n])'
                       /\ (turns[n].out # <<>> /\ ~turns[n].broken => OutStory(turns[n]))'
  BY StaysStory, FreshStory
<1>2. DeltasFirst'
  BY DEF StoryInv, DeltasFirst, LogGrows, ConversationTypes, FinishTypes
<1>3. ASSUME NEW n \in Slots, Speaker(turns'[n])
      PROVE  Speaker(turns[n]) /\ turns'[n].conv = turns[n].conv /\ turns'[n].id = turns[n].id
  <2>1. Stays(turns[n], turns'[n])
    BY <1>3, FreshIsSilent
  <2> QED
    BY <1>3, <2>1, StaysSpeaker DEF Stays
<1>4. SpeakersDiffer'
  <2> SUFFICES ASSUME NEW m \in Slots, NEW n \in Slots, Speaker(turns'[m]), Speaker(turns'[n]),
                      turns'[m].conv = turns'[n].conv, turns'[m].id = turns'[n].id
               PROVE  m = n
    BY DEF SpeakersDiffer, Speaker, Writing, Began, Unread
  <2> QED
    BY <1>3 DEF StoryInv, SpeakersDiffer
<1> QED
  BY <1>1, <1>2, <1>4 DEF StoryInv

(* What such a step leaves of the record of a turn.                        *)
LEMMA StaysIfSame ==
  ASSUME NEW t \in TurnRecords
  PROVE  Stays(t, t) /\ Rest(t.out, t.out)
<1>1. t.out \in Seq(Events)
  BY DEF TurnRecords
<1> DEFINE out == t.out
<1>2. Len(out) \in Nat /\ DOMAIN out = 1..Len(out)
  BY <1>1, LenProperties
<1>3. Rest(out, out)
  <2> HIDE DEF out
  <2>1. /\ \A i \in DOMAIN out : i \in Int /\ i + 0 \in DOMAIN out /\ out[i] = out[i + 0]
        /\ \A j \in DOMAIN out : j \in Int /\ (j > 0 => j - 0 \in DOMAIN out)
        /\ \A i \in DOMAIN out : i > 0
    BY <1>2
  <2> QED
    BY <2>1 DEF Rest
<1> QED
  BY <1>3 DEF Stays

LEMMA NothingLeft ==
  ASSUME NEW out \in Seq(Events)
  PROVE  Rest(<<>>, out)
<1> DEFINE none == <<>>
           k == Len(out)
<1>1. k \in Nat /\ DOMAIN out = 1..k /\ DOMAIN none = {}
  BY LenProperties
<1> HIDE DEF none, k
<1>2. /\ \A i \in DOMAIN none : i \in Int /\ i + k \in DOMAIN out /\ none[i] = out[i + k]
      /\ \A j \in DOMAIN out : j \in Int /\ (j > k => j - k \in DOMAIN none)
      /\ \A i \in DOMAIN none : i > 0
  BY <1>1
<1>3. Rest(none, out)
  BY <1>1, <1>2 DEF Rest
<1> QED
  BY <1>3 DEF none

LEMMA TailLeft ==
  ASSUME NEW out \in Seq(Events), out # <<>>
  PROVE  Rest(Tail(out), out)
<1> DEFINE tail == Tail(out)
           len == Len(out)
<1>1. /\ len \in Nat /\ DOMAIN out = 1..len
      /\ tail \in Seq(Events) /\ Len(tail) = len - 1
      /\ \A i \in 1..Len(tail) : tail[i] = out[i + 1]
  BY LenProperties, HeadTailProperties
<1>2. DOMAIN tail = 1..Len(tail)
  BY <1>1, LenProperties
<1> HIDE DEF tail, len
<1>3. /\ \A i \in DOMAIN tail : i \in Int /\ i + 1 \in DOMAIN out /\ tail[i] = out[i + 1]
      /\ \A j \in DOMAIN out : j \in Int /\ (j > 1 => j - 1 \in DOMAIN tail)
      /\ \A i \in DOMAIN tail : i > 0
  BY <1>1, <1>2
<1>4. Rest(tail, out)
  BY <1>3 DEF Rest
<1> QED
  BY <1>4 DEF tail

LEMMA RecordStays ==
  ASSUME NEW t \in TurnRecords, NEW out, Rest(out, t.out), NEW new,
         \/ new = [t EXCEPT !.stopped = TRUE]
         \/ new = [t EXCEPT !.out = out]
         \/ new = LeftRecord(t, out) /\ out = <<>>
         \/ t.pc # "idle" /\ new = [t EXCEPT !.pc = "over"]
  PROVE  Stays(t, new)
<1> DEFINE S == Seq(Events)
<1>1. TurnRecords =
        [pc : PCs, conv : Conversations \cup {NoConversation}, req : Nat, seq : Nat,
         id : Nat, prompt : Nat, flow : {"provider", "query"}, deltas : Nat,
         stopped : BOOLEAN, gone : BOOLEAN, broken : BOOLEAN, out : S]
  BY DEF TurnRecords
<1>2. Rest(t.out, t.out)
  BY StaysIfSame
<1> HIDE DEF S
<1>3. CASE new = [t EXCEPT !.stopped = TRUE]
  BY <1>1, <1>2, <1>3 DEF Stays
<1>4. CASE new = [t EXCEPT !.out = out]
  BY <1>1, <1>4 DEF Stays
<1>5. CASE new = LeftRecord(t, out) /\ out = <<>>
  BY <1>1, <1>5 DEF Stays, LeftRecord
<1>6. CASE t.pc # "idle" /\ new = [t EXCEPT !.pc = "over"]
  BY <1>1, <1>2, <1>6 DEF Stays
<1> QED
  BY <1>3, <1>4, <1>5, <1>6

LEMMA LogStays ==
  ASSUME UNCHANGED log
  PROVE  LogGrows
BY DEF LogGrows

LEMMA OthersStay ==
  ASSUME ServerInv, NEW n \in Slots, NEW new, turns' = [turns EXCEPT ![n] = new],
         Stays(turns[n], new) \/ Fresh(new)
  PROVE  \A m \in Slots : Stays(turns[m], turns'[m]) \/ Fresh(turns'[m])
<1>1. turns \in [Slots -> TurnRecords]
  BY DEF ServerInv, TurnsTyped
<1> SUFFICES ASSUME NEW m \in Slots
             PROVE  Stays(turns[m], turns'[m]) \/ Fresh(turns'[m])
  OBVIOUS
<1>2. CASE m = n
  BY <1>1, <1>2
<1>3. CASE m # n
  <2>1. turns'[m] = turns[m] /\ turns[m] \in TurnRecords
    BY <1>1, <1>3
  <2> QED
    BY <2>1, StaysIfSame
<1> QED
  BY <1>2, <1>3

LEMMA TurnsStay ==
  ASSUME ServerInv, UNCHANGED turns
  PROVE  \A m \in Slots : Stays(turns[m], turns'[m]) \/ Fresh(turns'[m])
BY StaysIfSame DEF ServerInv, TurnsTyped

(* Every step of the server with any clients is a tale of a turn, or an    *)
(* aside.                                                                  *)
Aside == LogGrows /\ \A n \in Slots : Stays(turns[n], turns'[n]) \/ Fresh(turns'[n])

LEMMA ConversationAside ==
  ASSUME ServerInv, NEW c \in Conversations, NEW type, NEW seq, NEW status,
         type \in ConversationTypes, UNCHANGED turns,
         log' = [log EXCEPT ![c] = @ \cup {Event(c, seq, type, NoTurn, NoDraft, status)}]
  PROVE  Aside
<1> DEFINE e == Event(c, seq, type, NoTurn, NoDraft, status)
<1>1. e.turn = NoTurn /\ e.type = type
  BY DEF Event
<1>2. log \in [Conversations -> SUBSET Events] /\ log' = [log EXCEPT ![c] = @ \cup {e}]
  BY DEF ServerInv, LogsOK
<1> HIDE DEF e
<1>3. LogGrows
  BY <1>1, <1>2 DEF LogGrows
<1> QED
  BY <1>3, TurnsStay DEF Aside

LEMMA ServerAside ==
  ASSUME ServerInv, [AnyTurnsNext]_turnVars, ~\E n \in Slots : TurnStep(n)
  PROVE  Aside
<1>0. turns \in [Slots -> TurnRecords]
  BY DEF ServerInv, TurnsTyped
<1>1. CASE UNCHANGED turnVars
  BY <1>1, LogStays, TurnsStay DEF turnVars, Aside
<1>2. CASE Restart
  <2>1. \A m \in Slots : Stays(turns[m], turns'[m])
    <3> SUFFICES ASSUME NEW m \in Slots
                 PROVE  Stays(turns[m], turns'[m])
      OBVIOUS
    <3>1. turns[m] \in TurnRecords /\ Rest(turns[m].out, turns[m].out)
      BY <1>0, StaysIfSame
    <3>2. CASE Running(m)
      <4>1. turns[m].pc # "idle" /\ turns'[m] = [turns[m] EXCEPT !.pc = "over"]
        BY <1>2, <3>2 DEF Restart, Running
      <4> DEFINE t == turns[m]
                 new == turns'[m]
                 out == t.out
      <4> HIDE DEF t, new, out
      <4>2. Stays(t, new)
        <5>1. t \in TurnRecords /\ Rest(out, t.out) /\ t.pc # "idle"
              /\ new = [t EXCEPT !.pc = "over"]
          BY <3>1, <4>1 DEF t, new, out
        <5> QED
          BY <5>1, RecordStays
      <4> QED
        BY <4>2 DEF t, new
    <3>3. CASE ~Running(m)
      <4>1. turns'[m] = turns[m]
        BY <1>2, <3>3 DEF Restart
      <4> QED
        BY <3>1, <4>1, StaysIfSame
    <3> QED
      BY <3>2, <3>3
  <2> QED
    BY <1>2, <2>1, LogStays DEF Restart, Aside
<1>4. ASSUME NEW c \in Conversations, NEW id \in Nat \ {0}, InterruptTurn(c, id)
      PROVE  Aside
  <2>1. CASE id \in DOMAIN interrupts /\ turns[interrupts[id]].conv = c
    <3> DEFINE n == interrupts[id]
               t == turns[n]
               new == [t EXCEPT !.stopped = TRUE]
               out == t.out
    <3>1. n \in Slots /\ t \in TurnRecords
      BY <2>1, <1>0 DEF ServerInv, RegistryOK
    <3>2. turns' = [turns EXCEPT ![n] = new] /\ UNCHANGED log
      BY <2>1, <3>1, <1>0, <1>4 DEF InterruptTurn
    <3>3. Stays(t, new)
      <4>1. Rest(out, t.out)
        BY <3>1, StaysIfSame
      <4> HIDE DEF t, out
      <4> QED
        BY <3>1, <4>1, RecordStays
    <3> HIDE DEF new, n
    <3> QED
      BY <3>1, <3>2, <3>3, OthersStay, LogStays DEF Aside
  <2>2. CASE UNCHANGED turnVars
    BY <2>2, LogStays, TurnsStay DEF turnVars, Aside
  <2> QED
    BY <1>4, <2>1, <2>2 DEF InterruptTurn
<1>5. ASSUME NEW c \in Conversations, CreateConversation(c)
      PROVE  Aside
  <2> DEFINE e == Event(c, 1, "conversation.loaded", NoTurn, NoDraft, "active")
  <2>1. log[c] = {} /\ log' = [log EXCEPT ![c] = {e}] /\ UNCHANGED turns
    BY <1>5 DEF CreateConversation, Exists
  <2> HIDE DEF e
  <2>2. log' = [log EXCEPT ![c] = @ \cup {e}]
    BY <2>1
  <2>3. "conversation.loaded" \in ConversationTypes
    BY DEF ConversationTypes
  <2>4. /\ log' = [log EXCEPT ![c] =
                     @ \cup {Event(c, 1, "conversation.loaded", NoTurn, NoDraft, "active")}]
        /\ UNCHANGED turns
    BY <2>1, <2>2 DEF e
  <2> QED
    BY <2>3, <2>4, ConversationAside
<1>6. ASSUME NEW c \in Conversations, NEW type \in ConversationTypes,
             UpdateConversation(c, type)
      PROVE  Aside
  <2> DEFINE status == CASE type = "conversation.archived" -> "archived"
                         [] type = "conversation.unarchived" -> "active"
                         [] OTHER -> IF ArchivedIn(log[c]) THEN "archived" ELSE "active"
             next == NextSequence(log[c])
  <2>1. /\ log' = [log EXCEPT ![c] = @ \cup {Event(c, next, type, NoTurn, NoDraft, status)}]
        /\ UNCHANGED turns
    BY <1>6 DEF UpdateConversation, ServerInv, LogsOK
  <2> HIDE DEF status, next
  <2> QED
    BY <2>1, ConversationAside
<1>7. ASSUME NEW c \in Conversations, NEW n \in Slots, NEW next \in Nat \ {0},
             NEW prompt \in Drafts, Receive(n, c, next, prompt)
      PROVE  Aside
  <2> DEFINE new == [Idle EXCEPT !.pc = "prepare", !.conv = c, !.req = next,
                                !.prompt = prompt]
  <2>1. turns' = [turns EXCEPT ![n] = new] /\ UNCHANGED log
    BY <1>7 DEF Receive
  <2>2. Fresh(new)
    BY DEF Fresh, Idle, NoTurn
  <2> HIDE DEF new
  <2> QED
    BY <2>1, <2>2, OthersStay, LogStays DEF Aside
<1>8. ASSUME NEW n \in Slots, Deliver(n)
      PROVE  Aside
  <2> DEFINE t == turns[n]
             out == Tail(t.out)
             new == [t EXCEPT !.out = out]
  <2>1. t \in TurnRecords /\ t.out \in Seq(Events) /\ t.out # <<>>
    BY <1>0, <1>8 DEF TurnRecords, Deliver
  <2>2. turns' = [turns EXCEPT ![n] = new] /\ UNCHANGED log
    BY <1>0, <1>8 DEF Deliver
  <2>3. Rest(out, t.out)
    BY <2>1, TailLeft
  <2>4. Stays(t, new)
    <3> HIDE DEF t, out
    <3> QED
      BY <2>1, <2>3, RecordStays
  <2> HIDE DEF new
  <2> QED
    BY <2>2, <2>4, OthersStay, LogStays DEF Aside
<1>9. ASSUME NEW dropped \in SUBSET Slots, Disconnect(dropped)
      PROVE  Aside
  <2>1. \A m \in Slots : Stays(turns[m], turns'[m])
    <3> SUFFICES ASSUME NEW m \in Slots
                 PROVE  Stays(turns[m], turns'[m])
      OBVIOUS
    <3>1. turns[m] \in TurnRecords
      BY <1>0
    <3>2. CASE m \in dropped
      <4> DEFINE t == turns[m]
                 none == <<>>
                 new == turns'[m]
      <4>1. new = LeftRecord(t, none) /\ none = <<>> /\ t \in TurnRecords
        BY <1>9, <3>1, <3>2 DEF Disconnect, LeftRecord
      <4>2. Rest(none, t.out)
        BY <3>1, NothingLeft DEF TurnRecords
      <4> HIDE DEF t, none, new
      <4>3. Stays(t, new)
        BY <4>1, <4>2, RecordStays
      <4> QED
        BY <4>3 DEF t, new
    <3>3. CASE m \notin dropped
      <4>1. turns'[m] = turns[m]
        BY <1>9, <3>3 DEF Disconnect
      <4> QED
        BY <3>1, <4>1, StaysIfSame
    <3> QED
      BY <3>2, <3>3
  <2> QED
    BY <1>9, <2>1, LogStays DEF Disconnect, Aside
<1> QED
  BY <1>1, <1>2, <1>4, <1>5, <1>6, <1>7, <1>8, <1>9
     DEF AnyTurnsNext, ServerStep, AnyClientStep

LEMMA StoryNext ==
  ASSUME ServerInv, ServerInv', StoryInv, [AnyTurnsNext]_turnVars
  PROVE  StoryInv'
<1>1. ASSUME NEW n \in Slots, TurnStep(n)
      PROVE  StoryInv'
  <2>1. PICK es, said : Tale(n, es, said)
    BY <1>1, StepTale DEF TurnStep, TellsTale
  <2> QED
    BY <2>1, TaleKeepsStory
<1>2. CASE ~\E n \in Slots : TurnStep(n)
  BY <1>2, ServerAside, AsideKeepsStory DEF Aside
<1> QED
  BY <1>1, <1>2

LEMMA StoryBegins == ServerInit => StoryInv
<1> SUFFICES ASSUME ServerInit PROVE StoryInv
  OBVIOUS
<1>1. \A n \in Slots : turns[n] = Idle
  BY DEF ServerInit
<1>0. Idle.out = <<>> /\ Idle.pc = "idle" /\ Idle.id = 0 /\ Idle.seq = 0
  BY DEF Idle, NoTurn
<1>2. Unread(Idle) = {} /\ ~Speaker(Idle)
  BY <1>0 DEF Unread, Speaker, Writing, WritingPCs, Began
<1>3. TurnStory(Idle) /\ Idle.out = <<>>
  BY <1>0, <1>2 DEF TurnStory, TalkPCs, EarlyPCs
<1>4. DeltasFirst
  BY DEF ServerInit, DeltasFirst
<1> QED
  BY <1>1, <1>2, <1>3, <1>4 DEF StoryInv, SpeakersDiffer

LEMMA StoryAlways == TurnsSpec => [](ServerInv /\ StoryInv)
<1>1. ServerInit => ServerInv /\ StoryInv
  BY ServerInvInit, StoryBegins
<1>2. ServerInv /\ StoryInv /\ [TurnsNext]_turnVars => (ServerInv /\ StoryInv)'
  <2>1. [TurnsNext]_turnVars => [AnyTurnsNext]_turnVars
    BY TurnsNextIsAny
  <2> QED
    BY <2>1, ServerInvNext, StoryNext
<1> QED
  BY <1>1, <1>2, PTL DEF TurnsSpec

(***************************************************************************)
(* No delta of a reply is stored after what finished it: a turn that loses *)
(* its client, is interrupted or fails between two writes, a server that   *)
(* restarts and a later turn that begins under any free number do not add  *)
(* to a reply whose end is in the log (gateway.go:242-319).                *)
(***************************************************************************)
THEOREM DeltasAlwaysFirst == TurnsSpec => []DeltasFirst
<1>1. StoryInv => DeltasFirst
  BY DEF StoryInv
<1> QED
  BY <1>1, StoryAlways, PTL
=============================================================================
