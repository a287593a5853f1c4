------------------------ MODULE OrgUnitHistoryProofs ------------------------
(***************************************************************************)
(* What the log says and what the projection shows: a rescind is final,    *)
(* and the rows of a unit tell the history of its effective events.        *)
(***************************************************************************)
EXTENDS OrgUnitKernelProofs

(***************************************************************************)
(* The log in more detail.  A correction or a rescind is about an event of *)
(* the same unit, a rescind is the last that is said about its target, and *)
(* the payload of an event has one spelling of each key that its apply     *)
(* function reads.                                                         *)
(***************************************************************************)
Plain(type, payload) ==
  /\ type = "RENAME" => ~Carries(payload, "name")
  /\ type = "MOVE" => ~Carries(payload, "parent_org_node_key")
  /\ type \in {"ENABLE", "DISABLE"} => ~Carries(payload, "status")

BaseShape(e) == /\ e.type \in BaseTypes
                /\ e.target = NoTarget
                /\ Plain(e.type, e.payload)

FixShape(e, log) ==
  /\ e.type \in CorrectionTypes
  /\ e.target \in DOMAIN log
  /\ log[e.target].node = e.node
  /\ e.type = "CORRECT_STATUS" => log[e.target].type \in {"ENABLE", "DISABLE"}

RescindsLast(log) ==
  \A i \in DOMAIN log : \A j, k \in CorrectionsOf(log, i) :
    log[j].type \in RescindTypes => k <= j

LogFine(log) ==
  /\ \A i \in DOMAIN log : BaseShape(log[i]) \/ FixShape(log[i], log)
  /\ RescindsLast(log)

(* The open rebuild will lengthen the log by its pending event, and by a   *)
(* rescind of each event of the batch.                                     *)
PendingFine ==
  txn.open => /\ FixShape(txn.pending, events)
              /\ ~HasRescind(events, txn.pending.target)
              /\ BatchFresh(txn.batch, txn.pending, events)

FineInv ==
  /\ LedgerInv
  /\ LogFine(events)
  /\ LogFine(txn.savedEvents)
  /\ PendingFine

(* Appending an event says nothing more of any other event than its target.*)
LEMMA AppendCorrections ==
  ASSUME NEW log, LogOK(log), NEW e, NEW i \in Nat
  PROVE  /\ e.target = i =>
              CorrectionsOf(Append(log, e), i) = CorrectionsOf(log, i) \cup {Len(log) + 1}
         /\ e.target # i => CorrectionsOf(Append(log, e), i) = CorrectionsOf(log, i)
<1> DEFINE new == Append(log, e)
<1>1. /\ DOMAIN new = 1 .. (Len(log) + 1)
      /\ \A j \in DOMAIN log : new[j] = log[j]
      /\ new[Len(log) + 1] = e
  BY AppendShape
<1>2. Len(log) \in Nat /\ DOMAIN log = 1 .. Len(log)
  BY LogShape
<1> HIDE DEF new
<1>3. DOMAIN new = DOMAIN log \cup {Len(log) + 1}
  BY <1>1, <1>2
<1>4. CorrectionsOf(new, i) = CorrectionsOf(log, i) \cup
                              {j \in {Len(log) + 1} : e.target = i}
  BY <1>1, <1>3 DEF CorrectionsOf
<1> QED
  BY <1>4 DEF new

LEMMA AppendRescinds ==
  ASSUME NEW log, LogOK(log), NEW e, NEW i \in Nat, ~HasRescind(log, i),
         e.target = i => e.type \notin RescindTypes
  PROVE  ~HasRescind(Append(log, e), i)
<1> DEFINE new == Append(log, e)
<1>1. /\ \A j \in DOMAIN log : new[j] = log[j]
      /\ new[Len(log) + 1] = e
  BY AppendShape
<1>2. /\ e.target = i => CorrectionsOf(new, i) = CorrectionsOf(log, i) \cup {Len(log) + 1}
      /\ e.target # i => CorrectionsOf(new, i) = CorrectionsOf(log, i)
  BY AppendCorrections
<1>3. CorrectionsOf(log, i) \subseteq DOMAIN log
  BY DEF CorrectionsOf
<1> HIDE DEF new
<1>4. \A j \in CorrectionsOf(new, i) : new[j].type \notin RescindTypes
  BY <1>1, <1>2, <1>3 DEF HasRescind
<1> QED
  BY <1>4 DEF HasRescind, new

LEMMA AppendFine ==
  ASSUME NEW log, LogOK(log), LogFine(log), NEW e, e.target \in Nat,
         \/ BaseShape(e)
         \/ FixShape(e, log) /\ ~HasRescind(log, e.target)
  PROVE  LogFine(Append(log, e))
<1> DEFINE new == Append(log, e)
           last == Len(log) + 1
<1>1. /\ DOMAIN new = 1 .. last
      /\ \A j \in DOMAIN log : new[j] = log[j]
      /\ new[last] = e
  BY AppendShape
<1>2. Len(log) \in Nat /\ DOMAIN log = 1 .. Len(log)
  BY LogShape
<1>3. \A i \in Nat :
        /\ e.target = i => CorrectionsOf(new, i) = CorrectionsOf(log, i) \cup {last}
        /\ e.target # i => CorrectionsOf(new, i) = CorrectionsOf(log, i)
  BY AppendCorrections
<1> HIDE DEF new
<1>4. ASSUME NEW i \in DOMAIN new
      PROVE  BaseShape(new[i]) \/ FixShape(new[i], new)
  <2>1. DOMAIN log \subseteq DOMAIN new
    BY <1>1, <1>2
  <2>2. CASE i \in DOMAIN log
    BY <2>1, <2>2, <1>1 DEF LogFine, FixShape
  <2>3. CASE i = last
    BY <2>1, <2>3, <1>1 DEF FixShape
  <2> QED
    BY <2>2, <2>3, <1>1, <1>2
<1>5. ASSUME NEW i \in DOMAIN new, NEW j \in CorrectionsOf(new, i),
             NEW k \in CorrectionsOf(new, i), new[j].type \in RescindTypes
      PROVE  k <= j
  <2>1. i \in Nat /\ CorrectionsOf(log, i) \subseteq DOMAIN log
    BY <1>1, <1>2 DEF CorrectionsOf
  <2>2. CASE i = last
    <3>1. \A m \in DOMAIN log : log[m].target < m
      BY DEF LogOK
    <3>2. CorrectionsOf(log, i) = {}
      BY <3>1, <2>2, <1>2 DEF CorrectionsOf, LogOK, EventOK
    <3>3. e.target # i
      BY <2>2, <1>2 DEF BaseShape, NoTarget, FixShape
    <3> QED
      BY <3>2, <3>3, <2>1, <1>3
  <2>3. CASE i \in DOMAIN log /\ e.target # i
    <3>1. j \in CorrectionsOf(log, i) /\ k \in CorrectionsOf(log, i)
      BY <2>1, <2>3, <1>3
    <3>2. log[j].type \in RescindTypes
      BY <3>1, <2>1, <1>1, <1>5
    <3> QED
      BY <3>1, <3>2, <2>3 DEF LogFine, RescindsLast
  <2>4. CASE i \in DOMAIN log /\ e.target = i
    <3>1. ~HasRescind(log, i)
      BY <2>4, <1>2 DEF BaseShape, NoTarget
    <3>2. ASSUME j # last PROVE FALSE
      <4>1. j \in CorrectionsOf(log, i)
        BY <3>2, <2>1, <2>4, <1>3
      <4>2. log[j].type \in RescindTypes
        BY <4>1, <2>1, <1>1, <1>5
      <4> QED
        BY <3>1, <4>1, <4>2 DEF HasRescind
    <3>3. k = last \/ k \in DOMAIN log
      BY <2>1, <2>4, <1>3
    <3> QED
      BY <3>2, <3>3, <1>2
  <2> QED
    BY <2>2, <2>3, <2>4, <1>1, <1>2
<1>6. RescindsLast(new)
  BY <1>5 DEF RescindsLast
<1> QED
  BY <1>4, <1>6 DEF LogFine, new

LEMMA BasePayloadsPlain ==
  ASSUME NEW type \in BaseTypes, NEW p \in BasePayloads(type)
  PROVE  Plain(type, p)
<1>1. CASE type = "RENAME"
  BY <1>1, PayloadsOK DEF BasePayloads, Plain, Carries
<1>2. CASE type = "MOVE"
  BY <1>2, PayloadsOK DEF BasePayloads, Plain, Carries
<1>3. CASE type \in {"DISABLE", "ENABLE"}
  <2>1. p = <<>> /\ DOMAIN <<>> = {}
    BY <1>3 DEF BasePayloads, Empty
  <2> QED
    BY <2>1, <1>3 DEF Plain, Carries
<1> QED
  BY <1>1, <1>2, <1>3 DEF Plain

(***************************************************************************)
(* The steps.                                                              *)
(***************************************************************************)
(* What SubmitBase writes. *)
Submits(n, type, d, payload, e) ==
  /\ n \in Nodes /\ type \in BaseTypes /\ d \in Dates
  /\ PayloadOK(payload) /\ Complete(type, payload) /\ Plain(type, payload)
  /\ e.node = n /\ e.type = type /\ e.date = d /\ e.payload = payload
  /\ e.target = NoTarget /\ e.time \in StartTimes /\ EventOK(e)
  /\ db' \in Apply(events, db, n, type, d, payload)
  /\ events' = Append(events, e)

LEMMA SubmitBaseWrites ==
  ASSUME KernelInv, SubmitBase
  PROVE  ~txn.open /\ txn' = txn /\ \E n, type, d, payload, e : Submits(n, type, d, payload, e)
<1>1. PICK type \in BaseKinds, d \in Dates, time \in StartTimes :
        \E n \in Targets(type), payload \in BasePayloads(type) :
          SubmitEvent(type, n, d, payload, time)
  BY DEF SubmitBase
<1>2. PICK n \in Targets(type), payload \in BasePayloads(type) :
        SubmitEvent(type, n, d, payload, time)
  BY <1>1
<1>3. type \in BaseTypes /\ n \in Nodes /\ time \in Nat /\ NoTarget \in Nat
  BY KindsAssumption, KnownNodes, StartTimesOK DEF Targets, NoTarget
<1>4. PayloadOK(payload) /\ Complete(type, payload) /\ Plain(type, payload)
  BY <1>3, BasePayloadsOK, BasePayloadsPlain
<1> DEFINE e == Event(n, type, d, payload, NoTarget, time)
<1>5. /\ EventOK(e) /\ e.target = NoTarget /\ e.time = time
      /\ e.node = n /\ e.type = type /\ e.date = d /\ e.payload = payload
  BY <1>3, <1>4, EventFields
<1> HIDE DEF e
<1>6. /\ ~txn.open /\ txn' = txn
      /\ db' \in Apply(events, db, n, type, d, payload)
      /\ events' = Append(events, e)
  BY <1>2 DEF SubmitEvent, SubmitBase, LockFree, e
<1>7. Submits(n, type, d, payload, e)
  BY <1>3, <1>4, <1>5, <1>6 DEF Submits
<1> QED
  BY <1>6, <1>7

LEMMA SubmitBaseFine ==
  ASSUME FineInv, LedgerInv', SubmitBase
  PROVE  FineInv'
<1>1. PICK n, type, d, payload, e : Submits(n, type, d, payload, e)
  BY SubmitBaseWrites DEF FineInv, LedgerInv
<1>2. ~txn.open /\ txn' = txn
  BY SubmitBaseWrites DEF FineInv, LedgerInv
<1>3. BaseShape(e) /\ e.target \in Nat
  BY <1>1 DEF Submits, BaseShape, EventOK
<1>4. LogFine(events')
  BY <1>1, <1>3, AppendFine DEF Submits, FineInv, LedgerInv, KernelInv
<1> QED
  BY <1>2, <1>4 DEF FineInv, PendingFine

LEMMA BeginRebuildFine ==
  ASSUME FineInv, LedgerInv', LockFree, NEW pending, NEW batch,
         RebuildBegins(pending, batch)
  PROVE  FineInv'
<1> DEFINE t == [NoTxn EXCEPT !.batch = batch, !.savedEvents = events, !.saved = db]
<1>1. /\ DOMAIN t = TxnFields /\ t.batch = batch
      /\ t.savedEvents = events /\ t.saved = db
  BY DEF NoTxn, TxnFields
<1>2. StartRebuild(t, events, pending) /\ events' = events
  BY DEF RebuildBegins, BeginRebuild
<1> HIDE DEF t
<1>3. LogOK(events) /\ Good(db) /\ EventOK(pending) /\ pending.target <= Len(events)
  BY DEF FineInv, LedgerInv, KernelInv, RebuildBegins
<1>4. /\ txn'.open /\ txn'.pending = pending
      /\ txn'.batch = batch /\ txn'.savedEvents = events
  BY <1>1, <1>2, <1>3, StartRebuildOK
<1>5. FixShape(pending, events) /\ ~HasRescind(events, pending.target)
  BY DEF RebuildBegins, FixOK, FixShape
<1>6. BatchFresh(batch, pending, events)
  BY DEF RebuildBegins
<1> QED
  BY <1>2, <1>4, <1>5, <1>6 DEF FineInv, PendingFine

(* The end of a rebuild appends the pending event. *)
LEMMA RebuildDoneFine ==
  ASSUME FineInv, RebuildDone
  PROVE  LogFine(events')
<1>1. txn.open /\ events' = Append(events, txn.pending)
  BY DEF RebuildDone
<1>2. LogOK(events) /\ EventOK(txn.pending)
  BY <1>1 DEF FineInv, LedgerInv, KernelInv, TxnOK
<1>3. FixShape(txn.pending, events) /\ ~HasRescind(events, txn.pending.target)
  BY <1>1 DEF FineInv, PendingFine
<1> QED
  BY <1>1, <1>2, <1>3, AppendFine DEF FineInv, EventOK

LEMMA NextTargetFine ==
  ASSUME FineInv, LedgerInv', NextTarget
  PROVE  FineInv'
<1>1. /\ txn.open /\ events' = Append(events, txn.pending)
      /\ LogOK(events') /\ Len(events') = Len(events) + 1
      /\ DOMAIN events \subseteq DOMAIN events'
      /\ Len(events) \in Nat
  BY RebuildDoneOK DEF NextTarget, FineInv, LedgerInv
<1>2. PICK t \in txn.batch :
        StartRebuild([txn EXCEPT !.batch = @ \ {t}], events',
                     RescindOf(txn.pending.node, t, txn.pending.time))
  BY DEF NextTarget
<1>3. /\ DOMAIN txn = TxnFields /\ EventOK(txn.pending) /\ Good(db) /\ LogOK(events)
      /\ \A u \in txn.batch : u.id \in DOMAIN events /\ u.asOf \in Dates
  BY <1>1 DEF FineInv, LedgerInv, KernelInv, TxnOK, BatchOK, TxnFields
<1> DEFINE rest == [txn EXCEPT !.batch = @ \ {t}]
           e == RescindOf(txn.pending.node, t, txn.pending.time)
<1>4. /\ DOMAIN rest = TxnFields /\ rest.batch = txn.batch \ {t}
      /\ rest.savedEvents = txn.savedEvents
  BY <1>3 DEF TxnFields
<1>5. DOMAIN events = 1 .. Len(events)
  BY <1>3, LogShape
<1>6. /\ EventOK(e) /\ e.target = t.id /\ e.node = txn.pending.node
      /\ e.type = "RESCIND_ORG"
  <2>1. txn.pending.node \in Nodes /\ txn.pending.time \in Nat
    BY <1>3 DEF EventOK
  <2>2. t.asOf \in Dates /\ t.id \in Nat
    BY <1>3, <1>5
  <2> QED
    BY <2>1, <2>2, RescindOfOK
<1>7. e.target <= Len(events')
  BY <1>1, <1>3, <1>5, <1>6
<1>8. StartRebuild(rest, events', e)
  BY <1>2
<1> HIDE DEF rest, e
<1>9. /\ txn'.open /\ txn'.pending = e
      /\ txn'.batch = rest.batch /\ txn'.savedEvents = txn.savedEvents
  BY <1>1, <1>3, <1>4, <1>6, <1>7, <1>8, StartRebuildOK
<1>10. BatchFresh(txn.batch, txn.pending, events)
  BY <1>1 DEF FineInv, PendingFine
<1>11. ASSUME NEW u \in txn.batch
       PROVE  events'[u.id].node = e.node /\ ~HasRescind(events', u.id)
  <2>1. /\ u.id \in DOMAIN events /\ events[u.id].node = txn.pending.node
        /\ ~HasRescind(events, u.id) /\ u.id # txn.pending.target
    BY <1>3, <1>10 DEF BatchFresh
  <2>2. events'[u.id] = events[u.id]
    BY <2>1, <1>1, <1>3, AppendShape
  <2>3. u.id \in Nat
    BY <2>1, <1>5
  <2>4. ~HasRescind(events', u.id)
    BY <2>1, <2>3, <1>1, <1>3, AppendRescinds
  <2> QED
    BY <2>1, <2>2, <2>4, <1>6
<1>12. FixShape(e, events') /\ ~HasRescind(events', e.target)
  BY <1>1, <1>3, <1>6, <1>11 DEF FixShape, CorrectionTypes, RescindTypes
<1>13. BatchFresh(txn.batch \ {t}, e, events')
  BY <1>6, <1>10, <1>11 DEF BatchFresh
<1>14. LogFine(events') /\ LogFine(txn.savedEvents)
  BY RebuildDoneFine DEF NextTarget, FineInv
<1> QED
  BY <1>4, <1>9, <1>12, <1>13, <1>14 DEF FineInv, PendingFine

LEMMA EmptyFine == LogFine(<<>>)
<1>1. DOMAIN <<>> = {}
  OBVIOUS
<1> QED
  BY <1>1 DEF LogFine, RescindsLast

LEMMA CommitFine ==
  ASSUME FineInv, LedgerInv', Commit
  PROVE  FineInv'
<1>1. LogFine(events') /\ txn' = NoTxn
  BY RebuildDoneFine DEF Commit
<1>2. ~NoTxn.open /\ NoTxn.savedEvents = <<>>
  BY DEF NoTxn
<1> QED
  BY <1>1, <1>2, EmptyFine DEF FineInv, PendingFine

LEMMA AbortFine ==
  ASSUME FineInv, LedgerInv', Abort
  PROVE  FineInv'
<1>1. events' = txn.savedEvents /\ txn' = NoTxn
  BY DEF Abort
<1>2. ~NoTxn.open /\ NoTxn.savedEvents = <<>>
  BY DEF NoTxn
<1> QED
  BY <1>1, <1>2, EmptyFine DEF FineInv, PendingFine

LEMMA CorrectionsBeginFine ==
  ASSUME KernelInv, Rescind \/ Correct \/ StatusCorrection \/ RescindUnit
  PROVE  LockFree /\ \E pending, batch : RebuildBegins(pending, batch)
  BY RescindBegins, CorrectBegins, StatusCorrectionBegins, RescindUnitBegins

LEMMA FineStep ==
  ASSUME FineInv, [Next]_vars
  PROVE  FineInv'
<1>1. LedgerInv /\ LedgerInv' /\ KernelInv
  BY LedgerStep DEF FineInv, LedgerInv
<1>2. CASE Wait
  <2>1. events' = events /\ db' = db /\ txn' = txn
    BY <1>2 DEF Wait
  <2> QED
    BY <1>1, <2>1 DEF FineInv, PendingFine
<1>3. CASE SubmitBase
  BY <1>1, <1>3, SubmitBaseFine
<1>4. CASE Rescind \/ Correct \/ StatusCorrection \/ RescindUnit
  BY <1>1, <1>4, CorrectionsBeginFine, BeginRebuildFine
<1>5. CASE ReplayStep
  <2>1. PICK e \in txn.todo : txn' = [txn EXCEPT !.todo = @ \ {e}]
    BY <1>5 DEF ReplayStep
  <2>2. DOMAIN txn = TxnFields
    BY <1>1 DEF KernelInv, TxnOK, TxnFields
  <2>3. /\ txn'.pending = txn.pending /\ txn'.batch = txn.batch
        /\ txn'.savedEvents = txn.savedEvents /\ txn'.open = txn.open
    BY <2>1, <2>2 DEF TxnFields
  <2>4. events' = events
    BY <1>5 DEF ReplayStep
  <2> QED
    BY <1>1, <2>3, <2>4 DEF FineInv, PendingFine
<1>6. CASE NextTarget
  BY <1>1, <1>6, NextTargetFine
<1>7. CASE Commit
  BY <1>1, <1>7, CommitFine
<1>8. CASE Abort
  BY <1>1, <1>8, AbortFine
<1>9. CASE UNCHANGED vars
  BY <1>1, <1>9 DEF vars, FineInv, PendingFine
<1> QED
  BY <1>2, <1>3, <1>4, <1>5, <1>6, <1>7, <1>8, <1>9 DEF Next

LEMMA FineInit == Init => FineInv
<1> SUFFICES ASSUME Init PROVE FineInv
  OBVIOUS
<1>1. ~txn.open /\ events = <<>> /\ txn.savedEvents = <<>>
  BY DEF Init, NoTxn
<1> QED
  BY <1>1, LedgerInit, EmptyFine DEF FineInv, PendingFine

(***************************************************************************)
(* A rescind is final.  The view asks which correction STARTED last, the   *)
(* guards ask whether there is a rescind: the two agree as long as the     *)
(* transactions of the log started in the order in which they were applied.*)
(***************************************************************************)
TimesFollowIds(log) == \A i, j \in DOMAIN log : i <= j => log[i].time <= log[j].time

LEMMA LatestIsNewest ==
  ASSUME NEW log, LogOK(log), NEW J \in SUBSET (DOMAIN log), NEW k \in J
  PROVE  Latest(log, J) \in J /\ Newer(log, Latest(log, J), k)
<1> DEFINE T == {log[j].time : j \in J}
           t == Max(T)
           K == {j \in J : log[j].time = t}
           last == Max(K)
<1>1. Len(log) \in Nat /\ DOMAIN log = 1 .. Len(log)
  BY LogShape
<1>2. \A j \in J : log[j].time \in Nat
  BY DEF LogOK, EventOK
<1>3. t \in T /\ \A u \in T : u <= t
  <2>1. PICK bound \in Nat : \A i \in DOMAIN log : log[i].time <= bound
    BY DEF LogOK
  <2>2. T \subseteq Nat /\ T # {} /\ \A u \in T : u <= bound
    BY <1>2, <2>1
  <2> HIDE DEF T
  <2> QED
    BY <2>2, MaxNat
<1> HIDE DEF t
<1>4. last \in K /\ \A j \in K : j <= last
  <2>1. K \subseteq Nat /\ K # {} /\ \A j \in K : j <= Len(log)
    BY <1>1, <1>3
  <2> HIDE DEF K
  <2> QED
    BY <2>1, <1>1, MaxNat
<1> HIDE DEF last
<1>5. ASSUME NEW j \in J
      PROVE  Newer(log, last, j)
  <2>1. log[j].time <= t /\ log[last].time = t /\ last \in Nat /\ j \in Nat
    BY <1>1, <1>3, <1>4
  <2>2. log[j].time = t => j <= last
    BY <1>4
  <2> QED
    BY <2>1, <2>2, <1>2, <1>4 DEF Newer
<1>6. last \in J
  BY <1>4
<1> QED
  BY <1>5, <1>6 DEF Latest

LEMMA FinalRescind ==
  ASSUME NEW log, LogOK(log), LogFine(log), TimesFollowIds(log),
         NEW i \in DOMAIN log, HasRescind(log, i)
  PROVE  IsRescinded(log, i)
<1> DEFINE J == CorrectionsOf(log, i)
           j == Latest(log, J)
<1>1. PICK k \in J : log[k].type \in RescindTypes
  BY DEF HasRescind
<1>2. J \in SUBSET (DOMAIN log)
  BY DEF CorrectionsOf
<1>3. j \in J /\ Newer(log, j, k)
  BY <1>2, LatestIsNewest
<1>4. j <= k
  BY <1>1, <1>3 DEF LogFine, RescindsLast
<1> HIDE DEF J, j
<1>5. j \in Nat /\ k \in Nat /\ log[j].time \in Nat /\ log[k].time \in Nat
  BY <1>2, <1>3, LogShape DEF LogOK, EventOK
<1>6. log[j].time <= log[k].time
  BY <1>2, <1>3, <1>4 DEF TimesFollowIds
<1>7. j = k
  BY <1>3, <1>4, <1>5, <1>6 DEF Newer
<1> QED
  BY <1>1, <1>7 DEF IsRescinded, J, j

LEMMA FineRescinds ==
  ASSUME FineInv, TimesFollowIds(CommittedLog)
  PROVE  RescindIsFinal
<1>1. LogOK(CommittedLog) /\ LogFine(CommittedLog)
  BY DEF FineInv, LedgerInv, KernelInv, TxnOK, CommittedLog
<1> QED
  BY <1>1, FinalRescind DEF RescindIsFinal

(* A rescinded event never takes effect again, whatever is corrected and   *)
(* rescinded later, as long as the transactions of the log started in the  *)
(* order in which they got the lock: the guards of the submit functions    *)
(* let nothing be said about an event after its rescind.                   *)
THEOREM RescindAlwaysFinal ==
  Spec => [](TimesFollowIds(CommittedLog) => RescindIsFinal)
<1>1. FineInv /\ [Next]_vars => FineInv'
  BY FineStep
<1>2. FineInv => (TimesFollowIds(CommittedLog) => RescindIsFinal)
  BY FineRescinds
<1> QED
  BY <1>1, <1>2, FineInit, PTL DEF Spec

(***************************************************************************)
(* Where no transaction ever waits for the lock, the times do follow the   *)
(* ids: a transaction starts after everything that is in the log.          *)
(***************************************************************************)
OrderInv ==
  /\ FineInv
  /\ waiting = {}
  /\ TimesFollowIds(events)
  /\ TimesFollowIds(txn.savedEvents)
  /\ txn.open => \A i \in DOMAIN events : events[i].time <= txn.pending.time

LEMMA AppendTimes ==
  ASSUME NEW log, LogOK(log), TimesFollowIds(log), NEW e, e.time \in Nat,
         \A i \in DOMAIN log : log[i].time <= e.time
  PROVE  /\ TimesFollowIds(Append(log, e))
         /\ \A i \in DOMAIN Append(log, e) : Append(log, e)[i].time <= e.time
<1> DEFINE new == Append(log, e)
           last == Len(log) + 1
<1>1. /\ DOMAIN new = 1 .. last
      /\ \A j \in DOMAIN log : new[j] = log[j]
      /\ new[last] = e
  BY AppendShape
<1>2. Len(log) \in Nat /\ DOMAIN log = 1 .. Len(log)
  BY LogShape
<1> HIDE DEF new
<1>3. \A i \in DOMAIN new : new[i].time <= e.time
  <2> SUFFICES ASSUME NEW i \in DOMAIN new PROVE new[i].time <= e.time
    OBVIOUS
  <2>1. CASE i \in DOMAIN log
    BY <2>1, <1>1
  <2>2. CASE i = last
    BY <2>2, <1>1
  <2> QED
    BY <2>1, <2>2, <1>1, <1>2
<1>4. ASSUME NEW i \in DOMAIN new, NEW j \in DOMAIN new, i <= j
      PROVE  new[i].time <= new[j].time
  <2>1. CASE j = last
    BY <2>1, <1>1, <1>3
  <2>2. CASE j \in DOMAIN log
    <3>1. i \in DOMAIN log
      BY <2>2, <1>1, <1>2, <1>4
    <3> QED
      BY <2>2, <3>1, <1>1, <1>4 DEF TimesFollowIds
  <2> QED
    BY <2>1, <2>2, <1>1, <1>2
<1> QED
  BY <1>3, <1>4 DEF TimesFollowIds, new

LEMMA NextTargetOrder ==
  ASSUME OrderInv, FineInv', NextTarget
  PROVE  OrderInv'
<1>1. /\ txn.open /\ events' = Append(events, txn.pending)
      /\ waiting' = waiting
  BY RebuildDoneOK DEF NextTarget, RebuildDone
<1>2. PICK t \in txn.batch :
        StartRebuild([txn EXCEPT !.batch = @ \ {t}], events',
                     RescindOf(txn.pending.node, t, txn.pending.time))
  BY DEF NextTarget
<1>3. DOMAIN txn = TxnFields /\ EventOK(txn.pending) /\ LogOK(events)
  BY <1>1 DEF OrderInv, FineInv, LedgerInv, KernelInv, TxnOK, TxnFields
<1>4. /\ txn'.pending = RescindOf(txn.pending.node, t, txn.pending.time)
      /\ txn'.savedEvents = txn.savedEvents
  BY <1>2, <1>3 DEF StartRebuild, TxnFields
<1>5. txn'.pending.time = txn.pending.time
  BY <1>4 DEF RescindOf, Event
<1>6. /\ TimesFollowIds(events')
      /\ \A i \in DOMAIN events' : events'[i].time <= txn.pending.time
  BY <1>1, <1>3, AppendTimes DEF OrderInv, EventOK
<1> QED
  BY <1>1, <1>4, <1>5, <1>6 DEF OrderInv

LEMMA OrderStep ==
  ASSUME MaxWaiting = 0, OrderInv, [Next]_vars
  PROVE  OrderInv'
<1>1. FineInv /\ FineInv' /\ KernelInv
  BY FineStep DEF OrderInv, FineInv, LedgerInv
<1>2. TimesFollowIds(<<>>) /\ ~NoTxn.open /\ NoTxn.savedEvents = <<>>
  <2>1. DOMAIN <<>> = {}
    OBVIOUS
  <2> QED
    BY <2>1 DEF TimesFollowIds, NoTxn
<1>3. CASE Wait
  BY <1>3, FS_EmptySet DEF Wait, OrderInv
<1>4. StartTimes = {Now} /\ Now \in Nat
  BY <1>1, StartTimesOK DEF StartTimes, OrderInv
<1>5. CASE SubmitBase
  <2>1. PICK n, type, d, payload, e : Submits(n, type, d, payload, e)
    BY <1>1, <1>5, SubmitBaseWrites
  <2>2. ~txn.open /\ txn' = txn
    BY <1>1, <1>5, SubmitBaseWrites
  <2>3. waiting' = {}
    BY <1>5 DEF SubmitBase, SubmitEvent, OrderInv
  <2>4. e.time = Now /\ events' = Append(events, e)
    BY <2>1, <1>4 DEF Submits
  <2>5. TimesFollowIds(events')
    BY <2>4, <1>1, <1>4, StartTimesOK, AppendTimes DEF OrderInv, KernelInv
  <2> QED
    BY <2>2, <2>3, <2>5, <1>1 DEF OrderInv
<1>6. CASE Rescind \/ Correct \/ StatusCorrection \/ RescindUnit
  <2>1. PICK pending, batch : RebuildBegins(pending, batch)
    BY <1>1, <1>6, CorrectionsBeginFine
  <2>2. pending.time = Now
    BY <2>1, <1>4 DEF RebuildBegins, FixOK
  <2>3. /\ events' = events /\ waiting' = {}
        /\ txn'.pending = pending /\ txn'.savedEvents = events
    BY <2>1 DEF RebuildBegins, BeginRebuild, StartRebuild, NoTxn, OrderInv
  <2> QED
    BY <2>2, <2>3, <1>1, StartTimesOK DEF OrderInv
<1>7. CASE ReplayStep
  <2>1. PICK e \in txn.todo : txn' = [txn EXCEPT !.todo = @ \ {e}]
    BY <1>7 DEF ReplayStep
  <2>2. DOMAIN txn = TxnFields
    BY <1>1 DEF KernelInv, TxnOK, TxnFields
  <2>3. /\ txn'.pending = txn.pending
        /\ txn'.savedEvents = txn.savedEvents /\ txn'.open = txn.open
    BY <2>1, <2>2 DEF TxnFields
  <2>4. events' = events /\ waiting' = waiting
    BY <1>7 DEF ReplayStep
  <2> QED
    BY <1>1, <2>3, <2>4 DEF OrderInv
<1>8. CASE NextTarget
  BY <1>1, <1>8, NextTargetOrder
<1>9. CASE Commit
  <2>1. /\ events' = Append(events, txn.pending) /\ txn.open
        /\ txn' = NoTxn /\ waiting' = waiting
    BY <1>9 DEF Commit, RebuildDone
  <2>2. EventOK(txn.pending)
    BY <2>1, <1>1 DEF KernelInv, TxnOK
  <2>3. TimesFollowIds(events')
    BY <2>1, <2>2, <1>1, AppendTimes DEF OrderInv, KernelInv, EventOK
  <2> QED
    BY <2>1, <2>3, <1>1, <1>2 DEF OrderInv
<1>10. CASE Abort
  <2>1. events' = txn.savedEvents /\ txn' = NoTxn /\ waiting' = waiting
    BY <1>10 DEF Abort
  <2> QED
    BY <2>1, <1>1, <1>2 DEF OrderInv
<1>11. CASE UNCHANGED vars
  BY <1>1, <1>11 DEF vars, OrderInv
<1> QED
  BY <1>3, <1>5, <1>6, <1>7, <1>8, <1>9, <1>10, <1>11 DEF Next

LEMMA OrderInit == Init => OrderInv
<1>1. DOMAIN <<>> = {}
  OBVIOUS
<1> QED
  BY <1>1, FineInit DEF Init, NoTxn, OrderInv, TimesFollowIds

(* As long as no transaction has to wait for the tenant's lock, a rescind  *)
(* is final without any condition on the log.                              *)
THEOREM RescindFinalWithoutWaiting ==
  ASSUME MaxWaiting = 0
  PROVE  Spec => []RescindIsFinal
<1>1. OrderInv /\ [Next]_vars => OrderInv'
  BY OrderStep
<1>2. OrderInv => RescindIsFinal
  <2> SUFFICES ASSUME OrderInv PROVE RescindIsFinal
    OBVIOUS
  <2>1. TimesFollowIds(CommittedLog)
    BY DEF OrderInv, CommittedLog
  <2> QED
    BY <2>1, FineRescinds DEF OrderInv
<1> QED
  BY <1>1, <1>2, OrderInit, PTL DEF Spec

(***************************************************************************)
(* What an event does to the rows.  Every row of the new table W lies      *)
(* within a row of the old one, V, of the same unit, and begins where that *)
(* one did or on the day of the event e; among the attributes in B, those  *)
(* in A get the value that e sets, in the unit's rows from that day on,    *)
(* and nothing else changes.                                               *)
(***************************************************************************)
Within(w, v, d) ==
  /\ w.node = v.node
  /\ v.from <= w.from /\ w.to <= v.to
  /\ w.from = v.from \/ w.from = d

Shows(w, v, e, B, A) ==
  /\ \A a \in Attributes :
       w.node # e.node \/ (a \in B /\ (w.from < e.date \/ a \notin A)) =>
         Column(a, w) = Column(a, v)
  /\ \A a \in A \cap B :
       w.node = e.node /\ e.date <= w.from => Column(a, w) = ValueSet(a, e)

Touch(V, W, e, B, A) ==
  /\ \A w \in W : \E v \in V : Within(w, v, e.date) /\ Shows(w, v, e, B, A)
  /\ \A k \in Nodes, day \in Dates : ExistsAt(V, k, day) => ExistsAt(W, k, day)
  /\ A # {} => \A w \in W : w.node = e.node => w.to <= e.date \/ e.date <= w.from

LEMMA SplitCuts ==
  ASSUME NEW V, RowsOK(V), NEW T \in SUBSET V, NEW d \in Dates,
         NEW w \in SplitAt(V, T, d)
  PROVE  \E v \in V : /\ Within(w, v, d)
                      /\ \A a \in Attributes : Column(a, w) = Column(a, v)
                      /\ w.path = v.path
                      /\ v \in T /\ Covers(v, d) => w.to <= d \/ d <= w.from
<1>1. PICK v \in V : \/ w = v /\ ~IsCut(v, T, d)
                     \/ w = Lower(v, d) /\ IsCut(v, T, d)
                     \/ w = Upper(v, d) /\ IsCut(v, T, d)
  BY SplitMembers
<1>2. RowOK(v) /\ v.from \in Int /\ v.to \in Int /\ d \in Int
  BY DatesAreInts DEF RowsOK, RowOK
<1>3. CASE w = v /\ ~IsCut(v, T, d)
  BY <1>2, <1>3 DEF Within, IsCut, Covers
<1>4. CASE w = Lower(v, d) /\ IsCut(v, T, d)
  <2>1. /\ w.node = v.node /\ w.from = v.from /\ w.to = d /\ w.path = v.path
        /\ w.name = v.name /\ w.bu = v.bu /\ w.status = v.status
        /\ w.parent = v.parent
    BY <1>2, <1>4 DEF Lower, RowOK, Columns
  <2>2. \A a \in Attributes : Column(a, w) = Column(a, v)
    BY <2>1 DEF Attributes, Column
  <2> QED
    BY <2>1, <2>2, <1>2, <1>4 DEF Within, IsCut, Covers
<1>5. CASE w = Upper(v, d) /\ IsCut(v, T, d)
  <2>1. /\ w.node = v.node /\ w.from = d /\ w.to = v.to /\ w.path = v.path
        /\ w.name = v.name /\ w.bu = v.bu /\ w.status = v.status
        /\ w.parent = v.parent
    BY <1>2, <1>5 DEF Upper, RowOK, Columns
  <2>2. \A a \in Attributes : Column(a, w) = Column(a, v)
    BY <2>1 DEF Attributes, Column
  <2> QED
    BY <2>1, <2>2, <1>2, <1>5 DEF Within, IsCut, Covers
<1> QED
  BY <1>1, <1>3, <1>4, <1>5

LEMMA SplitCovers ==
  ASSUME NEW V, RowsOK(V), NEW T \in SUBSET V, NEW d \in Dates,
         NEW k \in Nodes, NEW day \in Dates, ExistsAt(V, k, day)
  PROVE  ExistsAt(SplitAt(V, T, d), k, day)
<1>1. PICK v \in V : v.node = k /\ Covers(v, day)
  BY DEF ExistsAt
<1>2. RowOK(v) /\ v.from \in Int /\ v.to \in Int /\ d \in Int /\ day \in Int
  BY DatesAreInts DEF RowsOK, RowOK
<1>3. CASE ~IsCut(v, T, d)
  <2>1. v \in SplitAt(V, T, d)
    BY <1>3, SplitMembers
  <2> QED
    BY <1>1, <2>1 DEF ExistsAt
<1>4. CASE IsCut(v, T, d)
  <2>1. Lower(v, d) \in SplitAt(V, T, d) /\ Upper(v, d) \in SplitAt(V, T, d)
    BY <1>4, SplitMembers
  <2>2. /\ Lower(v, d).node = v.node /\ Lower(v, d).from = v.from /\ Lower(v, d).to = d
        /\ Upper(v, d).node = v.node /\ Upper(v, d).from = d /\ Upper(v, d).to = v.to
    BY <1>2 DEF Lower, Upper, RowOK, Columns
  <2>3. Covers(Lower(v, d), day) \/ Covers(Upper(v, d), day)
    BY <2>2, <1>1, <1>2 DEF Covers
  <2> QED
    BY <1>1, <2>1, <2>2, <2>3 DEF ExistsAt
<1> QED
  BY <1>3, <1>4

(* A split, and then new values in some rows. *)
LEMMA CutTouch ==
  ASSUME NEW V, RowsOK(V), NEW T \in SUBSET V, NEW e, e.date \in Dates,
         NEW S, S = SplitAt(V, T, e.date), NEW W, NEW B, NEW A \in SUBSET Attributes,
         \A w \in W : \E s \in S : SameSpan(w, s) /\ Shows(w, s, e, B, A),
         \A s \in S : \E w \in W : SameSpan(w, s),
         A # {} => \A v \in V : v.node = e.node /\ Covers(v, e.date) => v \in T
  PROVE  Touch(V, W, e, B, A)
<1>1. ASSUME NEW w \in W
      PROVE  /\ \E v \in V : Within(w, v, e.date) /\ Shows(w, v, e, B, A)
             /\ A # {} /\ w.node = e.node => w.to <= e.date \/ e.date <= w.from
  <2>1. PICK s \in S : SameSpan(w, s) /\ Shows(w, s, e, B, A)
    OBVIOUS
  <2>2. PICK v \in V : /\ Within(s, v, e.date)
                       /\ \A a \in Attributes : Column(a, s) = Column(a, v)
                       /\ v \in T /\ Covers(v, e.date) => s.to <= e.date \/ e.date <= s.from
    BY SplitCuts
  <2>3. Within(w, v, e.date) /\ Shows(w, v, e, B, A)
    BY <2>1, <2>2 DEF Within, Shows, SameSpan
  <2>4. RowOK(v) /\ RowOK(s)
    BY SplitRowsOK DEF RowsOK
  <2>5. /\ v.from \in Int /\ v.to \in Int /\ e.date \in Int
        /\ s.from \in Int /\ s.to \in Int
    BY <2>4, DatesAreInts DEF RowOK
  <2>6. ASSUME A # {}, s.node = e.node PROVE s.to <= e.date \/ e.date <= s.from
    <3>1. v.node = e.node
      BY <2>2, <2>6 DEF Within
    <3>2. CASE Covers(v, e.date)
      BY <3>1, <3>2, <2>2, <2>6
    <3>3. CASE ~Covers(v, e.date)
      BY <3>3, <2>2, <2>5 DEF Covers, Within
    <3> QED
      BY <3>2, <3>3
  <2> QED
    BY <2>1, <2>3, <2>6 DEF SameSpan
<1>2. ASSUME NEW k \in Nodes, NEW day \in Dates, ExistsAt(V, k, day)
      PROVE  ExistsAt(W, k, day)
  <2>1. ExistsAt(S, k, day)
    BY <1>2, SplitCovers
  <2>2. PICK s \in S : s.node = k /\ Covers(s, day)
    BY <2>1 DEF ExistsAt
  <2> QED
    BY <2>2 DEF ExistsAt, Covers, SameSpan
<1> QED
  BY <1>1, <1>2 DEF Touch

(* Two functions in a row, for the same event. *)
LEMMA TouchTwice ==
  ASSUME NEW V, NEW W, NEW X, RowsOK(V), RowsOK(W), RowsOK(X), WellFormed(X),
         NEW e, e.date \in Dates, NEW B,
         NEW A1 \in SUBSET Attributes, NEW A2 \in SUBSET Attributes,
         Touch(V, W, e, B, A1), Touch(W, X, e, B, A2)
  PROVE  Touch(V, X, e, B, A1 \cup A2)
<1>1. ASSUME NEW x \in X
      PROVE  /\ \E v \in V : Within(x, v, e.date) /\ Shows(x, v, e, B, A1 \cup A2)
             /\ A1 \cup A2 # {} /\ x.node = e.node => x.to <= e.date \/ e.date <= x.from
  <2>1. PICK w \in W : Within(x, w, e.date) /\ Shows(x, w, e, B, A2)
    BY DEF Touch
  <2>2. PICK v \in V : Within(w, v, e.date) /\ Shows(w, v, e, B, A1)
    BY DEF Touch
  <2>3. RowOK(v) /\ RowOK(w) /\ RowOK(x) /\ x.from < x.to
    BY DEF RowsOK, WellFormed, NonEmptyRows
  <2>4. /\ v.from \in Int /\ v.to \in Int /\ e.date \in Int
        /\ w.from \in Int /\ w.to \in Int
        /\ x.from \in Int /\ x.to \in Int
    BY <2>3, DatesAreInts DEF RowOK
  <2>5. Within(x, v, e.date)
    BY <2>1, <2>2, <2>4 DEF Within
  <2>6. A1 # {} /\ w.node = e.node => w.to <= e.date \/ e.date <= w.from
    BY DEF Touch
  <2>7. A1 # {} /\ x.node = e.node => x.to <= e.date \/ e.date <= x.from
    BY <2>1, <2>4, <2>6 DEF Within
  <2>8. A2 # {} /\ x.node = e.node => x.to <= e.date \/ e.date <= x.from
    BY DEF Touch
  <2>9. ASSUME NEW a \in Attributes,
               x.node # e.node \/ (a \in B /\ (x.from < e.date \/ a \notin A1 \cup A2))
        PROVE  Column(a, x) = Column(a, v)
    <3>1. Column(a, x) = Column(a, w)
      BY <2>1, <2>9 DEF Shows
    <3>2. Column(a, w) = Column(a, v)
      BY <2>1, <2>2, <2>3, <2>4, <2>9 DEF Shows, Within
    <3> QED
      BY <3>1, <3>2
  <2>10. ASSUME NEW a \in (A1 \cup A2) \cap B, x.node = e.node, e.date <= x.from
         PROVE  Column(a, x) = ValueSet(a, e)
    <3>1. CASE a \in A2
      BY <3>1, <2>1, <2>10 DEF Shows
    <3>2. CASE a \notin A2
      <4>1. Column(a, x) = Column(a, w)
        BY <3>2, <2>1, <2>10 DEF Shows
      <4>2. w.node = e.node /\ e.date <= w.from
        BY <3>2, <2>1, <2>3, <2>4, <2>6, <2>10 DEF Within
      <4> QED
        BY <3>2, <4>1, <4>2, <2>2, <2>10 DEF Shows
    <3> QED
      BY <3>1, <3>2
  <2>11. Shows(x, v, e, B, A1 \cup A2)
    BY <2>9, <2>10 DEF Shows
  <2> QED
    BY <2>5, <2>7, <2>8, <2>11
<1> QED
  BY <1>1 DEF Touch

(***************************************************************************)
(* How far an event reaches.  RENAME and SET_BUSINESS_UNIT stop at the     *)
(* next event of their type; that is no limit when the unit has no row that*)
(* starts later than the event, and none when it has no later event.       *)
(***************************************************************************)
Clear(V, n, d) == \A v \in V : v.node = n => v.from <= d

Quiet(log, n, d) == \A i \in EffectiveIds(log, n) : EffectiveDate(log, i) <= d

LEMMA StopDateOK ==
  ASSUME NEW log, LogOK(log), NEW n, NEW type, NEW d \in Dates
  PROVE  /\ StopDate(log, n, type, d) \in Int
         /\ d < StopDate(log, n, type, d)
         /\ Quiet(log, n, d) => StopDate(log, n, type, d) = Infinity
<1> DEFINE later == {EffectiveDate(log, i) :
                       i \in {j \in EffectiveIds(log, n) : EffectiveType(log, j) = type}}
           stops == {s \in later : s > d}
<1>1. StopDate(log, n, type, d) = IF stops = {} THEN Infinity ELSE Min(stops)
  BY DEF StopDate
<1>2. later \subseteq Dates
  BY EffectiveDateOK DEF EffectiveIds
<1>3. Dates \subseteq Nat
  BY DEF Dates
<1>4. CASE stops # {}
  <2>1. PICK x \in stops : \A y \in stops : x <= y
    <3>1. stops \subseteq Nat
      BY <1>2, <1>3
    <3> HIDE DEF stops
    <3> QED
      BY <3>1, <1>4, LeastNat
  <2>2. Min(stops) \in stops
    <3> HIDE DEF stops
    <3> QED
      BY <2>1 DEF Min
  <2>3. ~Quiet(log, n, d)
    <3>1. PICK i \in EffectiveIds(log, n) : x = EffectiveDate(log, i)
      OBVIOUS
    <3>2. x \in Nat /\ d \in Nat /\ x > d
      BY <1>2, <1>3
    <3> QED
      BY <3>1, <3>2 DEF Quiet
  <2>4. Min(stops) \in Nat /\ d < Min(stops)
    BY <2>2, <1>2, <1>3
  <2> QED
    BY <1>1, <1>4, <2>3, <2>4
<1>5. CASE stops = {}
  BY <1>1, <1>5, DatesAreInts
<1> QED
  BY <1>4, <1>5

Reaches(V, n, d, stop) == d < stop /\ (stop = Infinity \/ Clear(V, n, d))

LEMMA TouchClear ==
  ASSUME NEW V, NEW W, RowsOK(V), NEW e, e.date \in Dates, NEW B, NEW A,
         Touch(V, W, e, B, A), Clear(V, e.node, e.date)
  PROVE  Clear(W, e.node, e.date)
<1> SUFFICES ASSUME NEW w \in W, w.node = e.node PROVE w.from <= e.date
  BY DEF Clear
<1>1. PICK v \in V : Within(w, v, e.date)
  BY DEF Touch
<1>2. v.from <= e.date /\ e.date \in Int
  BY <1>1, DatesAreInts DEF Within, Clear
<1> QED
  BY <1>1, <1>2 DEF Within

LEMMA ReachesRows ==
  ASSUME NEW V, RowsOK(V), NEW n, NEW d \in Dates, NEW stop, Reaches(V, n, d, stop),
         NEW s \in SplitNode(V, n, d), s.node = n, d <= s.from
  PROVE  StartsIn(s, n, d, stop)
<1>1. RowsOf(V, n) \in SUBSET V
  BY DEF RowsOf
<1>2. PICK v \in V : Within(s, v, d)
  BY <1>1, SplitCuts DEF SplitNode
<1>3. s.from \in Int /\ s.from < Infinity /\ d \in Int
  BY <1>1, SplitRowsOK, DatesAreInts DEF SplitNode, RowsOK, RowOK
<1>4. CASE stop = Infinity
  BY <1>3, <1>4 DEF StartsIn
<1>5. CASE Clear(V, n, d)
  BY <1>2, <1>3, <1>5 DEF StartsIn, Within, Clear, Reaches
<1> QED
  BY <1>4, <1>5 DEF Reaches

LEMMA SplitNodeRowsOK ==
  ASSUME NEW V, RowsOK(V), NEW n, NEW d \in Dates
  PROVE  RowsOK(SplitNode(V, n, d))
<1>1. RowsOf(V, n) \in SUBSET V
  BY DEF RowsOf
<1> QED
  BY <1>1, SplitRowsOK DEF SplitNode

(* The rows of a unit are split, and those in reach get a new value in one *)
(* column.                                                                 *)
Writes(V, W, e, a, stop) ==
  /\ \A s \in SplitNode(V, e.node, e.date) : \E w \in W : SameSpan(w, s)
  /\ \A w \in W : \E s \in SplitNode(V, e.node, e.date) :
       /\ SameSpan(w, s)
       /\ \A c \in Attributes \ {a} : Column(c, w) = Column(c, s)
       /\ Column(a, w) = IF StartsIn(s, e.node, e.date, stop)
                         THEN ValueSet(a, e) ELSE Column(a, s)

LEMMA ValueTouches ==
  ASSUME NEW V, RowsOK(V), NEW e, e.date \in Dates, NEW stop, NEW a \in Attributes,
         NEW B, a \in B => Reaches(V, e.node, e.date, stop),
         NEW W, Writes(V, W, e, a, stop)
  PROVE  Touch(V, W, e, B, {a})
<1> DEFINE S == SplitNode(V, e.node, e.date)
<1>1. S = SplitAt(V, RowsOf(V, e.node), e.date) /\ RowsOf(V, e.node) \in SUBSET V
  BY DEF SplitNode, RowsOf
<1>2. \A v \in V : v.node = e.node => v \in RowsOf(V, e.node)
  BY DEF RowsOf
<1>3. ASSUME NEW w \in W
      PROVE  \E s \in S : SameSpan(w, s) /\ Shows(w, s, e, B, {a})
  <2>1. PICK s \in S :
          /\ SameSpan(w, s)
          /\ \A c \in Attributes \ {a} : Column(c, w) = Column(c, s)
          /\ Column(a, w) = IF StartsIn(s, e.node, e.date, stop)
                            THEN ValueSet(a, e) ELSE Column(a, s)
    BY DEF Writes
  <2>2. RowOK(s)
    BY SplitNodeRowsOK DEF RowsOK
  <2>3. s.from \in Int /\ e.date \in Int /\ w.node = s.node /\ w.from = s.from
    BY <2>1, <2>2, DatesAreInts DEF RowOK, SameSpan
  <2>4. /\ StartsIn(s, e.node, e.date, stop) => s.node = e.node /\ e.date <= s.from
        /\ a \in B /\ s.node = e.node /\ e.date <= s.from =>
             StartsIn(s, e.node, e.date, stop)
    BY ReachesRows DEF StartsIn
  <2>5. CASE a \notin B
    BY <2>1, <2>3, <2>4, <2>5 DEF Shows
  <2>6. CASE a \in B
    BY <2>1, <2>3, <2>4, <2>6 DEF Shows
  <2> QED
    BY <2>5, <2>6
<1> HIDE DEF S
<1>4. \A s \in S : \E w \in W : SameSpan(w, s)
  BY DEF S, Writes
<1> QED
  BY <1>1, <1>2, <1>3, <1>4, CutTouch

LEMMA RenameWrites ==
  ASSUME NEW db0, Good(db0), NEW e, e.date \in Dates, NEW stop,
         NEW after \in ApplyRename(db0, e.node, e.date, ValueSet("name", e), stop)
  PROVE  /\ Writes(db0.versions, after.versions, e, "name", stop)
         /\ ExistsAt(db0.versions, e.node, e.date)
<1> DEFINE V == db0.versions
           S == SplitNode(V, e.node, e.date)
           x == ValueSet("name", e)
           g == [s \in S |-> IF StartsIn(s, e.node, e.date, stop)
                             THEN [s EXCEPT !.name = x] ELSE s]
<1>1. ExistsAt(V, e.node, e.date) /\ after = [db0 EXCEPT !.versions = {g[s] : s \in S}]
  BY DEF ApplyRename
<1>2. after.versions = {g[s] : s \in S} /\ RowsOK(V)
  BY <1>1, GoodParts
<1>3. ASSUME NEW s \in S
      PROVE  /\ SameSpan(g[s], s)
             /\ \A c \in Attributes \ {"name"} : Column(c, g[s]) = Column(c, s)
             /\ Column("name", g[s]) = IF StartsIn(s, e.node, e.date, stop)
                                       THEN x ELSE Column("name", s)
  <2>1. RowOK(s)
    BY <1>2, SplitNodeRowsOK DEF RowsOK
  <2> QED
    BY <2>1 DEF RowOK, Columns, SameSpan, Column, Attributes
<1> HIDE DEF g
<1>4. /\ \A s \in S : \E w \in after.versions : SameSpan(w, s)
      /\ \A w \in after.versions : \E s \in S :
           /\ SameSpan(w, s)
           /\ \A c \in Attributes \ {"name"} : Column(c, w) = Column(c, s)
           /\ Column("name", w) = IF StartsIn(s, e.node, e.date, stop)
                                   THEN x ELSE Column("name", s)
  BY <1>2, <1>3
<1> QED
  BY <1>1, <1>4 DEF Writes

LEMMA RenameTouches ==
  ASSUME NEW db0, Good(db0), NEW e, e.date \in Dates, NEW stop,
         NEW B, "name" \in B => Reaches(db0.versions, e.node, e.date, stop),
         NEW after \in ApplyRename(db0, e.node, e.date, ValueSet("name", e), stop)
  PROVE  /\ Touch(db0.versions, after.versions, e, B, {"name"})
         /\ ExistsAt(db0.versions, e.node, e.date)
<1>1. RowsOK(db0.versions) /\ "name" \in Attributes
  BY GoodParts DEF Attributes
<1> QED
  BY <1>1, RenameWrites, ValueTouches

LEMMA StatusWrites ==
  ASSUME NEW db0, Good(db0), NEW e, e.date \in Dates,
         NEW after \in ApplyStatus(db0, e.node, e.date, ValueSet("status", e))
  PROVE  /\ Writes(db0.versions, after.versions, e, "status", Infinity)
         /\ ExistsAt(db0.versions, e.node, e.date)
<1> DEFINE V == db0.versions
           S == SplitNode(V, e.node, e.date)
           x == ValueSet("status", e)
           g == [s \in S |-> IF StartsIn(s, e.node, e.date, Infinity)
                             THEN [s EXCEPT !.status = x] ELSE s]
<1>1. ExistsAt(V, e.node, e.date) /\ after = [db0 EXCEPT !.versions = {g[s] : s \in S}]
  BY DEF ApplyStatus
<1>2. after.versions = {g[s] : s \in S} /\ RowsOK(V)
  BY <1>1, GoodParts
<1>3. ASSUME NEW s \in S
      PROVE  /\ SameSpan(g[s], s)
             /\ \A c \in Attributes \ {"status"} : Column(c, g[s]) = Column(c, s)
             /\ Column("status", g[s]) = IF StartsIn(s, e.node, e.date, Infinity)
                                       THEN x ELSE Column("status", s)
  <2>1. RowOK(s)
    BY <1>2, SplitNodeRowsOK DEF RowsOK
  <2> QED
    BY <2>1 DEF RowOK, Columns, SameSpan, Column, Attributes
<1> HIDE DEF g
<1>4. /\ \A s \in S : \E w \in after.versions : SameSpan(w, s)
      /\ \A w \in after.versions : \E s \in S :
           /\ SameSpan(w, s)
           /\ \A c \in Attributes \ {"status"} : Column(c, w) = Column(c, s)
           /\ Column("status", w) = IF StartsIn(s, e.node, e.date, Infinity)
                                   THEN x ELSE Column("status", s)
  BY <1>2, <1>3
<1> QED
  BY <1>1, <1>4 DEF Writes

LEMMA StatusTouches ==
  ASSUME NEW db0, Good(db0), NEW e, e.date \in Dates,
         NEW B,
         NEW after \in ApplyStatus(db0, e.node, e.date, ValueSet("status", e))
  PROVE  /\ Touch(db0.versions, after.versions, e, B, {"status"})
         /\ ExistsAt(db0.versions, e.node, e.date)
<1>1. RowsOK(db0.versions) /\ "status" \in Attributes
  BY GoodParts DEF Attributes
<1>2. Reaches(db0.versions, e.node, e.date, Infinity)
  BY DatesAreInts DEF Reaches
<1> QED
  BY <1>1, <1>2, StatusWrites, ValueTouches

LEMMA BusinessUnitWrites ==
  ASSUME NEW db0, Good(db0), NEW e, e.date \in Dates, NEW stop,
         NEW after \in ApplySetBusinessUnit(db0, e.node, e.date, ValueSet("bu", e), stop)
  PROVE  /\ Writes(db0.versions, after.versions, e, "bu", stop)
         /\ ExistsAt(db0.versions, e.node, e.date)
<1> DEFINE V == db0.versions
           S == SplitNode(V, e.node, e.date)
           x == ValueSet("bu", e)
           g == [s \in S |-> IF StartsIn(s, e.node, e.date, stop)
                             THEN [s EXCEPT !.bu = x] ELSE s]
<1>1. ExistsAt(V, e.node, e.date) /\ after = [db0 EXCEPT !.versions = {g[s] : s \in S}]
  BY DEF ApplySetBusinessUnit
<1>2. after.versions = {g[s] : s \in S} /\ RowsOK(V)
  BY <1>1, GoodParts
<1>3. ASSUME NEW s \in S
      PROVE  /\ SameSpan(g[s], s)
             /\ \A c \in Attributes \ {"bu"} : Column(c, g[s]) = Column(c, s)
             /\ Column("bu", g[s]) = IF StartsIn(s, e.node, e.date, stop)
                                       THEN x ELSE Column("bu", s)
  <2>1. RowOK(s)
    BY <1>2, SplitNodeRowsOK DEF RowsOK
  <2> QED
    BY <2>1 DEF RowOK, Columns, SameSpan, Column, Attributes
<1> HIDE DEF g
<1>4. /\ \A s \in S : \E w \in after.versions : SameSpan(w, s)
      /\ \A w \in after.versions : \E s \in S :
           /\ SameSpan(w, s)
           /\ \A c \in Attributes \ {"bu"} : Column(c, w) = Column(c, s)
           /\ Column("bu", w) = IF StartsIn(s, e.node, e.date, stop)
                                   THEN x ELSE Column("bu", s)
  BY <1>2, <1>3
<1> QED
  BY <1>1, <1>4 DEF Writes

LEMMA BusinessUnitTouches ==
  ASSUME NEW db0, Good(db0), NEW e, e.date \in Dates, NEW stop,
         NEW B, "bu" \in B => Reaches(db0.versions, e.node, e.date, stop),
         NEW after \in ApplySetBusinessUnit(db0, e.node, e.date, ValueSet("bu", e), stop)
  PROVE  /\ Touch(db0.versions, after.versions, e, B, {"bu"})
         /\ ExistsAt(db0.versions, e.node, e.date)
<1>1. RowsOK(db0.versions) /\ "bu" \in Attributes
  BY GoodParts DEF Attributes
<1> QED
  BY <1>1, BusinessUnitWrites, ValueTouches

(* The rows of a unit do not overlap: one of them covers a day. *)
LEMMA RowAtIs ==
  ASSUME NEW V, RowsOK(V), WellFormed(V), NEW d \in Dates, NEW v \in V, Covers(v, d)
  PROVE  RowAt(V, v.node, d) = v
<1> DEFINE r == RowAt(V, v.node, d)
<1>1. r \in V /\ r.node = v.node /\ Covers(r, d)
  BY RowAtExists DEF ExistsAt
<1> HIDE DEF r
<1>2. r = v \/ r.to <= v.from \/ v.to <= r.from
  BY <1>1 DEF WellFormed, NoOverlap
<1>3. RowOK(r) /\ RowOK(v)
  BY <1>1 DEF RowsOK
<1>4. /\ r.from \in Int /\ r.to \in Int /\ v.from \in Int /\ v.to \in Int
      /\ d \in Int
  BY <1>3, DatesAreInts DEF RowOK
<1> QED
  BY <1>1, <1>2, <1>4 DEF Covers, r

LEMMA UnderItself ==
  ASSUME NEW path \in Seq(Nodes)
  PROVE  Under(path, path)
  BY LenProperties DEF Under, IsPrefix

LEMMA MoveTouches ==
  ASSUME NEW db0, Good(db0), NEW e, e.node \in Nodes, e.date \in Dates, NEW B,
         "parent" \in B => Clear(db0.versions, e.node, e.date),
         NEW after \in ApplyMove(db0, e.node, ValueSet("parent", e), e.date)
  PROVE  /\ Touch(db0.versions, after.versions, e, B, {"parent"})
         /\ ExistsAt(db0.versions, e.node, e.date)
<1> DEFINE V == db0.versions
           n == e.node
           d == e.date
           p == ValueSet("parent", e)
           old == RowAt(V, n, d).path
           prefix == Append(RowAt(V, p, d).path, n)
           T == RowsUnder(V, old)
           S == SplitAt(V, T, d)
           g == [s \in S |-> IF Under(s.path, old) /\ d <= s.from
                             THEN Rebase(s, n, p, old, prefix) ELSE s]
<1>1. ExistsAt(V, n, d)
  BY DEF ApplyMove, MoveAllowed
<1>2. after.versions = {g[s] : s \in S} /\ RowsOK(V) /\ WellFormed(V)
  <2>1. after = [db0 EXCEPT !.versions = {g[s] : s \in S}]
    BY DEF ApplyMove, MoveRows
  <2> QED
    BY <2>1, GoodParts
<1> HIDE DEF g
<1>3. T \in SUBSET V
  BY DEF RowsUnder
<1>4. RowsOK(S) /\ WellFormed(S)
  BY <1>2, <1>3, SplitRowsOK, SplitWellFormed
<1>5. ASSUME NEW v \in V, v.node = n, Covers(v, d)
      PROVE  v.path = old /\ Under(v.path, old) /\ v \in T
  <2>1. v.path = old
    BY <1>2, <1>5, RowAtIs
  <2>2. Under(v.path, v.path)
    BY <1>2, UnderItself DEF RowsOK, RowOK
  <2> QED
    BY <2>1, <2>2 DEF RowsUnder
<1> HIDE DEF T, old, prefix, S
<1>6. ASSUME NEW s \in S
      PROVE  SameSpan(g[s], s) /\ Shows(g[s], s, e, B, {"parent"})
  <2>1. RowOK(s)
    BY <1>4 DEF RowsOK
  <2>2. g[s] = IF Under(s.path, old) /\ d <= s.from
               THEN Rebase(s, n, p, old, prefix) ELSE s
    BY DEF g
  <2>3. /\ SameSpan(g[s], s)
        /\ \A c \in Attributes \ {"parent"} : Column(c, g[s]) = Column(c, s)
        /\ s.node # n => Column("parent", g[s]) = Column("parent", s)
        /\ ~(Under(s.path, old) /\ d <= s.from) => Column("parent", g[s]) = Column("parent", s)
        /\ Under(s.path, old) /\ d <= s.from /\ s.node = n => Column("parent", g[s]) = p
    BY <2>1, <2>2 DEF Rebase, RowOK, Columns, SameSpan, Column, Attributes
  <2>4. ASSUME "parent" \in B, s.node = n, d <= s.from
        PROVE  Under(s.path, old)
    <3>1. PICK v \in V : Within(s, v, d) /\ s.path = v.path
      <4>1. s \in SplitAt(V, T, e.date) /\ RowsOK(V) /\ T \in SUBSET V
        BY <1>2, <1>3 DEF S
      <4> HIDE DEF V
      <4> QED
        BY <4>1, SplitCuts
    <3>2. RowOK(v) /\ s.from < s.to
      BY <1>2, <1>4 DEF RowsOK, WellFormed, NonEmptyRows
    <3>3. /\ v.from \in Int /\ v.to \in Int /\ s.from \in Int /\ s.to \in Int
          /\ d \in Int
      BY <2>1, <3>2, DatesAreInts DEF RowOK
    <3>4. v.node = n /\ v.from <= d
      BY <3>1, <2>4 DEF Within, Clear
    <3>5. s.from = d
      <4>1. s.from = v.from \/ s.from = d
        BY <3>1 DEF Within
      <4> QED
        BY <4>1, <3>3, <3>4, <2>4
    <3>6. Covers(v, d)
      BY <3>1, <3>2, <3>3, <3>4, <3>5 DEF Within, Covers
    <3> QED
      BY <3>1, <3>4, <3>6, <1>5
  <2>5. s.from \in Int /\ d \in Int /\ g[s].from = s.from /\ g[s].node = s.node
    BY <2>1, <2>3, DatesAreInts DEF RowOK, SameSpan
  <2> QED
    BY <2>3, <2>4, <2>5 DEF Shows
<1>7. /\ \A w \in after.versions : \E s \in S : SameSpan(w, s) /\ Shows(w, s, e, B, {"parent"})
      /\ \A s \in S : \E w \in after.versions : SameSpan(w, s)
  BY <1>2, <1>6
<1>8. {"parent"} \in SUBSET Attributes /\ S = SplitAt(V, T, d)
  BY DEF Attributes, S
<1>9. Touch(V, after.versions, e, B, {"parent"})
  BY <1>2, <1>3, <1>5, <1>7, <1>8, CutTouch
<1> QED
  BY <1>1, <1>9

(* The full names are no attribute of the history. *)
LEMMA FullNamesTouch ==
  ASSUME NEW db0, Good(db0), NEW e, e.date \in Dates, NEW B
  PROVE  Touch(db0.versions, RebuildFullNames(db0, e.node, e.date).versions, e, B, {})
<1> DEFINE V == db0.versions
           after == RebuildFullNames(db0, e.node, e.date)
           path == RowAt(V, e.node, e.date).path
           g == [v \in V |-> IF Under(v.path, path) /\ e.date <= v.from
                             THEN [v EXCEPT !.full = NamesOf(V, v.path, v.from)]
                             ELSE v]
<1>1. RowsOK(V) /\ V = SplitAt(V, {}, e.date)
  BY GoodParts DEF SplitAt
<1>2. ASSUME NEW v \in V
      PROVE  /\ SameSpan(g[v], v) /\ Shows(g[v], v, e, B, {})
             /\ SameSpan(v, v) /\ Shows(v, v, e, B, {})
  <2>1. RowOK(v)
    BY <1>1 DEF RowsOK
  <2> QED
    BY <2>1 DEF RowOK, Columns, SameSpan, Column, Attributes, Shows
<1>3. after = db0 \/ after.versions = {g[v] : v \in V}
  BY GoodParts DEF RebuildFullNames
<1> HIDE DEF g, after
<1>4. /\ \A w \in after.versions : \E v \in V : SameSpan(w, v) /\ Shows(w, v, e, B, {})
      /\ \A v \in V : \E w \in after.versions : SameSpan(w, v)
  BY <1>2, <1>3
<1>5. {} \in SUBSET Attributes /\ {} \in SUBSET V
  OBVIOUS
<1>6. Touch(V, after.versions, e, B, {})
  BY <1>1, <1>4, <1>5, CutTouch
<1> QED
  BY <1>6 DEF after

(***************************************************************************)
(* One turn of the replay loop, for every type but CREATE.                 *)
(***************************************************************************)
Effects(e) ==
  {a \in Attributes :
     e.type \in SetterTypes(a) \/ (e.type = "UPDATE" /\ SetByUpdate(a, e.payload))}

LEMMA EffectsOf ==
  ASSUME NEW e
  PROVE  /\ e.type = "CREATE" => Effects(e) = Attributes
         /\ e.type = "MOVE" => Effects(e) = {"parent"}
         /\ e.type = "RENAME" => Effects(e) = {"name"}
         /\ e.type \in {"ENABLE", "DISABLE"} => Effects(e) = {"status"}
         /\ e.type = "SET_BUSINESS_UNIT" => Effects(e) = {"bu"}
         /\ e.type = "UPDATE" =>
              Effects(e) = (((IF CarriesParent(e.payload) THEN {"parent"} ELSE {})
                            \cup (IF Carries(e.payload, "status") THEN {"status"} ELSE {}))
                            \cup (IF Carries(e.payload, "is_business_unit")
                                  THEN {"bu"} ELSE {}))
                            \cup (IF CarriesName(e.payload) THEN {"name"} ELSE {})
  BY DEF Effects, Attributes, SetterTypes, SetByUpdate

LEMMA TouchNone ==
  ASSUME NEW V, RowsOK(V), NEW e, NEW B
  PROVE  Touch(V, V, e, B, {})
<1>1. \A v \in V : v.from \in Int /\ v.to \in Int
  BY DatesAreInts DEF RowsOK, RowOK
<1>2. \A v \in V : Within(v, v, e.date) /\ Shows(v, v, e, B, {})
  BY <1>1 DEF Within, Shows
<1> QED
  BY <1>2 DEF Touch

(* Every event of the unit in reach: what Apply is asked to do.            *)
Asked(log, db0, e, B) ==
  /\ LogOK(log) /\ Good(db0)
  /\ e.node \in Nodes /\ e.date \in Dates
  /\ PayloadOK(e.payload) /\ Complete(e.type, e.payload) /\ Plain(e.type, e.payload)
  /\ \/ B \cap Effects(e) = {}
     \/ Clear(db0.versions, e.node, e.date)
     \/ /\ Quiet(log, e.node, e.date)
        /\ "parent" \notin B \/ "parent" \notin Effects(e)

LEMMA StillReaches ==
  ASSUME NEW log, NEW db0, NEW e, NEW B, Asked(log, db0, e, B), NEW b, NEW A,
         Touch(db0.versions, b.versions, e, B, A), NEW type
  PROVE  B \cap Effects(e) # {} =>
           Reaches(b.versions, e.node, e.date, StopDate(log, e.node, type, e.date))
<1>1. RowsOK(db0.versions)
  BY GoodParts DEF Asked
<1>2. Clear(db0.versions, e.node, e.date) => Clear(b.versions, e.node, e.date)
  BY <1>1, TouchClear DEF Asked
<1> QED
  BY <1>2, StopDateOK DEF Reaches, Asked

LEMMA UpdateTouches ==
  ASSUME NEW log, NEW db0, NEW e, NEW B, Asked(log, db0, e, B), e.type = "UPDATE",
         NEW after \in ApplyUpdate(log, db0, e.node, e.date, e.payload)
  PROVE  /\ Touch(db0.versions, after.versions, e, B, Effects(e))
         /\ Effects(e) # {} => ExistsAt(db0.versions, e.node, e.date)
<1> DEFINE V == db0.versions
           n == e.node
           d == e.date
           payload == e.payload
           bu == payload["is_business_unit"]
           flagStop == StopDate(log, n, "SET_BUSINESS_UNIT", d)
           nameStop == StopDate(log, n, "RENAME", d)
           moved == IF CarriesParent(payload)
                    THEN ApplyMove(db0, n, NewParent(payload), d) ELSE {db0}
           switched == IF Carries(payload, "status")
                       THEN UNION {ApplyStatus(b, n, d, payload["status"]) : b \in moved}
                       ELSE moved
           classified == IF Carries(payload, "is_business_unit")
                         THEN UNION {ApplySetBusinessUnit(b, n, d, bu, flagStop)
                                     : b \in switched}
                         ELSE switched
           renamed == IF CarriesName(payload)
                      THEN UNION {ApplyRename(b, n, d, NewName(payload), nameStop)
                                  : b \in classified}
                      ELSE classified
           A1 == IF CarriesParent(payload) THEN {"parent"} ELSE {}
           A2 == IF Carries(payload, "status") THEN {"status"} ELSE {}
           A3 == IF Carries(payload, "is_business_unit") THEN {"bu"} ELSE {}
           A4 == IF CarriesName(payload) THEN {"name"} ELSE {}
<1>1. after \in renamed
  BY DEF ApplyUpdate, OnEach
<1>2. Effects(e) = ((A1 \cup A2) \cup A3) \cup A4
  BY EffectsOf
<1>3. /\ A1 \in SUBSET Attributes /\ A2 \in SUBSET Attributes
      /\ A3 \in SUBSET Attributes /\ A4 \in SUBSET Attributes
  BY DEF Attributes
<1>4. /\ Good(db0) /\ n \in Nodes /\ d \in Dates /\ PayloadOK(payload)
      /\ "parent" \in B /\ CarriesParent(payload) => Clear(V, n, d)
  <2>1. CarriesParent(payload) => "parent" \in Effects(e)
    BY <1>2
  <2> QED
    BY <2>1 DEF Asked
<1>5. /\ CarriesParent(payload) => NewParent(payload) = ValueSet("parent", e)
      /\ Carries(payload, "status") => payload["status"] = ValueSet("status", e)
      /\ Carries(payload, "is_business_unit") => bu = ValueSet("bu", e)
      /\ CarriesName(payload) => NewName(payload) = ValueSet("name", e)
  BY DEF ValueSet, Field
<1>6. ASSUME NEW b, Good(b), NEW c, Good(c), NEW A \in SUBSET Attributes,
             Touch(V, b.versions, e, B, A),
             NEW C \in SUBSET Attributes, Touch(b.versions, c.versions, e, B, C)
      PROVE  Touch(V, c.versions, e, B, A \cup C)
  BY <1>4, <1>6, GoodParts, TouchTwice
<1>7. Touch(V, V, e, B, {})
  BY <1>4, TouchNone, GoodParts
<1>8. ASSUME NEW b, Good(b), NEW A \in SUBSET Attributes, Touch(V, b.versions, e, B, A)
      PROVE  /\ B \cap Effects(e) # {} => Reaches(b.versions, n, d, flagStop)
             /\ B \cap Effects(e) # {} => Reaches(b.versions, n, d, nameStop)
             /\ ExistsAt(b.versions, n, d) => ExistsAt(V, n, d)
  <2>1. ExistsAt(b.versions, n, d) => ExistsAt(V, n, d)
    <3> SUFFICES ASSUME NEW w \in b.versions, w.node = n, Covers(w, d)
                 PROVE  ExistsAt(V, n, d)
      BY DEF ExistsAt
    <3>1. PICK v \in V : Within(w, v, d)
      BY <1>8 DEF Touch
    <3>2. RowOK(v) /\ RowOK(w)
      BY <1>4, <1>8, GoodParts DEF RowsOK
    <3>3. v.from \in Int /\ v.to \in Int /\ d \in Int
      BY <3>2, <1>4, DatesAreInts DEF RowOK
    <3>4. w.from \in Int /\ w.to \in Int
      BY <3>2, DatesAreInts DEF RowOK
    <3> QED
      BY <3>1, <3>3, <3>4 DEF ExistsAt, Within, Covers
  <2> QED
    BY <1>8, <2>1, StillReaches
<1> HIDE DEF flagStop, nameStop, bu
<1>9. \A b \in moved : /\ Good(b) /\ Touch(V, b.versions, e, B, A1)
                       /\ A1 # {} => ExistsAt(V, n, d)
  <2>1. CASE CarriesParent(payload)
    BY <2>1, <1>4, <1>5, NewParentOK, ApplyMoveGood, MoveTouches
  <2>2. CASE ~CarriesParent(payload)
    BY <2>2, <1>4, <1>7
  <2> QED
    BY <2>1, <2>2
<1> HIDE DEF moved, A1
<1>10. \A b \in switched : /\ Good(b) /\ Touch(V, b.versions, e, B, A1 \cup A2)
                           /\ A1 \cup A2 # {} => ExistsAt(V, n, d)
  <2>1. CASE Carries(payload, "status")
    <3>1. payload["status"] \in Statuses
      BY <2>1, <1>4 DEF PayloadOK
    <3> SUFFICES ASSUME NEW a \in moved, NEW b \in ApplyStatus(a, n, d, payload["status"])
                 PROVE  /\ Good(b) /\ Touch(V, b.versions, e, B, A1 \cup A2)
                        /\ ExistsAt(V, n, d)
      BY <2>1
    <3>2. Good(b)
      BY <3>1, <1>4, <1>9, ApplyStatusGood
    <3>3. Touch(a.versions, b.versions, e, B, A2) /\ ExistsAt(a.versions, n, d)
      BY <2>1, <1>4, <1>5, <1>9, StatusTouches
    <3> QED
      BY <3>2, <3>3, <1>3, <1>6, <1>8, <1>9
  <2>2. CASE ~Carries(payload, "status")
    BY <2>2, <1>9
  <2> QED
    BY <2>1, <2>2
<1> DEFINE A12 == A1 \cup A2
<1>11. A12 \in SUBSET Attributes
  BY <1>3
<1> HIDE DEF switched, A2, A12
<1>12. \A b \in classified : /\ Good(b) /\ Touch(V, b.versions, e, B, A12 \cup A3)
                             /\ A12 \cup A3 # {} => ExistsAt(V, n, d)
  <2>1. CASE Carries(payload, "is_business_unit")
    <3>1. bu \in BOOLEAN
      BY <2>1, <1>4 DEF PayloadOK, bu
    <3> SUFFICES ASSUME NEW a \in switched, NEW b \in ApplySetBusinessUnit(a, n, d, bu, flagStop)
                 PROVE  /\ Good(b) /\ Touch(V, b.versions, e, B, A12 \cup A3)
                        /\ ExistsAt(V, n, d)
      BY <2>1
    <3>2. Good(b)
      BY <3>1, <1>4, <1>10, ApplySetBusinessUnitGood
    <3>3. Touch(V, a.versions, e, B, A12)
      BY <1>10 DEF A12
    <3>4. "bu" \in B => Reaches(a.versions, n, d, flagStop)
      BY <2>1, <3>3, <1>2, <1>8, <1>10, <1>11
    <3>5. Touch(a.versions, b.versions, e, B, A3) /\ ExistsAt(a.versions, n, d)
      BY <2>1, <3>4, <1>4, <1>5, <1>10, BusinessUnitTouches
    <3> QED
      BY <3>2, <3>3, <3>5, <1>3, <1>6, <1>8, <1>10, <1>11
  <2>2. CASE ~Carries(payload, "is_business_unit")
    BY <2>2, <1>10 DEF A12
  <2> QED
    BY <2>1, <2>2
<1> DEFINE A123 == A12 \cup A3
<1>13. A123 \in SUBSET Attributes
  BY <1>3, <1>11
<1> HIDE DEF classified, A3, A123
<1>14. \A b \in renamed : /\ Touch(V, b.versions, e, B, A123 \cup A4)
                          /\ A123 \cup A4 # {} => ExistsAt(V, n, d)
  <2>1. CASE CarriesName(payload)
    <3> SUFFICES ASSUME NEW a \in classified,
                        NEW b \in ApplyRename(a, n, d, NewName(payload), nameStop)
                 PROVE  /\ Touch(V, b.versions, e, B, A123 \cup A4)
                        /\ ExistsAt(V, n, d)
      BY <2>1
    <3>1. NewName(payload) \in Names
      BY <2>1, <1>4, NewNameOK
    <3>2. Good(b)
      BY <3>1, <1>4, <1>12, ApplyRenameGood
    <3>3. Touch(V, a.versions, e, B, A123)
      BY <1>12 DEF A123
    <3>4. "name" \in B => Reaches(a.versions, n, d, nameStop)
      BY <2>1, <3>3, <1>2, <1>8, <1>12, <1>13
    <3>5. Touch(a.versions, b.versions, e, B, A4) /\ ExistsAt(a.versions, n, d)
      BY <2>1, <3>4, <1>4, <1>5, <1>12, RenameTouches
    <3> QED
      BY <3>2, <3>3, <3>5, <1>3, <1>6, <1>8, <1>12, <1>13
  <2>2. CASE ~CarriesName(payload)
    BY <2>2, <1>12 DEF A123
  <2> QED
    BY <2>1, <2>2
<1> HIDE DEF renamed
<1> QED
  BY <1>1, <1>2, <1>14 DEF A123, A12

LEMMA ApplyTouches ==
  ASSUME NEW log, NEW db0, NEW e, NEW B, Asked(log, db0, e, B),
         e.type \in BaseTypes \ {"CREATE"},
         NEW after \in Apply(log, db0, e.node, e.type, e.date, e.payload)
  PROVE  /\ Touch(db0.versions, after.versions, e, B, Effects(e))
         /\ Effects(e) # {} => ExistsAt(db0.versions, e.node, e.date)
<1> DEFINE logic == ApplyLogic(log, db0, e.node, e.type, e.date, e.payload)
           nameStop == StopDate(log, e.node, "RENAME", e.date)
           flagStop == StopDate(log, e.node, "SET_BUSINESS_UNIT", e.date)
<1>1. /\ Good(db0) /\ e.node \in Nodes /\ e.date \in Dates
      /\ PayloadOK(e.payload) /\ Complete(e.type, e.payload) /\ Plain(e.type, e.payload)
      /\ RowsOK(db0.versions)
  BY GoodParts DEF Asked
<1>2. Touch(db0.versions, db0.versions, e, B, {})
  BY <1>1, TouchNone
<1>3. /\ B \cap Effects(e) # {} => Reaches(db0.versions, e.node, e.date, nameStop)
      /\ B \cap Effects(e) # {} => Reaches(db0.versions, e.node, e.date, flagStop)
  BY <1>2, StillReaches
<1> HIDE DEF nameStop, flagStop
<1>4. ASSUME NEW b \in logic
      PROVE  /\ Touch(db0.versions, b.versions, e, B, Effects(e))
             /\ Effects(e) # {} => ExistsAt(db0.versions, e.node, e.date)
  <2>1. CASE e.type = "UPDATE"
    BY <2>1, UpdateTouches DEF ApplyLogic
  <2>2. CASE e.type = "MOVE"
    <3>1. Effects(e) = {"parent"}
      BY <2>2, EffectsOf
    <3>2. e.payload["new_parent_org_node_key"] = ValueSet("parent", e)
      BY <2>2, <1>1 DEF ValueSet, NewParent, Plain
    <3>3. b \in ApplyMove(db0, e.node, ValueSet("parent", e), e.date)
      BY <2>2, <3>2 DEF ApplyLogic
    <3>4. "parent" \in B => Clear(db0.versions, e.node, e.date)
      BY <3>1 DEF Asked
    <3> QED
      BY <3>1, <3>3, <3>4, <1>1, MoveTouches
  <2>3. CASE e.type = "RENAME"
    <3>1. e.payload["new_name"] = ValueSet("name", e)
      BY <2>3, <1>1 DEF ValueSet, NewName, Plain
    <3>2. b \in ApplyRename(db0, e.node, e.date, ValueSet("name", e), nameStop)
      BY <2>3, <3>1 DEF ApplyLogic, nameStop, flagStop
    <3>3. Effects(e) = {"name"}
      BY <2>3, EffectsOf
    <3>4. "name" \in B => Reaches(db0.versions, e.node, e.date, nameStop)
      BY <3>3, <1>3
    <3>5. /\ Touch(db0.versions, b.versions, e, B, {"name"})
          /\ ExistsAt(db0.versions, e.node, e.date)
      BY <3>2, <3>4, <1>1, RenameTouches
    <3> QED
      BY <3>3, <3>5
  <2>4. CASE e.type \in {"ENABLE", "DISABLE"}
    <3>1. ValueSet("status", e) = IF e.type = "DISABLE" THEN "disabled" ELSE "active"
      BY <2>4, <1>1 DEF ValueSet, Field, Plain
    <3>2. b \in ApplyStatus(db0, e.node, e.date, ValueSet("status", e))
      BY <2>4, <3>1 DEF ApplyLogic
    <3> QED
      BY <2>4, <3>2, <1>1, EffectsOf, StatusTouches
  <2>5. CASE e.type = "SET_BUSINESS_UNIT"
    <3>1. e.payload["is_business_unit"] = ValueSet("bu", e)
      BY <2>5, <1>1 DEF ValueSet, Field, Complete
    <3>2. b \in ApplySetBusinessUnit(db0, e.node, e.date, ValueSet("bu", e),
                                     flagStop)
      BY <2>5, <3>1 DEF ApplyLogic, nameStop, flagStop
    <3>3. Effects(e) = {"bu"}
      BY <2>5, EffectsOf
    <3>4. "bu" \in B => Reaches(db0.versions, e.node, e.date, flagStop)
      BY <3>3, <1>3
    <3>5. /\ Touch(db0.versions, b.versions, e, B, {"bu"})
          /\ ExistsAt(db0.versions, e.node, e.date)
      BY <3>2, <3>4, <1>1, BusinessUnitTouches
    <3> QED
      BY <3>3, <3>5
  <2> QED
    BY <2>1, <2>2, <2>3, <2>4, <2>5 DEF BaseTypes
<1>5. CASE ~ChangesNames(e.type, e.payload)
  <2>1. after \in logic
    BY <1>5 DEF Apply
  <2> QED
    BY <2>1, <1>4
<1>6. CASE ChangesNames(e.type, e.payload)
  <2>1. PICK b \in logic : after = RebuildFullNames(b, e.node, e.date)
    BY <1>6 DEF Apply
  <2>2. Good(b) /\ Good(after)
    BY <2>1, <1>1, ApplyLogicGood, RebuildFullNamesGood
  <2>3. Touch(db0.versions, b.versions, e, B, Effects(e))
    BY <1>4
  <2>4. Touch(b.versions, after.versions, e, B, {})
    BY <2>1, <2>2, <1>1, FullNamesTouch
  <2>5. Effects(e) \in SUBSET Attributes /\ {} \in SUBSET Attributes
    BY DEF Effects
  <2>6. Touch(db0.versions, after.versions, e, B, Effects(e) \cup {})
    BY <2>2, <2>3, <2>4, <2>5, <1>1, GoodParts, TouchTwice
  <2> QED
    BY <2>6, <1>4
<1> QED
  BY <1>5, <1>6

(***************************************************************************)
(* CREATE adds the first row of its unit.                                  *)
(***************************************************************************)
SameRow(w, v) == SameSpan(w, v) /\ \A a \in Attributes : Column(a, w) = Column(a, v)

Begins(V, W, e) ==
  /\ RowsOf(V, e.node) = {}
  /\ \A w \in W :
       IF w.node = e.node
       THEN /\ w.from = e.date /\ w.to = Infinity
            /\ \A a \in Attributes : Column(a, w) = ValueSet(a, e)
       ELSE \E v \in V : SameRow(w, v)
  /\ \A v \in V : \E w \in W : SameSpan(w, v)
  /\ \E w \in W : w.node = e.node

LEMMA FullNamesSame ==
  ASSUME NEW db0, Good(db0), NEW n, NEW d
  PROVE  /\ \A w \in RebuildFullNames(db0, n, d).versions :
              \E v \in db0.versions : SameRow(w, v)
         /\ \A v \in db0.versions :
              \E w \in RebuildFullNames(db0, n, d).versions : SameSpan(w, v)
<1> DEFINE V == db0.versions
           after == RebuildFullNames(db0, n, d)
           path == RowAt(V, n, d).path
           g == [v \in V |-> IF Under(v.path, path) /\ d <= v.from
                             THEN [v EXCEPT !.full = NamesOf(V, v.path, v.from)]
                             ELSE v]
<1>1. RowsOK(V)
  BY GoodParts
<1>2. ASSUME NEW v \in V
      PROVE  SameRow(g[v], v) /\ SameRow(v, v)
  <2>1. RowOK(v)
    BY <1>1 DEF RowsOK
  <2> QED
    BY <2>1 DEF RowOK, Columns, SameSpan, Column, Attributes, SameRow
<1>3. after = db0 \/ after.versions = {g[v] : v \in V}
  BY GoodParts DEF RebuildFullNames
<1> HIDE DEF g, after
<1> QED
  BY <1>2, <1>3 DEF after, SameRow

LEMMA NewRowShows ==
  ASSUME NEW e, e.type = "CREATE", PayloadOK(e.payload), Carries(e.payload, "name"),
         NEW p, p = Field(e.payload, "parent_org_node_key", NoNode), NEW path,
         NEW bu, bu = ValueSet("bu", e),
         NEW r, r = NewRow(e.node, p, path, e.date, e.payload, bu)
  PROVE  /\ r.node = e.node /\ r.from = e.date /\ r.to = Infinity
         /\ \A a \in Attributes : Column(a, r) = ValueSet(a, e)
<1>1. /\ r.node = e.node /\ r.from = e.date /\ r.to = Infinity
      /\ r.name = e.payload["name"] /\ r.bu = bu /\ r.parent = p
      /\ r.status = Field(e.payload, "status", "active")
  BY DEF NewRow
<1>2. /\ ValueSet("name", e) = e.payload["name"]
      /\ ValueSet("parent", e) = p
      /\ ValueSet("status", e) = Field(e.payload, "status", "active")
  BY DEF ValueSet, NewName
<1> QED
  BY <1>1, <1>2 DEF Attributes, Column

LEMMA InsertBegins ==
  ASSUME NEW V, RowsOK(V), NEW e, NEW r, RowsOf(V, e.node) = {},
         r.node = e.node, r.from = e.date, r.to = Infinity,
         \A a \in Attributes : Column(a, r) = ValueSet(a, e)
  PROVE  Begins(V, V \cup {r}, e)
  BY DEF Begins, SameRow, SameSpan, RowsOf

LEMMA CreateBegins ==
  ASSUME NEW log, NEW db0, Good(db0), NEW e, e.type = "CREATE",
         e.node \in Nodes, e.date \in Dates,
         PayloadOK(e.payload), Complete(e.type, e.payload),
         NEW after \in Apply(log, db0, e.node, e.type, e.date, e.payload)
  PROVE  Begins(db0.versions, after.versions, e)
<1> DEFINE V == db0.versions
           n == e.node
           d == e.date
           payload == e.payload
           p == Field(payload, "parent_org_node_key", NoNode)
<1>1. PICK b \in ApplyCreate(db0, n, d, payload) : after = RebuildFullNames(b, n, d)
  BY DEF Apply, ApplyLogic, ChangesNames
<1>2. Carries(payload, "name") /\ RowsOK(V) /\ RowsOf(V, n) = {}
  BY GoodParts DEF Complete, ApplyCreate
<1>3. Good(b)
  BY <1>2, ApplyCreateGood
<1>4. p = NoNode <=> ~Carries(payload, "parent_org_node_key")
  BY DEF Field, PayloadOK, Nodes, NoNode
<1>5. ASSUME NEW path,
             b.versions = V \cup {NewRow(n, p, path, d, payload, ValueSet("bu", e))}
      PROVE  Begins(V, b.versions, e)
  <2> DEFINE r == NewRow(n, p, path, d, payload, ValueSet("bu", e))
  <2>1. /\ r.node = n /\ r.from = d /\ r.to = Infinity
        /\ \A a \in Attributes : Column(a, r) = ValueSet(a, e)
    BY <1>2, NewRowShows
  <2> HIDE DEF r, V
  <2>2. Begins(V, V \cup {r}, e)
    BY <2>1, <1>2, InsertBegins
  <2> QED
    BY <2>2, <1>5 DEF r
<1>6. ASSUME p = NoNode PROVE Begins(V, b.versions, e)
  <2>1. Field(payload, "is_business_unit", TRUE) /\
        b = [versions |-> V \cup {NewRow(n, NoNode, <<n>>, d, payload, TRUE)}, root |-> n,
             codes |-> CreateCodes(db0.codes, n, payload)]
    BY <1>6 DEF ApplyCreate, CreateRoot
  <2>2. ValueSet("bu", e) = TRUE
    BY <1>4, <1>6, <2>1 DEF ValueSet, Field, PayloadOK
  <2>3. b.versions = V \cup {NewRow(n, p, <<n>>, d, payload, TRUE)}
    BY <1>6, <2>1
  <2> HIDE DEF V, p
  <2> QED
    BY <2>2, <2>3, <1>5
<1>7. ASSUME p # NoNode PROVE Begins(V, b.versions, e)
  <2> DEFINE bu == Field(payload, "is_business_unit", FALSE)
  <2>1. PICK parent \in ActiveParents(V, p, d) :
          b = [db0 EXCEPT
            !.versions = @ \cup {NewRow(n, p, Append(parent.path, n), d, payload, bu)},
            !.codes = CreateCodes(@, n, payload)]
    BY <1>7 DEF ApplyCreate, CreateChild
  <2>2. ValueSet("bu", e) = bu
    BY <1>4, <1>7 DEF ValueSet, Field
  <2>3. b.versions = V \cup {NewRow(n, p, Append(parent.path, n), d, payload, bu)}
    BY <2>1, GoodParts
  <2> HIDE DEF V, p, bu
  <2> QED
    BY <2>2, <2>3, <1>5
<1>8. Begins(V, b.versions, e)
  BY <1>6, <1>7
<1>9. /\ \A w \in after.versions : \E v \in b.versions : SameRow(w, v)
      /\ \A v \in b.versions : \E w \in after.versions : SameSpan(w, v)
  BY <1>1, <1>3, FullNamesSame
<1> HIDE DEF V
<1>10. \A w \in after.versions :
         IF w.node = n
         THEN /\ w.from = d /\ w.to = Infinity
              /\ \A a \in Attributes : Column(a, w) = ValueSet(a, e)
         ELSE \E v \in V : SameRow(w, v)
  <2> SUFFICES ASSUME NEW w \in after.versions
               PROVE  IF w.node = n
                      THEN /\ w.from = d /\ w.to = Infinity
                           /\ \A a \in Attributes : Column(a, w) = ValueSet(a, e)
                      ELSE \E v \in V : SameRow(w, v)
    OBVIOUS
  <2>1. PICK x \in b.versions : SameRow(w, x)
    BY <1>9
  <2>2. CASE w.node = n
    <3>1. x.node = n /\ w.from = x.from /\ w.to = x.to
      BY <2>1, <2>2 DEF SameRow, SameSpan
    <3>2. /\ x.from = d /\ x.to = Infinity
          /\ \A a \in Attributes : Column(a, x) = ValueSet(a, e)
      BY <3>1, <1>8 DEF Begins
    <3>3. \A a \in Attributes : Column(a, w) = Column(a, x)
      BY <2>1 DEF SameRow
    <3> QED
      BY <2>2, <3>1, <3>2, <3>3
  <2>3. CASE w.node # n
    <3>1. PICK v \in V : SameRow(x, v)
      BY <2>1, <2>3, <1>8 DEF Begins, SameRow, SameSpan
    <3>2. SameRow(w, v)
      BY <2>1, <3>1 DEF SameRow, SameSpan
    <3> QED
      BY <2>3, <3>2
  <2> QED
    BY <2>2, <2>3
<1>11. \A v \in V : \E w \in after.versions : SameSpan(w, v)
  <2> SUFFICES ASSUME NEW v \in V PROVE \E w \in after.versions : SameSpan(w, v)
    OBVIOUS
  <2>1. PICK x \in b.versions : SameSpan(x, v)
    BY <1>8 DEF Begins
  <2> QED
    BY <2>1, <1>9 DEF SameSpan
<1>12. \E w \in after.versions : w.node = n
  <2>1. PICK x \in b.versions : x.node = n
    BY <1>8 DEF Begins
  <2> QED
    BY <2>1, <1>9 DEF SameSpan
<1> QED
  BY <1>2, <1>10, <1>11, <1>12 DEF Begins, V

(***************************************************************************)
(* The history that a set of events tells, and the rows that show it.      *)
(***************************************************************************)
ShowsSet(A, R, V, n) ==
  /\ \A day \in Dates :
       ExistsAt(V, n, day) <=> \E x \in R : x.type = "CREATE" /\ x.date <= day
  /\ \A a \in A, day \in Dates : \A v \in V :
       v.node = n /\ Covers(v, day) => Column(a, v) = History(a, Setters(a, R), day)

(* A unit without rows has no history. *)
Lives(V, R, n) == RowsOf(V, n) = {} => \A x \in R : Effects(x) = {}

(* The event comes after those in R. *)
Dated(x) == x.date \in Dates /\ x.id \in Nat
Follows(e, R) ==
  Dated(e) /\ \A x \in R : Dated(x) /\ Before(x, e) /\ x.id # e.id

LEMMA SettersHaveEffect ==
  ASSUME NEW R, NEW a \in Attributes
  PROVE  Setters(a, R) = {x \in R : a \in Effects(x)}
  BY DEF Setters, Effects

LEMMA LastOfLast ==
  ASSUME NEW S, NEW e \in S, Dated(e),
         \A x \in S : x = e \/ (Dated(x) /\ Before(x, e) /\ x.id # e.id)
  PROVE  LastOf(S) = e
<1>1. \A x \in S : Before(x, e)
  BY DEF Before, Dated, Dates
<1>2. ASSUME NEW y \in S, \A x \in S : Before(x, y)
      PROVE  y = e
  <2>1. Before(e, y)
    BY <1>2
  <2>2. CASE y # e
    <3>1. Dated(y) /\ Before(y, e) /\ y.id # e.id
      BY <2>2
    <3>2. y.date \in Int /\ e.date \in Int /\ y.id \in Int /\ e.id \in Int
      <4>1. Dated(y) /\ Dated(e)
        BY <3>1
      <4>2. y.date \in Dates /\ e.date \in Dates /\ y.id \in Nat /\ e.id \in Nat
        BY <4>1 DEF Dated
      <4> QED
        BY <4>2 DEF Dates
    <3> QED
      BY <2>1, <3>1, <3>2 DEF Before
  <2> QED
    BY <2>2
<1> QED
  BY <1>1, <1>2 DEF LastOf

(* The history after one more event, that comes last. *)
LEMMA HistoryGrows ==
  ASSUME NEW R, NEW e, Follows(e, R), NEW a \in Attributes, NEW day \in Dates
  PROVE  /\ a \in Effects(e) /\ e.date <= day =>
              History(a, Setters(a, R \cup {e}), day) = ValueSet(a, e)
         /\ ~(a \in Effects(e) /\ e.date <= day) =>
              History(a, Setters(a, R \cup {e}), day) = History(a, Setters(a, R), day)
<1> DEFINE S0 == {x \in Setters(a, R) : x.date <= day}
           S1 == {x \in Setters(a, R \cup {e}) : x.date <= day}
<1>1. S1 = S0 \cup (IF a \in Effects(e) /\ e.date <= day THEN {e} ELSE {})
  BY SettersHaveEffect
<1>2. CASE a \in Effects(e) /\ e.date <= day
  <2>1. e \in S1 /\ \A x \in S1 : x = e \/ (Dated(x) /\ Before(x, e) /\ x.id # e.id)
    BY <1>1, <1>2, SettersHaveEffect DEF Follows
  <2> HIDE DEF S1
  <2>2. LastOf(S1) = e
    BY <2>1, LastOfLast DEF Follows
  <2> QED
    BY <2>2, <1>2 DEF History, S1
<1>3. CASE ~(a \in Effects(e) /\ e.date <= day)
  <2>1. S1 = S0
    BY <1>1, <1>3
  <2> QED
    BY <2>1, <1>3 DEF History
<1> QED
  BY <1>2, <1>3

(* The rows of a unit that the event is not about.                         *)
LEMMA ShowsOther ==
  ASSUME NEW V, NEW W, RowsOK(V), RowsOK(W), NEW e, e.date \in Dates, NEW B, NEW A,
         Touch(V, W, e, B, A), NEW k \in Nodes, k # e.node,
         NEW C \in SUBSET Attributes, NEW R, ShowsSet(C, R, V, k)
  PROVE  ShowsSet(C, R, W, k)
<1>1. ASSUME NEW w \in W, w.node = k, NEW day \in Dates, Covers(w, day)
      PROVE  \E v \in V : /\ v.node = k /\ Covers(v, day)
                          /\ \A a \in C : Column(a, w) = Column(a, v)
  <2>1. PICK v \in V : Within(w, v, e.date) /\ Shows(w, v, e, B, A)
    BY DEF Touch
  <2>2. RowOK(v) /\ RowOK(w)
    BY DEF RowsOK
  <2>3. /\ v.from \in Int /\ v.to \in Int /\ w.from \in Int /\ w.to \in Int
        /\ day \in Int
    BY <2>2, DatesAreInts DEF RowOK
  <2>4. v.node = k /\ Covers(v, day)
    BY <2>1, <2>3, <1>1 DEF Within, Covers
  <2>5. \A a \in C : Column(a, w) = Column(a, v)
    BY <2>1, <1>1 DEF Shows
  <2> QED
    BY <2>4, <2>5
<1>2. \A day \in Dates : ExistsAt(W, k, day) <=> ExistsAt(V, k, day)
  BY <1>1 DEF Touch, ExistsAt
<1> QED
  BY <1>1, <1>2 DEF ShowsSet

(* The rows of the unit, after an event that comes last.                   *)
LEMMA ShowsNext ==
  ASSUME NEW V, NEW W, RowsOK(V), RowsOK(W), WellFormed(W),
         NEW e, e.node \in Nodes, e.type # "CREATE", NEW B \in SUBSET Attributes,
         Touch(V, W, e, B, Effects(e)), NEW R, Follows(e, R), ShowsSet(B, R, V, e.node)
  PROVE  ShowsSet(B, R \cup {e}, W, e.node)
<1> DEFINE n == e.node
<1>1. e.date \in Dates /\ e.date \in Int
  BY DatesAreInts DEF Follows, Dated
<1>2. ASSUME NEW w \in W, w.node = n, NEW day \in Dates, Covers(w, day)
      PROVE  \E v \in V : /\ v.node = n /\ Covers(v, day)
                          /\ \A a \in B :
                               Column(a, w) = IF a \in Effects(e) /\ e.date <= day
                                              THEN ValueSet(a, e) ELSE Column(a, v)
  <2>1. PICK v \in V : Within(w, v, e.date) /\ Shows(w, v, e, B, Effects(e))
    BY DEF Touch
  <2>2. RowOK(v) /\ RowOK(w)
    BY DEF RowsOK
  <2>3. /\ v.from \in Int /\ v.to \in Int /\ w.from \in Int /\ w.to \in Int
        /\ day \in Int
    BY <2>2, DatesAreInts DEF RowOK
  <2>4. v.node = n /\ Covers(v, day)
    BY <2>1, <2>3, <1>2 DEF Within, Covers
  <2>5. Effects(e) # {} => w.to <= e.date \/ e.date <= w.from
    BY <1>2 DEF Touch
  <2>6. Effects(e) # {} => (e.date <= day <=> e.date <= w.from)
    BY <2>3, <2>5, <1>1, <1>2 DEF Covers
  <2>7. ASSUME NEW a \in B
        PROVE  Column(a, w) = IF a \in Effects(e) /\ e.date <= day
                              THEN ValueSet(a, e) ELSE Column(a, v)
    <3>1. CASE a \in Effects(e) /\ e.date <= day
      BY <3>1, <2>1, <2>6, <1>2 DEF Shows
    <3>2. CASE a \notin Effects(e)
      BY <3>2, <2>1, <1>2 DEF Shows
    <3>3. CASE a \in Effects(e) /\ ~(e.date <= day)
      <4>1. w.from < e.date
        BY <3>3, <2>3, <2>6, <1>1
      <4> QED
        BY <3>3, <4>1, <2>1, <1>2 DEF Shows
    <3> QED
      BY <3>1, <3>2, <3>3
  <2> QED
    BY <2>4, <2>7
<1>3. \A day \in Dates : ExistsAt(W, n, day) <=> ExistsAt(V, n, day)
  BY <1>2 DEF Touch, ExistsAt
<1>4. \A day \in Dates :
        ExistsAt(W, n, day) <=> \E x \in R \cup {e} : x.type = "CREATE" /\ x.date <= day
  BY <1>3 DEF ShowsSet
<1>5. ASSUME NEW a \in B, NEW day \in Dates, NEW w \in W, w.node = n, Covers(w, day)
      PROVE  Column(a, w) = History(a, Setters(a, R \cup {e}), day)
  <2>1. PICK v \in V : /\ v.node = n /\ Covers(v, day)
                       /\ Column(a, w) = IF a \in Effects(e) /\ e.date <= day
                                         THEN ValueSet(a, e) ELSE Column(a, v)
    BY <1>2, <1>5
  <2>2. Column(a, v) = History(a, Setters(a, R), day)
    BY <2>1 DEF ShowsSet
  <2> QED
    BY <2>1, <2>2, HistoryGrows
<1> QED
  BY <1>4, <1>5 DEF ShowsSet

(* CREATE. *)
LEMMA BeginsOther ==
  ASSUME NEW V, NEW W, NEW e, Begins(V, W, e), NEW k, k # e.node,
         NEW C \in SUBSET Attributes, NEW R, ShowsSet(C, R, V, k)
  PROVE  ShowsSet(C, R, W, k)
<1>1. ASSUME NEW w \in W, w.node = k
      PROVE  \E v \in V : SameRow(w, v)
  BY <1>1 DEF Begins
<1>2. \A day \in Dates : ExistsAt(W, k, day) <=> ExistsAt(V, k, day)
  <2> SUFFICES ASSUME NEW day \in Dates
               PROVE  ExistsAt(W, k, day) <=> ExistsAt(V, k, day)
    OBVIOUS
  <2>1. ExistsAt(W, k, day) => ExistsAt(V, k, day)
    BY <1>1 DEF ExistsAt, Covers, SameRow, SameSpan
  <2>2. ASSUME ExistsAt(V, k, day) PROVE ExistsAt(W, k, day)
    <3>1. PICK v \in V : v.node = k /\ Covers(v, day)
      BY <2>2 DEF ExistsAt
    <3>2. PICK w \in W : SameSpan(w, v)
      BY DEF Begins
    <3> QED
      BY <3>1, <3>2 DEF ExistsAt, Covers, SameSpan
  <2> QED
    BY <2>1, <2>2
<1>3. ASSUME NEW a \in C, NEW day \in Dates, NEW w \in W, w.node = k, Covers(w, day)
      PROVE  Column(a, w) = History(a, Setters(a, R), day)
  <2>1. PICK v \in V : SameRow(w, v)
    BY <1>1, <1>3
  <2>2. v.node = k /\ Covers(v, day)
    BY <2>1, <1>3 DEF SameRow, SameSpan, Covers
  <2>3. Column(a, w) = Column(a, v)
    BY <2>1 DEF SameRow
  <2> QED
    BY <2>2, <2>3 DEF ShowsSet
<1> QED
  BY <1>2, <1>3 DEF ShowsSet

LEMMA BeginsShows ==
  ASSUME NEW V, NEW W, NEW e, Begins(V, W, e), e.type = "CREATE",
         Dated(e), NEW R, Lives(V, R, e.node)
  PROVE  ShowsSet(Attributes, R \cup {e}, W, e.node)
<1>1. \A x \in R : Effects(x) = {} /\ x.type # "CREATE"
  <2>1. \A x \in R : Effects(x) = {}
    BY DEF Lives, Begins
  <2>2. Attributes # {}
    BY DEF Attributes
  <2> QED
    BY <2>1, <2>2, EffectsOf
<1>2. e.date \in Dates
  BY DEF Dated
<1>3. ASSUME NEW day \in Dates
      PROVE  ExistsAt(W, e.node, day) <=> e.date <= day
  <2>1. e.date \in Int /\ day \in Int /\ day < Infinity
    BY <1>2, DatesAreInts
  <2>2. PICK w \in W : w.node = e.node
    BY DEF Begins
  <2>3. \A v \in W : v.node = e.node => v.from = e.date /\ v.to = Infinity
    BY DEF Begins
  <2> QED
    BY <2>1, <2>2, <2>3 DEF ExistsAt, Covers
<1>4. \A day \in Dates :
        ExistsAt(W, e.node, day) <=> \E x \in R \cup {e} : x.type = "CREATE" /\ x.date <= day
  BY <1>1, <1>3
<1>5. ASSUME NEW a \in Attributes, NEW day \in Dates, NEW w \in W, w.node = e.node,
             Covers(w, day)
      PROVE  Column(a, w) = History(a, Setters(a, R \cup {e}), day)
  <2>1. e.date <= day /\ a \in Effects(e)
    BY <1>3, <1>5, EffectsOf DEF ExistsAt
  <2>2. Column(a, w) = ValueSet(a, e)
    BY <1>5 DEF Begins
  <2>3. {x \in Setters(a, R \cup {e}) : x.date <= day} = {e}
    BY <1>1, <2>1, SettersHaveEffect
  <2>4. LastOf({e}) = e
    BY LastOfLast
  <2> QED
    BY <2>2, <2>3, <2>4 DEF History
<1> QED
  BY <1>4, <1>5 DEF ShowsSet

(***************************************************************************)
(* The views of a log that has one event more.                             *)
(***************************************************************************)
LEMMA SameLatest ==
  ASSUME NEW log, LogOK(log), NEW new, LogOK(new),
         NEW J \in SUBSET (DOMAIN log), J \subseteq DOMAIN new, J # {},
         \A j \in J : new[j] = log[j]
  PROVE  Latest(new, J) = Latest(log, J)
<1> DEFINE j == Latest(log, J)
           k == Latest(new, J)
<1>1. j \in J /\ k \in J
  BY LatestExists
<1>2. Newer(log, j, k) /\ Newer(new, k, j)
  BY <1>1, LatestIsNewest
<1> HIDE DEF j, k
<1>3. log[j].time \in Nat /\ log[k].time \in Nat /\ j \in Nat /\ k \in Nat
  BY <1>1, LogShape DEF LogOK, EventOK
<1>4. new[j] = log[j] /\ new[k] = log[k]
  BY <1>1
<1>5. j = k
  BY <1>2, <1>3, <1>4 DEF Newer
<1> QED
  BY <1>5 DEF j, k

LEMMA SameReading ==
  ASSUME NEW log, LogOK(log), NEW e, EventOK(e), e.target <= Len(log),
         NEW i \in DOMAIN log, e.target # i
  PROVE  /\ IsRescinded(Append(log, e), i) <=> IsRescinded(log, i)
         /\ EffectiveDate(Append(log, e), i) = EffectiveDate(log, i)
         /\ EffectivePayload(Append(log, e), i) = EffectivePayload(log, i)
         /\ EffectiveType(Append(log, e), i) = EffectiveType(log, i)
         /\ ReplayType(Append(log, e), i) = ReplayType(log, i)
<1> DEFINE new == Append(log, e)
           C == CorrectionsOf(log, i)
           D == DateCorrections(log, i)
<1>1. LogOK(new) /\ (\A j \in DOMAIN log : new[j] = log[j])
  BY AppendOK, AppendShape
<1>2. DOMAIN log \subseteq DOMAIN new /\ i \in Nat
  BY AppendShape, LogShape
<1>3. CorrectionsOf(new, i) = C
  BY <1>2, AppendCorrections
<1>4. C \in SUBSET (DOMAIN log)
  BY DEF CorrectionsOf
<1> HIDE DEF new
<1>5. DateCorrections(new, i) = D
  BY <1>1, <1>3, <1>4 DEF DateCorrections
<1>6. D \in SUBSET (DOMAIN log)
  BY <1>4 DEF DateCorrections
<1>7. C # {} => Latest(new, C) = Latest(log, C) /\ new[Latest(log, C)] = log[Latest(log, C)]
  <2> SUFFICES ASSUME C # {}
               PROVE  Latest(new, C) = Latest(log, C) /\ new[Latest(log, C)] = log[Latest(log, C)]
    OBVIOUS
  <2> HIDE DEF C
  <2>1. C \subseteq DOMAIN new /\ \A j \in C : new[j] = log[j]
    BY <1>1, <1>2, <1>4
  <2>2. Latest(log, C) \in C
    BY <1>4, LatestExists
  <2> QED
    BY <2>1, <2>2, <1>1, <1>4, SameLatest
<1>8. D # {} => Latest(new, D) = Latest(log, D) /\ new[Latest(log, D)] = log[Latest(log, D)]
  <2> SUFFICES ASSUME D # {}
               PROVE  Latest(new, D) = Latest(log, D) /\ new[Latest(log, D)] = log[Latest(log, D)]
    OBVIOUS
  <2> HIDE DEF D
  <2>1. D \subseteq DOMAIN new /\ \A j \in D : new[j] = log[j]
    BY <1>1, <1>2, <1>6
  <2>2. Latest(log, D) \in D
    BY <1>6, LatestExists
  <2> QED
    BY <2>1, <2>2, <1>1, <1>6, SameLatest
<1>9. new[i] = log[i]
  BY <1>1
<1>10. /\ IsRescinded(new, i) <=> IsRescinded(log, i)
       /\ \A type : CorrectedBy(new, i, type) <=> CorrectedBy(log, i, type)
       /\ C # {} => Correction(new, i) = Correction(log, i)
  BY <1>3, <1>7 DEF IsRescinded, CorrectedBy, Correction
<1>11. EffectiveDate(new, i) = EffectiveDate(log, i)
  BY <1>5, <1>8, <1>9 DEF EffectiveDate
<1>12. EffectivePayload(new, i) = EffectivePayload(log, i)
  BY <1>9, <1>10 DEF EffectivePayload, CorrectedBy
<1>13. EffectiveType(new, i) = EffectiveType(log, i)
  BY <1>9, <1>10 DEF EffectiveType, CorrectedBy
<1>14. ReplayType(new, i) = ReplayType(log, i)
  BY <1>9, <1>10, <1>12, <1>13 DEF ReplayType
<1> QED
  BY <1>10, <1>11, <1>12, <1>13, <1>14 DEF new

(* The event of the log as a rebuild sees it. *)
Reading(log, n, i) ==
  [id |-> i, node |-> n, type |-> ReplayType(log, i),
   date |-> EffectiveDate(log, i), payload |-> EffectivePayload(log, i)]

Appends(log, e) ==
  /\ LogOK(log) /\ LogFine(log) /\ EventOK(e) /\ e.target <= Len(log)
  /\ BaseShape(e) \/ FixShape(e, log)

LEMMA OtherUnitsSame ==
  ASSUME NEW log, NEW e, Appends(log, e), NEW n, n # e.node
  PROVE  /\ EffectiveIds(Append(log, e), n) = EffectiveIds(log, n)
         /\ \A i \in EffectiveIds(log, n) :
              EffectiveDate(Append(log, e), i) = EffectiveDate(log, i)
         /\ ReplayEvents(Append(log, e), n) = ReplayEvents(log, n)
<1> DEFINE new == Append(log, e)
<1>1. LogOK(log) /\ EventOK(e) /\ e.target <= Len(log)
  BY DEF Appends
<1>2. /\ DOMAIN new = 1 .. (Len(log) + 1) /\ DOMAIN log = 1 .. Len(log)
      /\ Len(log) \in Nat
      /\ \A i \in DOMAIN log : new[i] = log[i]
      /\ new[Len(log) + 1] = e
  BY <1>1, AppendShape, LogShape
<1>3. ASSUME NEW i \in DOMAIN log, log[i].node = n
      PROVE  e.target # i
  BY <1>2, <1>3 DEF Appends, BaseShape, FixShape, NoTarget
<1>4. ASSUME NEW i \in DOMAIN log, log[i].node = n
      PROVE  /\ IsRescinded(new, i) <=> IsRescinded(log, i)
             /\ Reading(new, n, i) = Reading(log, n, i)
             /\ EffectiveDate(new, i) = EffectiveDate(log, i)
  <2>1. e.target # i
    BY <1>3, <1>4
  <2> QED
    BY <2>1, <1>1, SameReading DEF Reading
<1> HIDE DEF new
<1>5. EffectiveIds(new, n) = EffectiveIds(log, n)
  <2>1. ASSUME NEW i
        PROVE  i \in EffectiveIds(new, n) <=> i \in EffectiveIds(log, n)
    <3>1. i \in DOMAIN new /\ new[i].node = n <=> i \in DOMAIN log /\ log[i].node = n
      BY <1>2
    <3> QED
      BY <3>1, <1>2, <1>4 DEF EffectiveIds
  <2> QED
    BY <2>1
<1>6. \A i \in EffectiveIds(log, n) : i \in DOMAIN log /\ log[i].node = n
  BY DEF EffectiveIds
<1>7. ReplayEvents(new, n) = {Reading(new, n, i) : i \in EffectiveIds(log, n)}
  BY <1>5 DEF ReplayEvents, Reading
<1>8. ReplayEvents(log, n) = {Reading(log, n, i) : i \in EffectiveIds(log, n)}
  BY DEF ReplayEvents, Reading
<1>9. ReplayEvents(new, n) = ReplayEvents(log, n)
  BY <1>4, <1>6, <1>7, <1>8
<1> QED
  BY <1>4, <1>5, <1>6, <1>9 DEF new

LEMMA BaseAppended ==
  ASSUME NEW log, NEW e, Appends(log, e), BaseShape(e),
         NEW x, x = [id |-> Len(log) + 1, node |-> e.node, type |-> e.type,
                     date |-> e.date, payload |-> e.payload]
  PROVE  /\ EffectiveIds(Append(log, e), e.node) =
              EffectiveIds(log, e.node) \cup {Len(log) + 1}
         /\ \A i \in EffectiveIds(log, e.node) :
              EffectiveDate(Append(log, e), i) = EffectiveDate(log, i)
         /\ ReplayEvents(Append(log, e), e.node) = ReplayEvents(log, e.node) \cup {x}
<1> DEFINE new == Append(log, e)
           n == e.node
           last == Len(log) + 1
<1>1. LogOK(log) /\ EventOK(e) /\ e.target <= Len(log) /\ e.target = 0
  BY DEF Appends, BaseShape, NoTarget
<1>2. /\ DOMAIN new = 1 .. last /\ DOMAIN log = 1 .. Len(log)
      /\ Len(log) \in Nat
      /\ \A i \in DOMAIN log : new[i] = log[i]
      /\ new[last] = e
  BY <1>1, AppendShape, LogShape
<1>3. ASSUME NEW i \in DOMAIN log
      PROVE  /\ IsRescinded(new, i) <=> IsRescinded(log, i)
             /\ Reading(new, n, i) = Reading(log, n, i)
             /\ EffectiveDate(new, i) = EffectiveDate(log, i)
  <2>1. e.target # i
    BY <1>1, <1>2
  <2> QED
    BY <2>1, <1>1, SameReading DEF Reading
<1>4. CorrectionsOf(new, last) = {}
  <2>1. CorrectionsOf(log, last) = {}
    BY <1>1, <1>2 DEF CorrectionsOf, LogOK, EventOK
  <2> QED
    BY <2>1, <1>1, <1>2, AppendCorrections
<1> HIDE DEF new
<1>5. /\ ~IsRescinded(new, last)
      /\ EffectiveDate(new, last) = e.date
      /\ EffectivePayload(new, last) = e.payload
      /\ ReplayType(new, last) = e.type
  BY <1>2, <1>4 DEF IsRescinded, EffectiveDate, DateCorrections, EffectivePayload,
                    CorrectedBy, ReplayType, EffectiveType
<1>6. Reading(new, n, last) = x
  BY <1>5 DEF Reading
<1>7. EffectiveIds(new, n) = EffectiveIds(log, n) \cup {last}
  <2>1. ASSUME NEW i
        PROVE  i \in EffectiveIds(new, n) <=> i \in EffectiveIds(log, n) \/ i = last
    <3>1. i \in DOMAIN new <=> i \in DOMAIN log \/ i = last
      BY <1>2
    <3>2. last \notin DOMAIN log
      BY <1>2
    <3> QED
      BY <3>1, <3>2, <1>2, <1>3, <1>5 DEF EffectiveIds, BaseShape
  <2> QED
    BY <2>1
<1>8. \A i \in EffectiveIds(log, n) : i \in DOMAIN log
  BY DEF EffectiveIds
<1>9. ReplayEvents(new, n) = {Reading(new, n, i) : i \in EffectiveIds(log, n) \cup {last}}
  BY <1>7 DEF ReplayEvents, Reading
<1>10. ReplayEvents(log, n) = {Reading(log, n, i) : i \in EffectiveIds(log, n)}
  BY DEF ReplayEvents, Reading
<1>11. ReplayEvents(new, n) = ReplayEvents(log, n) \cup {x}
  BY <1>3, <1>6, <1>8, <1>9, <1>10
<1> QED
  BY <1>3, <1>7, <1>8, <1>11 DEF new

LEMMA ReplayPlain ==
  ASSUME NEW log, LogOK(log), LogFine(log), NEW n, NEW x \in ReplayEvents(log, n)
  PROVE  /\ Plain(x.type, x.payload)
         /\ Dated(x)
         /\ x.id \in EffectiveIds(log, n) /\ x.date = EffectiveDate(log, x.id)
         /\ x.node = n
         /\ x.type = "CREATE" <=> log[x.id].type = "CREATE"
<1>1. PICK i \in EffectiveIds(log, n) : x = Reading(log, n, i)
  BY DEF ReplayEvents, Reading
<1>2. i \in DOMAIN log /\ log[i].type \in BaseTypes /\ i \in Nat
  BY LogShape DEF EffectiveIds
<1>3. /\ x.id = i /\ x.type = ReplayType(log, i) /\ x.date = EffectiveDate(log, i)
      /\ x.payload = EffectivePayload(log, i) /\ x.node = n
  BY <1>1 DEF Reading
<1>4. BaseShape(log[i])
  BY <1>2 DEF LogFine, FixShape, CorrectionTypes, RescindTypes, BaseTypes
<1>5. CorrectedBy(log, i, "CORRECT_STATUS") => log[i].type \in {"ENABLE", "DISABLE"}
  <2> SUFFICES ASSUME CorrectedBy(log, i, "CORRECT_STATUS")
               PROVE  log[i].type \in {"ENABLE", "DISABLE"}
    OBVIOUS
  <2> DEFINE j == Latest(log, CorrectionsOf(log, i))
  <2>1. CorrectionsOf(log, i) \in SUBSET (DOMAIN log) /\ CorrectionsOf(log, i) # {}
    BY DEF CorrectedBy, CorrectionsOf
  <2>2. j \in CorrectionsOf(log, i)
    BY <2>1, LatestExists
  <2>3. j \in DOMAIN log /\ log[j].target = i
    BY <2>2 DEF CorrectionsOf
  <2>4. log[j].type = "CORRECT_STATUS"
    BY DEF CorrectedBy
  <2> HIDE DEF j
  <2> QED
    BY <2>3, <2>4 DEF LogFine, BaseShape, FixShape, BaseTypes
<1>6. Dated(x)
  BY <1>2, <1>3, EffectiveDateOK DEF Dated
<1>7. x.type = "CREATE" <=> log[i].type = "CREATE"
  BY <1>3, <1>5 DEF ReplayType, EffectiveType
<1>8. ASSUME CorrectedBy(log, i, "CORRECT_EVENT") PROVE Plain(x.type, x.payload)
  <2>1. DOMAIN log[i].payload \subseteq DOMAIN EffectivePayload(log, i)
    BY DEF EffectivePayload, Merge, Overlay
  <2>2. Complete(log[i].type, log[i].payload)
    BY <1>2 DEF LogOK, EventOK
  <2>3. CASE DOMAIN EffectivePayload(log, i) \cap CoreKeys # {} /\ log[i].type # "CREATE"
    BY <2>3, <1>3, <1>8 DEF ReplayType, Plain
  <2>4. CASE DOMAIN EffectivePayload(log, i) \cap CoreKeys = {}
    BY <2>4, <1>3, <1>8 DEF Plain, Carries, CoreKeys
  <2>5. CASE log[i].type = "CREATE"
    BY <2>5, <1>3, <1>7 DEF Plain
  <2> QED
    BY <2>3, <2>4, <2>5
<1>9. ASSUME ~CorrectedBy(log, i, "CORRECT_EVENT") PROVE Plain(x.type, x.payload)
  <2>1. x.payload = log[i].payload /\ x.type = EffectiveType(log, i)
    BY <1>3, <1>9 DEF EffectivePayload, ReplayType
  <2>2. CASE CorrectedBy(log, i, "CORRECT_STATUS")
    BY <2>1, <2>2, <1>4, <1>5 DEF BaseShape, Plain, EffectiveType
  <2>3. CASE ~CorrectedBy(log, i, "CORRECT_STATUS")
    BY <2>1, <2>3, <1>4 DEF BaseShape, EffectiveType
  <2> QED
    BY <2>2, <2>3
<1> QED
  BY <1>1, <1>3, <1>6, <1>7, <1>8, <1>9

(***************************************************************************)
(* Backdated events.  A RENAME and a SET_BUSINESS_UNIT look ahead to the   *)
(* day on which the next event of their type takes over, and write no      *)
(* further.  That keeps the history whole because on that day a row begins.*)
(***************************************************************************)
Own == {"name", "bu"}
TakesOver(a) == IF a = "name" THEN "RENAME" ELSE "SET_BUSINESS_UNIT"

Once(R) == \A x, z \in R : x.type = "CREATE" /\ z.type = "CREATE" => x = z

(* No row runs through the day of an event that has an effect.             *)
Divided(V, R, n) ==
  \A x \in R : Effects(x) # {} =>
    \A v \in V : v.node = n => v.to <= x.date \/ x.date <= v.from

LEMMA DividedOther ==
  ASSUME NEW V, NEW W, RowsOK(V), RowsOK(W), NEW e, NEW B, NEW A, Touch(V, W, e, B, A),
         NEW R, \A x \in R : Dated(x), NEW n, Divided(V, R, n)
  PROVE  Divided(W, R, n)
<1>1. SUFFICES ASSUME NEW x \in R, Effects(x) # {}, NEW w \in W, w.node = n
               PROVE  w.to <= x.date \/ x.date <= w.from
  BY DEF Divided
<1>2. PICK v \in V : Within(w, v, e.date)
  BY DEF Touch
<1>3. /\ x.date \in Int /\ v.from \in Int /\ v.to \in Int
      /\ w.from \in Int /\ w.to \in Int
  BY DatesAreInts DEF Dated, RowsOK, RowOK
<1>4. v.to <= x.date \/ x.date <= v.from
  BY <1>1, <1>2 DEF Divided, Within
<1> QED
  BY <1>2, <1>3, <1>4 DEF Within

LEMMA DividedNext ==
  ASSUME NEW V, NEW W, RowsOK(V), RowsOK(W), NEW e, NEW B, Touch(V, W, e, B, Effects(e)),
         NEW R, \A x \in R : Dated(x), Divided(V, R, e.node), e.type # "CREATE", Once(R)
  PROVE  Divided(W, R \cup {e}, e.node) /\ Once(R \cup {e})
<1>1. Divided(W, R, e.node)
  BY DividedOther
<1>2. Effects(e) # {} => \A w \in W : w.node = e.node => w.to <= e.date \/ e.date <= w.from
  BY DEF Touch
<1> QED
  BY <1>1, <1>2 DEF Divided, Once

LEMMA DividedBegins ==
  ASSUME NEW V, NEW W, NEW e, Begins(V, W, e), Dated(e), NEW R, Lives(V, R, e.node)
  PROVE  Divided(W, R \cup {e}, e.node) /\ Once(R \cup {e})
<1>1. \A x \in R : Effects(x) = {} /\ x.type # "CREATE"
  <2>1. \A x \in R : Effects(x) = {}
    BY DEF Lives, Begins
  <2>2. Attributes # {}
    BY DEF Attributes
  <2> QED
    BY <2>1, <2>2, EffectsOf
<1>2. \A w \in W : w.node = e.node => w.from = e.date
  BY DEF Begins
<1>3. e.date \in Int
  BY DatesAreInts DEF Dated
<1>4. \A w \in W : w.node = e.node => e.date <= w.from
  BY <1>2, <1>3
<1> QED
  BY <1>1, <1>4 DEF Divided, Once

LEMMA DividedBeginsOther ==
  ASSUME NEW V, NEW W, NEW e, Begins(V, W, e), NEW n, n # e.node, NEW R, Divided(V, R, n)
  PROVE  Divided(W, R, n)
<1>1. \A w \in W : w.node = n => \E v \in V : SameSpan(w, v)
  BY DEF Begins, SameRow
<1> QED
  BY <1>1 DEF Divided, SameSpan

(* An attribute that the event does not set.                               *)
LEMMA HistoryAside ==
  ASSUME NEW R, NEW e, NEW a \in Attributes, NEW day,
         ~(a \in Effects(e) /\ e.date <= day)
  PROVE  History(a, Setters(a, R \cup {e}), day) = History(a, Setters(a, R), day)
<1>1. {x \in Setters(a, R \cup {e}) : x.date <= day} = {x \in Setters(a, R) : x.date <= day}
  BY SettersHaveEffect
<1> QED
  BY <1>1 DEF History

LEMMA ShowsAside ==
  ASSUME NEW V, NEW W, RowsOK(V), RowsOK(W), NEW e, e.node \in Nodes, e.type # "CREATE",
         NEW B \in SUBSET Attributes, B \cap Effects(e) = {},
         Touch(V, W, e, B, Effects(e)), NEW R, ShowsSet(B, R, V, e.node)
  PROVE  ShowsSet(B, R \cup {e}, W, e.node)
<1> DEFINE n == e.node
<1>1. ASSUME NEW w \in W, w.node = n, NEW day \in Dates, Covers(w, day)
      PROVE  \E v \in V : /\ v.node = n /\ Covers(v, day)
                          /\ \A a \in B : Column(a, w) = Column(a, v)
  <2>1. PICK v \in V : Within(w, v, e.date) /\ Shows(w, v, e, B, Effects(e))
    BY DEF Touch
  <2>2. RowOK(v) /\ RowOK(w)
    BY DEF RowsOK
  <2>3. /\ v.from \in Int /\ v.to \in Int /\ w.from \in Int /\ w.to \in Int
        /\ day \in Int
    BY <2>2, DatesAreInts DEF RowOK
  <2>4. v.node = n /\ Covers(v, day)
    BY <2>1, <2>3, <1>1 DEF Within, Covers
  <2>5. \A a \in B : Column(a, w) = Column(a, v)
    BY <2>1, <1>1 DEF Shows
  <2> QED
    BY <2>4, <2>5
<1>2. \A day \in Dates : ExistsAt(W, n, day) <=> ExistsAt(V, n, day)
  BY <1>1 DEF Touch, ExistsAt
<1>3. \A day \in Dates :
        ExistsAt(W, n, day) <=> \E x \in R \cup {e} : x.type = "CREATE" /\ x.date <= day
  BY <1>2 DEF ShowsSet
<1>4. ASSUME NEW a \in B, NEW day \in Dates, NEW w \in W, w.node = n, Covers(w, day)
      PROVE  Column(a, w) = History(a, Setters(a, R \cup {e}), day)
  <2>1. PICK v \in V : v.node = n /\ Covers(v, day) /\ Column(a, w) = Column(a, v)
    BY <1>1, <1>4
  <2>2. Column(a, v) = History(a, Setters(a, R), day)
    BY <2>1 DEF ShowsSet
  <2>3. a \in Attributes /\ a \notin Effects(e)
    OBVIOUS
  <2> QED
    BY <2>1, <2>2, <2>3, HistoryAside
<1> QED
  BY <1>3, <1>4 DEF ShowsSet

LEMMA DatedInts ==
  ASSUME NEW x, Dated(x)
  PROVE  x.date \in Int /\ x.id \in Int
  BY DEF Dated, Dates

(* An earlier setter does not show where a later one has taken over.       *)
LEMMA Overtaken ==
  ASSUME NEW S, NEW e, Dated(e), \A x \in S : Dated(x), NEW y \in S, e.date < y.date
  PROVE  LastOf(S \cup {e}) = LastOf(S)
<1>1. /\ e.date \in Int /\ e.id \in Int
      /\ \A x \in S : x.date \in Int /\ x.id \in Int
  BY DatedInts
<1>2. ~Before(y, e)
  BY <1>1 DEF Before
<1>3. \A a \in S : (\A b \in S \cup {e} : Before(b, a)) <=> (\A b \in S : Before(b, a))
  <2>1. ASSUME NEW a \in S, Before(y, a)
        PROVE  Before(e, a)
    BY <1>1, <2>1 DEF Before
  <2> QED
    BY <2>1
<1>4. \A a : (a \in S \cup {e} /\ \A b \in S \cup {e} : Before(b, a))
             <=> (a \in S /\ \A b \in S : Before(b, a))
  BY <1>2, <1>3
<1>5. (CHOOSE a : a \in S \cup {e} /\ \A b \in S \cup {e} : Before(b, a))
      = (CHOOSE a : a \in S /\ \A b \in S : Before(b, a))
  BY <1>4
<1> QED
  BY <1>5 DEF LastOf

(* A value written up to the day on which the next one takes over.         *)
Backdates(V, W, e, a, stop, R) ==
  /\ RowsOK(V) /\ Dated(e)
  /\ a \in Attributes /\ a \in Effects(e)
  /\ stop \in Int /\ e.date < stop
  /\ Writes(V, W, e, a, stop)
  /\ \A x \in R : Dated(x) /\ x.id < e.id
  /\ \A x \in R : a \in Effects(x) => x.date <= e.date \/ stop <= x.date
  /\ stop # Infinity => \E x \in R : a \in Effects(x) /\ x.date = stop
  /\ Divided(V, R, e.node)
  /\ ShowsSet({a}, R, V, e.node)

LEMMA BackdatedShows ==
  ASSUME NEW V, NEW W, NEW e, NEW a, NEW stop, NEW R, Backdates(V, W, e, a, stop, R)
  PROVE  \A day \in Dates : \A w \in W :
           w.node = e.node /\ Covers(w, day) =>
             Column(a, w) = History(a, Setters(a, R \cup {e}), day)
<1> SUFFICES ASSUME NEW day \in Dates, NEW w \in W, w.node = e.node, Covers(w, day)
             PROVE  Column(a, w) = History(a, Setters(a, R \cup {e}), day)
  OBVIOUS
<1> USE DEF Backdates
<1> DEFINE n == e.node
           d == e.date
           T == RowsOf(V, n)
           H == History(a, Setters(a, R), day)
<1>1. PICK s \in SplitAt(V, T, d) :
        /\ SameSpan(w, s)
        /\ Column(a, w) = IF StartsIn(s, n, d, stop) THEN ValueSet(a, e) ELSE Column(a, s)
  BY DEF Writes, SplitNode
<1>2. T \in SUBSET V /\ d \in Dates
  BY DEF RowsOf, Dated
<1> HIDE DEF T
<1>3. PICK v \in V : /\ Within(s, v, d)
                     /\ \A c \in Attributes : Column(c, s) = Column(c, v)
                     /\ v \in T /\ Covers(v, d) => s.to <= d \/ d <= s.from
  BY <1>2, SplitCuts
<1>4. RowOK(s) /\ RowOK(v)
  BY <1>2, SplitRowsOK DEF RowsOK
<1>5. /\ s.from \in Int /\ s.to \in Int /\ v.from \in Int /\ v.to \in Int
      /\ day \in Int /\ d \in Int /\ day < Infinity /\ Infinity \in Int
  BY <1>2, <1>4, DatesAreInts DEF RowOK
<1>6. s.node = n /\ v.node = n /\ s.from <= day /\ day < s.to
      /\ v.from <= s.from /\ s.to <= v.to
  BY <1>1, <1>3 DEF SameSpan, Within, Covers
<1>7. Covers(v, day) /\ Column(a, s) = Column(a, v)
  BY <1>3, <1>5, <1>6 DEF Covers
<1>8. Column(a, v) = H
  BY <1>6, <1>7 DEF ShowsSet
<1>9. v \in T
  BY <1>6 DEF T, RowsOf
<1> HIDE DEF H, d, n
<1>10. CASE day < d
  <2>1. ~StartsIn(s, n, d, stop)
    BY <1>5, <1>6, <1>10 DEF StartsIn
  <2>2. ~(e.date <= day)
    BY <1>5, <1>10 DEF d
  <2>3. History(a, Setters(a, R \cup {e}), day) = H
    BY <2>2, HistoryAside DEF H
  <2> QED
    BY <2>1, <2>3, <1>1, <1>7, <1>8
<1>11. CASE d <= day /\ day < stop
  <2>1. d <= s.from
    BY <1>3, <1>5, <1>6, <1>9, <1>11 DEF Covers
  <2>2. StartsIn(s, n, d, stop)
    BY <2>1, <1>5, <1>6, <1>11 DEF StartsIn
  <2> DEFINE S == {x \in Setters(a, R \cup {e}) : x.date <= day}
  <2>3. e \in S
    BY <1>11, SettersHaveEffect DEF d
  <2>4. ASSUME NEW x \in S, x # e
        PROVE  Dated(x) /\ Before(x, e) /\ x.id # e.id
    <3>1. x \in R /\ a \in Effects(x) /\ x.date <= day
      BY <2>4, SettersHaveEffect
    <3>2. Dated(x) /\ x.id < e.id /\ (x.date <= e.date \/ stop <= x.date)
      BY <3>1
    <3>3. x.date \in Int /\ x.id \in Int /\ e.id \in Int
      BY <3>2, DatedInts
    <3>4. x.date <= e.date
      BY <3>1, <3>2, <3>3, <1>5, <1>11
    <3> QED
      BY <3>2, <3>3, <3>4, <1>5 DEF Before, d
  <2> HIDE DEF S
  <2>5. LastOf(S) = e
    BY <2>3, <2>4, LastOfLast
  <2>6. History(a, Setters(a, R \cup {e}), day) = ValueSet(a, e)
    BY <2>5 DEF History, S
  <2> QED
    BY <2>2, <2>6, <1>1
<1>12. CASE stop <= day
  <2>1. PICK y \in R : a \in Effects(y) /\ y.date = stop
    BY <1>5, <1>12
  <2>2. v.to <= stop \/ stop <= v.from
    BY <2>1, <1>6 DEF Divided, n
  <2>3. ~StartsIn(s, n, d, stop)
    BY <2>2, <1>5, <1>6, <1>12 DEF StartsIn
  <2> DEFINE S0 == {x \in Setters(a, R) : x.date <= day}
             S1 == {x \in Setters(a, R \cup {e}) : x.date <= day}
  <2>4. e.date <= day
    BY <1>5, <1>12 DEF d
  <2>5. S1 = S0 \cup {e} /\ y \in S0
    BY <2>1, <2>4, <1>12, SettersHaveEffect
  <2>6. \A x \in S0 : Dated(x)
    BY SettersHaveEffect
  <2> HIDE DEF S0, S1
  <2>7. LastOf(S0 \cup {e}) = LastOf(S0)
    BY <2>1, <2>5, <2>6, Overtaken
  <2>8. History(a, Setters(a, R \cup {e}), day) = H
    BY <2>5, <2>7 DEF History, S0, S1, H
  <2> QED
    BY <2>3, <2>8, <1>1, <1>7, <1>8
<1> QED
  BY <1>5, <1>10, <1>11, <1>12

(* What a write looks ahead to.                                            *)
LEMMA StopIsDate ==
  ASSUME NEW log, LogOK(log), NEW n, NEW type, NEW d \in Dates
  PROVE  /\ \A i \in EffectiveIds(log, n) : EffectiveType(log, i) = type =>
              EffectiveDate(log, i) <= d \/ StopDate(log, n, type, d) <= EffectiveDate(log, i)
         /\ StopDate(log, n, type, d) # Infinity =>
              \E i \in EffectiveIds(log, n) :
                EffectiveType(log, i) = type /\ EffectiveDate(log, i) = StopDate(log, n, type, d)
<1> DEFINE later == {EffectiveDate(log, i) :
                       i \in {j \in EffectiveIds(log, n) : EffectiveType(log, j) = type}}
           stops == {s \in later : s > d}
<1>1. StopDate(log, n, type, d) = IF stops = {} THEN Infinity ELSE Min(stops)
  BY DEF StopDate
<1>2. later \subseteq Dates
  BY EffectiveDateOK DEF EffectiveIds
<1>3. Dates \subseteq Nat
  BY DEF Dates
<1>4. \A s \in later : s <= d \/ s \in stops
  <2>1. d \in Nat /\ later \subseteq Nat
    BY <1>2, <1>3
  <2> QED
    BY <2>1
<1>5. \A s \in stops : s \in later /\ s \in Nat
  BY <1>2, <1>3
<1>6. \A i \in EffectiveIds(log, n) :
        EffectiveType(log, i) = type => EffectiveDate(log, i) \in later
  OBVIOUS
<1>7. \A s \in later : \E i \in EffectiveIds(log, n) :
        EffectiveType(log, i) = type /\ EffectiveDate(log, i) = s
  OBVIOUS
<1> HIDE DEF later, stops
<1>8. CASE stops # {}
  <2>1. PICK x \in stops : \A y \in stops : x <= y
    <3>1. stops \subseteq Nat
      BY <1>5
    <3> QED
      BY <3>1, <1>8, LeastNat
  <2>2. Min(stops) \in stops /\ \A y \in stops : Min(stops) <= y
    BY <2>1 DEF Min
  <2> QED
    BY <2>2, <1>1, <1>4, <1>5, <1>6, <1>7, <1>8
<1>9. CASE stops = {}
  BY <1>1, <1>4, <1>6, <1>9
<1> QED
  BY <1>8, <1>9

(* The events that set a unit's name, or flag, are those looked ahead to.  *)
LEMMA SettersTakeOver ==
  ASSUME NEW log, NEW n, SetByOwnTypes(log, n), NEW y \in ReplayEvents(log, n),
         NEW a \in Own, a \in Effects(y), y.type # "CREATE"
  PROVE  /\ y.id \in EffectiveIds(log, n) /\ y.date = EffectiveDate(log, y.id)
         /\ EffectiveType(log, y.id) = TakesOver(a)
<1>1. PICK i \in EffectiveIds(log, n) : y = Reading(log, n, i)
  BY DEF ReplayEvents, Reading
<1>2. /\ y.id = i /\ y.type = ReplayType(log, i) /\ y.date = EffectiveDate(log, i)
      /\ y.payload = EffectivePayload(log, i)
  BY <1>1 DEF Reading
<1>3. \/ y.type = TakesOver(a)
      \/ y.type = "UPDATE" /\ SetByUpdate(a, y.payload)
  BY DEF Effects, SetterTypes, Own, TakesOver
<1>4. CASE y.type = TakesOver(a)
  BY <1>2, <1>4 DEF ReplayType, TakesOver
<1>5. CASE y.type = "UPDATE" /\ SetByUpdate(a, y.payload)
  BY <1>2, <1>5 DEF SetByOwnTypes, SetByUpdate, Own, TakesOver
<1> QED
  BY <1>2, <1>3, <1>4, <1>5

LEMMA TakesOverSets ==
  ASSUME NEW log, LogOK(log), NEW n, NEW a \in Own, NEW i \in EffectiveIds(log, n),
         EffectiveType(log, i) = TakesOver(a)
  PROVE  \E y \in ReplayEvents(log, n) : a \in Effects(y) /\ y.date = EffectiveDate(log, i)
<1> DEFINE y == Reading(log, n, i)
<1>1. y \in ReplayEvents(log, n)
  BY DEF ReplayEvents, Reading
<1>2. /\ y.type = ReplayType(log, i) /\ y.date = EffectiveDate(log, i)
      /\ y.payload = EffectivePayload(log, i)
  BY DEF Reading
<1> HIDE DEF y
<1>3. log[i].type = TakesOver(a) /\ i \in DOMAIN log
  BY DEF EffectiveType, TakesOver, EffectiveIds
<1>4. Complete(TakesOver(a), y.payload)
  BY <1>2, <1>3, EffectivePayloadOK
<1>5. y.type = "UPDATE" \/ y.type = TakesOver(a)
  BY <1>2 DEF ReplayType
<1>6. a \in Effects(y)
  BY <1>4, <1>5 DEF Effects, SetterTypes, SetByUpdate, Own, TakesOver, Attributes,
                    Complete, CarriesName
<1> QED
  BY <1>1, <1>2, <1>6

(* The two applications that look ahead.                                   *)
LEMMA NamesWrite ==
  ASSUME NEW V, NEW U, NEW W, NEW e, NEW a \in Attributes, NEW stop,
         Writes(V, U, e, a, stop), \A w \in W : \E u \in U : SameRow(w, u),
         \A u \in U : \E w \in W : SameSpan(w, u)
  PROVE  Writes(V, W, e, a, stop)
<1> DEFINE S == SplitNode(V, e.node, e.date)
<1>1. \A s \in S : \E w \in W : SameSpan(w, s)
  BY DEF Writes, SameSpan
<1>2. ASSUME NEW w \in W
      PROVE  \E s \in S :
               /\ SameSpan(w, s)
               /\ \A c \in Attributes \ {a} : Column(c, w) = Column(c, s)
               /\ Column(a, w) = IF StartsIn(s, e.node, e.date, stop)
                                 THEN ValueSet(a, e) ELSE Column(a, s)
  <2>1. PICK u \in U : SameRow(w, u)
    OBVIOUS
  <2>2. PICK s \in S :
               /\ SameSpan(u, s)
               /\ \A c \in Attributes \ {a} : Column(c, u) = Column(c, s)
               /\ Column(a, u) = IF StartsIn(s, e.node, e.date, stop)
                                 THEN ValueSet(a, e) ELSE Column(a, s)
    BY DEF Writes
  <2>3. SameSpan(w, s) /\ \A c \in Attributes : Column(c, w) = Column(c, u)
    BY <2>1, <2>2 DEF SameRow, SameSpan
  <2> QED
    BY <2>2, <2>3
<1> HIDE DEF S
<1>3. /\ \A s \in S : \E w \in W : SameSpan(w, s)
      /\ \A w \in W : \E s \in S :
               /\ SameSpan(w, s)
               /\ \A c \in Attributes \ {a} : Column(c, w) = Column(c, s)
               /\ Column(a, w) = IF StartsIn(s, e.node, e.date, stop)
                                 THEN ValueSet(a, e) ELSE Column(a, s)
  BY <1>1, <1>2
<1> QED
  BY <1>3 DEF Writes, S

LEMMA ApplyWrites ==
  ASSUME NEW log, NEW db0, Good(db0), NEW e, e.node \in Nodes, e.date \in Dates,
         PayloadOK(e.payload), Complete(e.type, e.payload), Plain(e.type, e.payload),
         NEW a \in Own, e.type = TakesOver(a),
         NEW after \in Apply(log, db0, e.node, e.type, e.date, e.payload)
  PROVE  /\ Writes(db0.versions, after.versions, e, a,
                   StopDate(log, e.node, e.type, e.date))
         /\ ExistsAt(db0.versions, e.node, e.date)
         /\ Effects(e) = {a}
<1> DEFINE stop == StopDate(log, e.node, e.type, e.date)
           logic == ApplyLogic(log, db0, e.node, e.type, e.date, e.payload)
<1>1. CASE a = "name"
  <2>1. e.type = "RENAME" /\ Effects(e) = {a}
    BY <1>1, EffectsOf DEF TakesOver
  <2>2. e.payload["new_name"] = ValueSet("name", e)
    BY <2>1 DEF ValueSet, NewName, Plain
  <2>3. PICK b \in logic : after = RebuildFullNames(b, e.node, e.date)
    BY <2>1 DEF Apply, ChangesNames
  <2>4. Good(b)
    BY <2>1, <2>3, ApplyLogicGood DEF BaseTypes
  <2>5. b \in ApplyRename(db0, e.node, e.date, ValueSet("name", e), stop)
    BY <2>1, <2>2, <2>3 DEF ApplyLogic
  <2> HIDE DEF stop
  <2>6. /\ Writes(db0.versions, b.versions, e, "name", stop)
        /\ ExistsAt(db0.versions, e.node, e.date)
    BY <2>5, RenameWrites
  <2>7. /\ \A w \in after.versions : \E v \in b.versions : SameRow(w, v)
        /\ \A v \in b.versions : \E w \in after.versions : SameSpan(w, v)
    BY <2>3, <2>4, FullNamesSame
  <2>8. Writes(db0.versions, after.versions, e, "name", stop)
    BY <2>6, <2>7, NamesWrite DEF Attributes
  <2> QED
    BY <2>1, <2>6, <2>8, <1>1 DEF stop
<1>2. CASE a = "bu"
  <2>1. e.type = "SET_BUSINESS_UNIT" /\ Effects(e) = {a}
    BY <1>2, EffectsOf DEF TakesOver
  <2>2. e.payload["is_business_unit"] = ValueSet("bu", e)
    BY <2>1 DEF ValueSet, Field, Complete
  <2>3. after \in logic
    BY <2>1 DEF Apply, ChangesNames
  <2>4. after \in ApplySetBusinessUnit(db0, e.node, e.date, ValueSet("bu", e), stop)
    BY <2>1, <2>2, <2>3 DEF ApplyLogic
  <2> HIDE DEF stop
  <2>5. /\ Writes(db0.versions, after.versions, e, "bu", stop)
        /\ ExistsAt(db0.versions, e.node, e.date)
    BY <2>4, BusinessUnitWrites
  <2> QED
    BY <2>1, <2>5, <1>2 DEF stop
<1> QED
  BY <1>1, <1>2 DEF Own

(***************************************************************************)
(* What the projection tells of a unit, and where its rows begin: on the   *)
(* day of one of its events, or where the move of another unit cut a row.  *)
(***************************************************************************)
Attrs(log, n) == IF MovesInOrder(log, n) THEN Attributes ELSE Attributes \ {"parent"}

CutDay(log, n, d) ==
  \E k \in DOMAIN log : log[k].node # n /\ log[k].type # "CREATE" /\ d \in DaysOf(log[k])

Started(V, log, n) ==
  \A v \in V : v.node = n =>
    (\E i \in EffectiveIds(log, n) : v.from = EffectiveDate(log, i)) \/ CutDay(log, n, v.from)

Told(V, log, n) ==
  /\ ShowsSet({}, ReplayEvents(log, n), V, n)
  /\ InOrder(log, n) => ShowsSet(Attrs(log, n), ReplayEvents(log, n), V, n)
  /\ SetByOwnTypes(log, n) => ShowsSet(Own, ReplayEvents(log, n), V, n)
  /\ Lives(V, ReplayEvents(log, n), n)
  /\ Started(V, log, n)
  /\ Once(ReplayEvents(log, n))
  /\ Divided(V, ReplayEvents(log, n), n)

(* What ShowsSet says is what the properties ask.                          *)
LEMMA ShownHistory ==
  ASSUME NEW log, LogOK(log), LogFine(log), NEW V, NEW n, NEW A,
         ShowsSet(A, ReplayEvents(log, n), V, n)
  PROVE  ShowsHistory(A, log, V, n)
<1> DEFINE R == ReplayEvents(log, n)
<1>1. ShowsSet(A, R, V, n)
  OBVIOUS
<1>2. ASSUME NEW d
      PROVE  (\E x \in R : x.type = "CREATE" /\ x.date <= d)
             <=> \E born \in Births(log, n) : born <= d
  <2>1. ASSUME NEW x \in R, x.type = "CREATE", x.date <= d
        PROVE  \E born \in Births(log, n) : born <= d
    <3>1. x.id \in EffectiveIds(log, n) /\ log[x.id].type = "CREATE"
          /\ x.date = EffectiveDate(log, x.id)
      BY <2>1, ReplayPlain
    <3> QED
      BY <2>1, <3>1 DEF Births
  <2>2. ASSUME NEW born \in Births(log, n), born <= d
        PROVE  \E x \in R : x.type = "CREATE" /\ x.date <= d
    <3>1. PICK i \in EffectiveIds(log, n) :
            log[i].type = "CREATE" /\ born = EffectiveDate(log, i)
      BY DEF Births
    <3> DEFINE x == Reading(log, n, i)
    <3>2. x \in R /\ x.id = i /\ x.date = born
      BY <3>1 DEF ReplayEvents, Reading
    <3> HIDE DEF x
    <3>3. x.type = "CREATE"
      BY <3>1, <3>2, ReplayPlain
    <3> QED
      BY <2>2, <3>2, <3>3
  <2> QED
    BY <2>1, <2>2
<1>3. ASSUME NEW a \in A, NEW d \in Dates, ExistsAt(V, n, d)
      PROVE  Column(a, RowAt(V, n, d)) = History(a, Setters(a, R), d)
  BY <1>1, <1>3, RowAtExists DEF ShowsSet
<1>4. \A d \in Dates : ExistsAt(V, n, d) <=> \E born \in Births(log, n) : born <= d
  BY <1>1, <1>2 DEF ShowsSet
<1> HIDE DEF R
<1>5. \A a \in A :
        \A d \in {e \in Dates : ExistsAt(V, n, e)} :
          Column(a, RowAt(V, n, d)) = History(a, Setters(a, R), d)
  BY <1>3
<1> QED
  BY <1>4, <1>5 DEF ShowsHistory, R

LEMMA ShowsFewer ==
  ASSUME NEW A, NEW B, B \subseteq A, NEW R, NEW V, NEW n, ShowsSet(A, R, V, n)
  PROVE  ShowsSet(B, R, V, n)
  BY DEF ShowsSet

(* A log that only grows past its bounds orders fewer units.               *)
LEMMA LastFixNat ==
  ASSUME NEW log, LogOK(log), NEW n
  PROVE  /\ LastFix(log, n) \in Nat
         /\ LastFix(log, n) <= Len(log)
         /\ \A i \in DOMAIN log : log[i].node = n /\ log[i].type \in CorrectionTypes =>
              i <= LastFix(log, n)
<1> DEFINE S == {0} \cup {i \in DOMAIN log : log[i].node = n /\ log[i].type \in CorrectionTypes}
<1>1. Len(log) \in Nat /\ DOMAIN log = 1 .. Len(log)
  BY LogShape
<1>2. S \in SUBSET Nat /\ 0 \in S /\ \A i \in S : i <= Len(log)
  BY <1>1
<1> HIDE DEF S
<1>3. Max(S) \in S /\ \A i \in S : i <= Max(S)
  BY <1>1, <1>2, MaxNat
<1>4. LastFix(log, n) = Max(S)
  BY DEF LastFix, S
<1> QED
  BY <1>2, <1>3, <1>4 DEF S

LEMMA RowCoversItsStart ==
  ASSUME NEW V, RowsOK(V), WellFormed(V), NEW v \in V
  PROVE  v.from \in Dates /\ Covers(v, v.from)
<1>1. v.from \in Dates /\ v.to \in Dates \cup {Infinity} /\ v.from < v.to
  BY DEF RowsOK, RowOK, WellFormed, NonEmptyRows
<1>2. v.from \in Int
  BY <1>1, DatesAreInts
<1> QED
  BY <1>1, <1>2 DEF Covers

LEMMA OrderKept ==
  ASSUME NEW log, NEW e, Appends(log, e), NEW n, e.node # n \/ BaseShape(e)
  PROVE  /\ LastFix(Append(log, e), n) = LastFix(log, n)
         /\ InOrder(Append(log, e), n) => InOrder(log, n)
         /\ MovesInOrder(Append(log, e), n) => MovesInOrder(log, n)
         /\ Attrs(Append(log, e), n) \subseteq Attrs(log, n)
         /\ \A i \in EffectiveIds(log, n) :
              /\ i \in EffectiveIds(Append(log, e), n)
              /\ EffectiveDate(Append(log, e), i) = EffectiveDate(log, i)
         /\ \A V : Started(V, log, n) => Started(V, Append(log, e), n)
<1> DEFINE new == Append(log, e)
<1>1. /\ LogOK(log) /\ Len(log) \in Nat /\ DOMAIN log = 1 .. Len(log)
      /\ Len(new) = Len(log) + 1 /\ DOMAIN new = 1 .. (Len(log) + 1)
      /\ new[Len(log) + 1] = e /\ \A i \in DOMAIN log : new[i] = log[i]
  BY LogShape, AppendShape DEF Appends
<1>2. \A i \in EffectiveIds(log, n) :
        /\ i \in EffectiveIds(new, n) /\ EffectiveDate(new, i) = EffectiveDate(log, i)
  <2>1. CASE e.node # n
    BY <2>1, OtherUnitsSame
  <2>2. CASE e.node = n
    <3>1. PICK x : x = [id |-> Len(log) + 1, node |-> e.node, type |-> e.type,
                        date |-> e.date, payload |-> e.payload]
      OBVIOUS
    <3>2. /\ EffectiveIds(new, e.node) = EffectiveIds(log, e.node) \cup {Len(log) + 1}
          /\ \A i \in EffectiveIds(log, e.node) :
               EffectiveDate(new, i) = EffectiveDate(log, i)
      BY <2>2, <3>1, BaseAppended
    <3> QED
      BY <2>2, <3>2
  <2> QED
    BY <2>1, <2>2
<1>3. e.node # n \/ e.type \notin CorrectionTypes
  BY DEF BaseShape, BaseTypes, CorrectionTypes, RescindTypes
<1> HIDE DEF new
<1>4. {i \in DOMAIN new : new[i].node = n /\ new[i].type \in CorrectionTypes}
      = {i \in DOMAIN log : log[i].node = n /\ log[i].type \in CorrectionTypes}
  BY <1>1, <1>3
<1>5. LastFix(new, n) = LastFix(log, n)
  BY <1>4 DEF LastFix
<1>6. LastFix(log, n) \in Nat
  BY <1>1, LastFixNat
<1>7. InOrder(new, n) => InOrder(log, n)
  <2>1. SUFFICES ASSUME InOrder(new, n), NEW j \in (LastFix(log, n) + 1) .. Len(log),
                        log[j].node = n, NEW i \in EffectiveIds(log, n), i < j
                 PROVE  EffectiveDate(log, i) <= log[j].date
    BY DEF InOrder
  <2>2. j \in (LastFix(new, n) + 1) .. Len(new) /\ new[j] = log[j]
    BY <1>1, <1>5, <1>6
  <2>3. i \in EffectiveIds(new, n) /\ EffectiveDate(new, i) = EffectiveDate(log, i)
    BY <1>2
  <2> QED
    BY <2>1, <2>2, <2>3 DEF InOrder
<1>8. MovesInOrder(new, n) => MovesInOrder(log, n)
  <2>1. SUFFICES ASSUME MovesInOrder(new, n), NEW j \in (LastFix(log, n) + 1) .. Len(log),
                        log[j].node = n, Moves(log[j]), NEW i \in 1 .. (j - 1),
                        log[i].node # n, log[i].type # "CREATE", NEW d \in DaysOf(log[i])
                 PROVE  d <= log[j].date
    BY DEF MovesInOrder
  <2>2. /\ j \in (LastFix(new, n) + 1) .. Len(new) /\ new[j] = log[j]
        /\ new[i] = log[i]
    BY <1>1, <1>5, <1>6
  <2> QED
    BY <2>1, <2>2 DEF MovesInOrder
<1>9. ASSUME NEW V, Started(V, log, n)
      PROVE  Started(V, new, n)
  <2>1. \A d : CutDay(log, n, d) => CutDay(new, n, d)
    BY <1>1 DEF CutDay
  <2> QED
    BY <1>2, <1>9, <2>1 DEF Started
<1>10. Attrs(new, n) \subseteq Attrs(log, n)
  BY <1>8 DEF Attrs
<1>11. /\ LastFix(new, n) = LastFix(log, n)
       /\ InOrder(new, n) => InOrder(log, n)
       /\ MovesInOrder(new, n) => MovesInOrder(log, n)
       /\ Attrs(new, n) \subseteq Attrs(log, n)
  BY <1>5, <1>7, <1>8, <1>10
<1> QED
  BY <1>2, <1>9, <1>11 DEF new

(* An event of another unit, and a base event, say nothing of the others.  *)
LEMMA OwnTypesKept ==
  ASSUME NEW log, NEW e, Appends(log, e), NEW n, e.node # n \/ BaseShape(e),
         SetByOwnTypes(Append(log, e), n)
  PROVE  SetByOwnTypes(log, n)
<1> DEFINE new == Append(log, e)
<1>1. SUFFICES ASSUME NEW i \in EffectiveIds(log, n), ReplayType(log, i) = "UPDATE"
               PROVE  /\ CarriesName(EffectivePayload(log, i)) =>
                           EffectiveType(log, i) = "RENAME"
                      /\ Carries(EffectivePayload(log, i), "is_business_unit") =>
                           EffectiveType(log, i) = "SET_BUSINESS_UNIT"
  BY DEF SetByOwnTypes
<1>2. LogOK(log) /\ EventOK(e) /\ e.target <= Len(log) /\ Len(log) \in Nat
      /\ DOMAIN log = 1 .. Len(log)
  BY LogShape DEF Appends
<1>3. i \in DOMAIN log /\ log[i].node = n
  BY DEF EffectiveIds
<1>4. e.target # i
  BY <1>2, <1>3 DEF Appends, BaseShape, FixShape, NoTarget
<1>5. /\ EffectivePayload(new, i) = EffectivePayload(log, i)
      /\ EffectiveType(new, i) = EffectiveType(log, i)
      /\ ReplayType(new, i) = ReplayType(log, i)
  BY <1>2, <1>3, <1>4, SameReading
<1>6. i \in EffectiveIds(new, n)
  BY OrderKept
<1> HIDE DEF new
<1>7. SetByOwnTypes(new, n)
  BY DEF new
<1> QED
  BY <1>1, <1>5, <1>6, <1>7 DEF SetByOwnTypes

(* An event of another unit says nothing of this one.                      *)
LEMMA ToldOther ==
  ASSUME NEW log, NEW e, Appends(log, e), NEW n, e.node # n, NEW V, Told(V, log, n)
  PROVE  Told(V, Append(log, e), n)
<1> DEFINE new == Append(log, e)
<1>1. ReplayEvents(new, n) = ReplayEvents(log, n)
  BY OtherUnitsSame
<1>2. /\ InOrder(new, n) => InOrder(log, n)
      /\ Attrs(new, n) \subseteq Attrs(log, n)
      /\ Started(V, new, n)
      /\ SetByOwnTypes(new, n) => SetByOwnTypes(log, n)
  BY OrderKept, OwnTypesKept DEF Told
<1> HIDE DEF new
<1>3. InOrder(new, n) => ShowsSet(Attrs(new, n), ReplayEvents(log, n), V, n)
  BY <1>2, ShowsFewer DEF Told
<1>4. Told(V, new, n)
  BY <1>1, <1>2, <1>3 DEF Told
<1> QED
  BY <1>4 DEF new

LEMMA TouchKeepsRows ==
  ASSUME NEW V, NEW W, RowsOK(V), WellFormed(V), NEW e, NEW B, NEW A,
         Touch(V, W, e, B, A), NEW n \in Nodes, RowsOf(W, n) = {}
  PROVE  RowsOf(V, n) = {}
<1>1. SUFFICES ASSUME NEW v \in V, v.node = n
               PROVE  \E w \in W : w.node = n
  BY DEF RowsOf
<1>2. v.from \in Dates /\ Covers(v, v.from)
  BY <1>1, RowCoversItsStart
<1>3. ExistsAt(W, n, v.from)
  BY <1>1, <1>2 DEF ExistsAt, Touch
<1> QED
  BY <1>3 DEF ExistsAt

(***************************************************************************)
(* Applying an event of another unit cuts rows, and changes nothing that   *)
(* they show.                                                              *)
(***************************************************************************)
Replays(log, db0, x) ==
  /\ LogOK(log) /\ Good(db0)
  /\ x.node \in Nodes /\ x.date \in Dates /\ x.type \in BaseTypes
  /\ PayloadOK(x.payload) /\ Complete(x.type, x.payload) /\ Plain(x.type, x.payload)

LEMMA ReplaysGood ==
  ASSUME NEW log, NEW db0, NEW x, Replays(log, db0, x),
         NEW after \in Apply(log, db0, x.node, x.type, x.date, x.payload)
  PROVE  /\ Good(after) /\ RowsOK(db0.versions) /\ RowsOK(after.versions)
         /\ WellFormed(after.versions)
<1>1. Good(after)
  BY ApplyGood DEF Replays
<1> QED
  BY <1>1, GoodParts DEF Replays

LEMMA ToldElsewhere ==
  ASSUME NEW applied, NEW db0, NEW x, Replays(applied, db0, x),
         NEW after \in Apply(applied, db0, x.node, x.type, x.date, x.payload),
         NEW log, LogOK(log), LogFine(log),
         NEW n \in Nodes, n # x.node, Told(db0.versions, log, n),
         x.type # "CREATE" => CutDay(log, n, x.date)
  PROVE  Told(after.versions, log, n)
<1> DEFINE V == db0.versions
           W == after.versions
           R == ReplayEvents(log, n)
<1>1. Good(after) /\ RowsOK(V) /\ RowsOK(W)
  BY ReplaysGood
<1>2. /\ Attrs(log, n) \in SUBSET Attributes /\ {} \in SUBSET Attributes
      /\ ShowsSet({}, R, V, n)
      /\ InOrder(log, n) => ShowsSet(Attrs(log, n), R, V, n)
      /\ Lives(V, R, n) /\ Started(V, log, n)
      /\ SetByOwnTypes(log, n) => ShowsSet(Own, R, V, n)
      /\ Once(R) /\ Divided(V, R, n) /\ Own \in SUBSET Attributes
  BY DEF Attrs, Told, Own, Attributes
<1>3. \A y \in R : Dated(y)
  BY ReplayPlain
<1> HIDE DEF V, W, R
<1>4. CASE x.type = "CREATE"
  <2>1. Begins(V, W, x)
    BY <1>4, CreateBegins DEF Replays, V, W
  <2>2. /\ InOrder(log, n) => ShowsSet(Attrs(log, n), R, W, n)
        /\ SetByOwnTypes(log, n) => ShowsSet(Own, R, W, n)
        /\ ShowsSet({}, R, W, n)
        /\ Divided(W, R, n)
    BY <1>2, <2>1, BeginsOther, DividedBeginsOther
  <2>3. \A w \in W : w.node = n => \E v \in V : v.node = n /\ v.from = w.from
    BY <2>1 DEF Begins, SameRow, SameSpan
  <2>4. Started(W, log, n)
    BY <1>2, <2>3 DEF Started
  <2>5. \A v \in V : \E w \in W : SameSpan(w, v)
    BY <2>1 DEF Begins
  <2>6. RowsOf(W, n) = {} => RowsOf(V, n) = {}
    BY <2>5 DEF RowsOf, SameSpan
  <2>7. Lives(W, R, n)
    BY <1>2, <2>6 DEF Lives
  <2> QED
    BY <1>2, <2>2, <2>4, <2>7 DEF Told, W, R
<1>5. CASE x.type # "CREATE"
  <2>1. Asked(applied, db0, x, {})
    BY DEF Asked, Replays
  <2>2. Touch(V, W, x, {}, Effects(x))
    BY <1>5, <2>1, ApplyTouches DEF Replays, V, W
  <2>3. x.date \in Dates
    BY DEF Replays
  <2>4. /\ InOrder(log, n) => ShowsSet(Attrs(log, n), R, W, n)
        /\ SetByOwnTypes(log, n) => ShowsSet(Own, R, W, n)
        /\ ShowsSet({}, R, W, n)
    BY <1>1, <1>2, <2>2, <2>3, ShowsOther
  <2>5. Divided(W, R, n)
    BY <1>1, <1>2, <1>3, <2>2, DividedOther
  <2>6. \A w \in W : \E v \in V : Within(w, v, x.date)
    BY <2>2 DEF Touch
  <2>7. \A w \in W : w.node = n =>
          w.from = x.date \/ \E v \in V : v.node = n /\ v.from = w.from
    BY <2>6 DEF Within
  <2>8. Started(W, log, n)
    BY <1>2, <1>5, <2>7 DEF Started
  <2>9. RowsOf(W, n) = {} => RowsOf(V, n) = {}
    BY <1>1, <2>2, TouchKeepsRows DEF Replays, Good, V
  <2>10. Lives(W, R, n)
    BY <1>2, <2>9 DEF Lives
  <2> QED
    BY <1>2, <2>4, <2>8, <2>10, <2>5 DEF Told, W, R
<1> QED
  BY <1>4, <1>5

(***************************************************************************)
(* A base event of the unit.                                               *)
(***************************************************************************)
LEMMA OwnReplayed ==
  ASSUME NEW log, NEW db0, NEW x, Replays(log, db0, x), LogOK(log), Dated(x),
         x.type # "CREATE", \A a \in Own : a \in Effects(x) => x.type = TakesOver(a),
         NEW after \in Apply(log, db0, x.node, x.type, x.date, x.payload),
         SetByOwnTypes(log, x.node), Told(db0.versions, log, x.node),
         \A y \in ReplayEvents(log, x.node) : Dated(y) /\ y.id < x.id
  PROVE  ShowsSet(Own, ReplayEvents(log, x.node) \cup {x}, after.versions, x.node)
<1> DEFINE V == db0.versions
           W == after.versions
           R == ReplayEvents(log, x.node)
<1>1. /\ Good(db0) /\ x.node \in Nodes /\ x.date \in Dates
      /\ PayloadOK(x.payload) /\ Complete(x.type, x.payload) /\ Plain(x.type, x.payload)
      /\ x.type \in BaseTypes
  BY DEF Replays
<1>2. RowsOK(V) /\ RowsOK(W)
  BY ReplaysGood
<1>3. ShowsSet(Own, R, V, x.node) /\ Once(R) /\ Divided(V, R, x.node)
  BY DEF Told
<1>4. \A y \in R : Dated(y) /\ y.id < x.id
  OBVIOUS
<1> HIDE DEF V, W, R
<1>5. ASSUME NEW B \in SUBSET Own, B \cap Effects(x) = {}
       PROVE  ShowsSet(B, R \cup {x}, W, x.node)
  <2>1. Asked(log, db0, x, B)
    BY <1>1, <1>5 DEF Asked
  <2>2. Touch(V, W, x, B, Effects(x))
    BY <2>1, <1>1, ApplyTouches DEF V, W
  <2>3. B \in SUBSET Attributes
    BY DEF Own, Attributes
  <2>4. ShowsSet(B, R, V, x.node)
    BY <1>3, ShowsFewer
  <2> QED
    BY <2>2, <2>3, <2>4, <1>2, <1>1, <1>5, ShowsAside
<1>6. CASE Own \cap Effects(x) = {}
  <2>1. Own \in SUBSET Own
    OBVIOUS
  <2>2. ShowsSet(Own, R \cup {x}, W, x.node)
    BY <2>1, <1>5, <1>6
  <2> QED
    BY <2>2 DEF R, W
<1>7. CASE Own \cap Effects(x) # {}
  <2>1. PICK a \in Own : a \in Effects(x) /\ x.type = TakesOver(a)
    BY <1>7
  <2> DEFINE stop == StopDate(log, x.node, TakesOver(a), x.date)
             B == Own \ {a}
  <2>2. /\ Writes(V, W, x, a, stop) /\ ExistsAt(V, x.node, x.date) /\ Effects(x) = {a}
    <3>1. after \in Apply(log, db0, x.node, x.type, x.date, x.payload)
      OBVIOUS
    <3>2. /\ Writes(V, W, x, a, StopDate(log, x.node, x.type, x.date))
          /\ ExistsAt(V, x.node, x.date) /\ Effects(x) = {a}
      BY <2>1, <3>1, <1>1, ApplyWrites DEF V, W
    <3> QED
      BY <2>1, <3>2
  <2>3. ShowsSet(B, R \cup {x}, W, x.node)
    BY <2>2, <1>5
  <2>4. stop \in Int /\ x.date < stop
    BY <1>1, StopDateOK
  <2>5. ASSUME NEW y \in R, a \in Effects(y)
        PROVE  y.date <= x.date \/ stop <= y.date
    <3>1. CASE y.type = "CREATE"
      <4>1. PICK z \in R : z.type = "CREATE" /\ z.date <= x.date
        BY <2>2, <1>1, <1>3 DEF ShowsSet
      <4> QED
        BY <3>1, <4>1, <1>3 DEF Once
    <3>2. CASE y.type # "CREATE"
      <4>1. /\ y.id \in EffectiveIds(log, x.node) /\ y.date = EffectiveDate(log, y.id)
            /\ EffectiveType(log, y.id) = TakesOver(a)
        BY <3>2, <2>5, <1>1, SettersTakeOver DEF R
      <4> QED
        BY <4>1, <1>1, StopIsDate
    <3> QED
      BY <3>1, <3>2
  <2>6. stop # Infinity => \E y \in R : a \in Effects(y) /\ y.date = stop
    <3>1. SUFFICES ASSUME stop # Infinity
                   PROVE  \E y \in R : a \in Effects(y) /\ y.date = stop
      OBVIOUS
    <3>2. PICK i \in EffectiveIds(log, x.node) :
            EffectiveType(log, i) = TakesOver(a) /\ EffectiveDate(log, i) = stop
      BY <3>1, <1>1, StopIsDate
    <3> HIDE DEF stop
    <3> QED
      BY <3>2, <1>1, TakesOverSets DEF R
  <2>7. ShowsSet({a}, R, V, x.node) /\ a \in Attributes
    BY <1>3, ShowsFewer DEF Own, Attributes
  <2> HIDE DEF stop
  <2>8. \A day \in Dates : \A w \in W :
          w.node = x.node /\ Covers(w, day) =>
            Column(a, w) = History(a, Setters(a, R \cup {x}), day)
    <3> HIDE DEF B
    <3>1. \A y \in R : a \in Effects(y) => y.date <= x.date \/ stop <= y.date
      BY <2>5
    <3>2. RowsOK(V) /\ Divided(V, R, x.node) /\ Writes(V, W, x, a, stop)
      BY <1>2, <1>3, <2>2
    <3>3. Backdates(V, W, x, a, stop, R)
      BY <3>1, <3>2, <1>4, <2>1, <2>4, <2>6, <2>7 DEF Backdates
    <3> QED
      BY <3>3, BackdatedShows
  <2>9. \A c \in Own : c = a \/ c \in B
    OBVIOUS
  <2> HIDE DEF B
  <2> QED
    <3>1. \A day \in Dates :
             ExistsAt(W, x.node, day) <=> \E y \in R \cup {x} : y.type = "CREATE" /\ y.date <= day
      BY <2>3 DEF ShowsSet
    <3>2. ShowsSet(Own, R \cup {x}, W, x.node)
      BY <3>1, <2>3, <2>8, <2>9 DEF ShowsSet
    <3> QED
      BY <3>2 DEF R, W
<1> QED
  BY <1>6, <1>7

LEMMA OwnShown ==
  ASSUME NEW log, NEW e, Appends(log, e), BaseShape(e), LogFine(Append(log, e)),
         LogOK(Append(log, e)),
         NEW x, x = [id |-> Len(log) + 1, node |-> e.node, type |-> e.type,
                     date |-> e.date, payload |-> e.payload],
         NEW db0, Replays(log, db0, x),
         NEW after \in Apply(log, db0, x.node, x.type, x.date, x.payload),
         Told(db0.versions, log, e.node), x.type # "CREATE",
         SetByOwnTypes(Append(log, e), e.node)
  PROVE  ShowsSet(Own, ReplayEvents(log, e.node) \cup {x}, after.versions, e.node)
<1> DEFINE n == e.node
           new == Append(log, e)
           R == ReplayEvents(log, n)
<1>1. /\ LogOK(log) /\ LogFine(log) /\ Len(log) \in Nat /\ DOMAIN log = 1 .. Len(log)
      /\ new[Len(log) + 1] = e
  BY LogShape, AppendShape DEF Appends
<1>2. /\ x.id = Len(log) + 1 /\ x.node = n /\ x.type = e.type /\ x.date = e.date
      /\ x.payload = e.payload /\ x.date \in Dates /\ n \in Nodes /\ Dated(x)
  BY <1>1 DEF Replays, Dated
<1>3. SetByOwnTypes(log, n)
  BY OwnTypesKept
<1>4. x \in ReplayEvents(new, n)
  BY BaseAppended
<1>5. \A y \in R : Dated(y) /\ y.id \in EffectiveIds(log, n)
  BY <1>1, ReplayPlain
<1>6. \A y \in R : Dated(y) /\ y.id < x.id
  BY <1>1, <1>2, <1>5 DEF EffectiveIds
<1> HIDE DEF n, new, R
<1>7. ASSUME NEW a \in Own, a \in Effects(x)
       PROVE  x.type = TakesOver(a)
  <2>1. EffectiveType(new, x.id) = TakesOver(a)
    BY <1>4, <1>7, SettersTakeOver DEF n, new
  <2> QED
    BY <2>1, <1>1, <1>2 DEF EffectiveType, TakesOver
<1>8. \A a \in Own : a \in Effects(x) => x.type = TakesOver(a)
  BY <1>7
<1> QED
  <2>1. x.node = e.node
    BY <1>2 DEF n
  <2>2. /\ SetByOwnTypes(log, x.node) /\ Told(db0.versions, log, x.node)
        /\ \A y \in ReplayEvents(log, x.node) : Dated(y) /\ y.id < x.id
    BY <2>1, <1>3, <1>6 DEF n, R
  <2>3. ShowsSet(Own, ReplayEvents(log, x.node) \cup {x}, after.versions, x.node)
    BY <2>2, <1>1, <1>2, <1>8, OwnReplayed, ZenonT(60)
  <2> QED
    BY <2>1, <2>3

LEMMA ToldBase ==
  ASSUME NEW log, NEW e, Appends(log, e), BaseShape(e), LogFine(Append(log, e)),
         LogOK(Append(log, e)),
         NEW x, x = [id |-> Len(log) + 1, node |-> e.node, type |-> e.type,
                     date |-> e.date, payload |-> e.payload],
         NEW db0, Replays(log, db0, x),
         NEW after \in Apply(log, db0, x.node, x.type, x.date, x.payload),
         Told(db0.versions, log, e.node)
  PROVE  Told(after.versions, Append(log, e), e.node)
<1> DEFINE n == e.node
           new == Append(log, e)
           V == db0.versions
           W == after.versions
           R == ReplayEvents(log, n)
           B == IF InOrder(new, n) THEN Attrs(new, n) ELSE {}
<1>1. /\ LogOK(log) /\ LogFine(log) /\ Len(log) \in Nat /\ DOMAIN log = 1 .. Len(log)
      /\ Len(new) = Len(log) + 1 /\ DOMAIN new = 1 .. (Len(log) + 1)
      /\ new[Len(log) + 1] = e /\ \A i \in DOMAIN log : new[i] = log[i]
  BY LogShape, AppendShape DEF Appends
<1>2. /\ Good(after) /\ RowsOK(V) /\ RowsOK(W) /\ WellFormed(W) /\ WellFormed(V)
  BY ReplaysGood DEF Replays, Good
<1>3. /\ x.id = Len(log) + 1 /\ x.node = n /\ x.type = e.type /\ x.date = e.date
      /\ x.payload = e.payload /\ x.date \in Dates /\ n \in Nodes
  BY DEF Replays
<1>4. /\ InOrder(log, n) => ShowsSet(Attrs(log, n), R, V, n)
      /\ ShowsSet({}, R, V, n)
      /\ Lives(V, R, n) /\ Started(V, log, n)
      /\ Once(R) /\ Divided(V, R, n)
  BY DEF Told
<1>5. ReplayEvents(new, n) = R \cup {x}
  BY BaseAppended
<1>6. /\ LastFix(new, n) = LastFix(log, n) /\ LastFix(log, n) \in Nat
      /\ LastFix(log, n) <= Len(log)
      /\ InOrder(new, n) => InOrder(log, n)
      /\ Attrs(new, n) \subseteq Attrs(log, n)
      /\ \A i \in EffectiveIds(log, n) :
              /\ i \in EffectiveIds(new, n)
              /\ EffectiveDate(new, i) = EffectiveDate(log, i)
      /\ Started(V, new, n)
  BY <1>1, <1>4, OrderKept, LastFixNat
<1>7. x.id \in EffectiveIds(new, n) /\ x.date = EffectiveDate(new, x.id)
  BY <1>5, ReplayPlain
<1>8. EffectiveIds(log, n) \subseteq DOMAIN log
  BY DEF EffectiveIds
<1>9. \A y \in R : Dated(y) /\ y.id \in EffectiveIds(log, n)
                   /\ y.date = EffectiveDate(log, y.id)
  BY <1>1, ReplayPlain
<1>10. /\ Attrs(new, n) \in SUBSET Attributes /\ Own \in SUBSET Attributes
       /\ {} \in SUBSET Attributes
  BY DEF Attrs, Own, Attributes
<1>11. x.type # "CREATE" /\ SetByOwnTypes(new, n) => ShowsSet(Own, R \cup {x}, W, n)
  BY OwnShown
<1> HIDE DEF n, new, V, W, R
<1>12. InOrder(new, n) => Quiet(log, n, x.date)
  <2>1. SUFFICES ASSUME InOrder(new, n), NEW i \in EffectiveIds(log, n)
                 PROVE  EffectiveDate(log, i) <= x.date
    BY DEF Quiet
  <2>2. /\ Len(log) + 1 \in (LastFix(new, n) + 1) .. Len(new)
        /\ new[Len(log) + 1].node = n /\ i < Len(log) + 1
    BY <1>1, <1>6, <1>8 DEF n
  <2> QED
    BY <2>1, <2>2, <1>1, <1>3, <1>6 DEF InOrder
<1>13. InOrder(new, n) => Follows(x, R)
  <2>1. SUFFICES ASSUME InOrder(new, n), NEW y \in R
                 PROVE  Before(y, x) /\ x.id # y.id
    BY <1>1, <1>3, <1>9 DEF Follows, Dated
  <2>2. y.date <= x.date /\ y.id \in 1 .. Len(log)
    BY <2>1, <1>1, <1>8, <1>9, <1>12 DEF Quiet
  <2>3. y.date \in Int /\ x.date \in Int
    BY <1>3, <1>9, DatesAreInts DEF Dated
  <2> QED
    BY <2>2, <2>3, <1>1, <1>3 DEF Before
<1>14. ASSUME InOrder(new, n), MovesInOrder(new, n), Moves(e)
       PROVE  Clear(V, n, x.date)
  <2>1. SUFFICES ASSUME NEW v \in V, v.node = n
                 PROVE  v.from <= x.date
    BY DEF Clear
  <2>2. CASE \E i \in EffectiveIds(log, n) : v.from = EffectiveDate(log, i)
    BY <2>2, <1>12, <1>14 DEF Quiet
  <2>3. CASE CutDay(log, n, v.from)
    <3>1. PICK k \in DOMAIN log : /\ log[k].node # n /\ log[k].type # "CREATE"
                                  /\ v.from \in DaysOf(log[k])
      BY <2>3 DEF CutDay
    <3>2. /\ Len(log) + 1 \in (LastFix(new, n) + 1) .. Len(new)
          /\ new[Len(log) + 1].node = n /\ Moves(new[Len(log) + 1])
          /\ k \in 1 .. (Len(log) + 1 - 1) /\ new[k] = log[k]
      BY <1>1, <1>6, <1>14 DEF n
    <3> QED
      BY <3>1, <3>2, <1>1, <1>3, <1>14 DEF MovesInOrder
  <2> QED
    BY <2>1, <2>2, <2>3, <1>4 DEF Started
<1>15. CASE x.type = "CREATE"
  <2>1. Begins(V, W, x)
    BY <1>15, CreateBegins DEF Replays, V, W
  <2>2. Dated(x) /\ Lives(V, R, x.node) /\ RowsOf(V, x.node) = {}
    BY <2>1, <1>1, <1>3, <1>4 DEF Dated, Begins
  <2>3. ShowsSet(Attributes, R \cup {x}, W, n)
    BY <2>1, <2>2, <1>3, <1>15, BeginsShows
  <2>4. /\ ShowsSet(Attrs(new, n), R \cup {x}, W, n) /\ ShowsSet(Own, R \cup {x}, W, n)
        /\ ShowsSet({}, R \cup {x}, W, n)
    BY <2>3, <1>10, ShowsFewer
  <2>5. Divided(W, R \cup {x}, n) /\ Once(R \cup {x})
    BY <2>1, <2>2, <1>3, DividedBegins
  <2>6. \A w \in W : w.node = n => w.from = x.date
    BY <2>1, <1>3 DEF Begins
  <2>7. Started(W, new, n)
    BY <2>6, <1>7 DEF Started
  <2>8. RowsOf(W, n) # {}
    BY <2>1, <1>3 DEF Begins, RowsOf
  <2>9. Lives(W, R \cup {x}, n)
    BY <2>8 DEF Lives
  <2>10. Told(W, new, n)
    BY <2>7, <2>9, <2>4, <2>5, <1>5 DEF Told
  <2> QED
    BY <2>10 DEF W, new, n
<1>16. CASE x.type # "CREATE"
  <2>1. Asked(log, db0, x, B)
    <3>1. /\ LogOK(log) /\ Good(db0) /\ x.node \in Nodes /\ x.date \in Dates
          /\ PayloadOK(x.payload) /\ Complete(x.type, x.payload) /\ Plain(x.type, x.payload)
      BY DEF Replays
    <3>2. "parent" \in Effects(x) => Moves(e)
      BY <1>3, <1>16 DEF Effects, SetterTypes, SetByUpdate, Moves
    <3>3. "parent" \in B => InOrder(new, n) /\ MovesInOrder(new, n)
      BY DEF Attrs
    <3>4. B \cap Effects(x) = {} \/ Quiet(log, x.node, x.date)
      BY <1>3, <1>12
    <3>5. "parent" \in B /\ "parent" \in Effects(x) => Clear(V, x.node, x.date)
      BY <3>2, <3>3, <1>3, <1>14
    <3> QED
      BY <3>1, <3>4, <3>5 DEF Asked, V
  <2>2. /\ Touch(V, W, x, B, Effects(x))
        /\ Effects(x) # {} => ExistsAt(V, n, x.date)
    BY <2>1, <1>3, <1>16, ApplyTouches DEF Replays, V, W
  <2>3. B \in SUBSET Attributes
    BY <1>10
  <2>4. InOrder(new, n) => ShowsSet(Attrs(new, n), R \cup {x}, W, n)
    <3>1. SUFFICES ASSUME InOrder(new, n)
                   PROVE  ShowsSet(B, R \cup {x}, W, n)
      OBVIOUS
    <3>2. ShowsSet(B, R, V, n) /\ Follows(x, R)
      BY <3>1, <1>4, <1>6, <1>13, ShowsFewer
    <3> HIDE DEF B
    <3> QED
      BY <3>2, <2>2, <2>3, <1>2, <1>3, <1>16, ShowsNext
  <2> HIDE DEF B
  <2>5. \A w \in W : \E v \in V : Within(w, v, x.date)
    BY <2>2 DEF Touch
  <2>6. \A w \in W : w.node = n =>
          w.from = x.date \/ \E v \in V : v.node = n /\ v.from = w.from
    BY <2>5 DEF Within
  <2>7. Started(W, new, n)
    BY <2>6, <1>6, <1>7 DEF Started
  <2>8. Lives(W, R \cup {x}, n)
    <3>1. SUFFICES ASSUME RowsOf(W, n) = {}, NEW y \in R \cup {x}
                   PROVE  Effects(y) = {}
      BY DEF Lives
    <3>2. RowsOf(V, n) = {}
      BY <3>1, <2>2, <1>2, <1>3, TouchKeepsRows
    <3>3. Effects(x) = {}
      BY <3>2, <2>2 DEF ExistsAt, RowsOf
    <3> QED
      BY <3>1, <3>2, <3>3, <1>4 DEF Lives
  <2>9. Divided(W, R \cup {x}, n) /\ Once(R \cup {x})
    BY <2>2, <1>2, <1>3, <1>4, <1>9, <1>16, DividedNext
  <2>10. ShowsSet({}, R \cup {x}, W, n)
    <3>1. Asked(log, db0, x, {})
      BY DEF Asked, Replays
    <3>2. Touch(V, W, x, {}, Effects(x))
      BY <3>1, <1>16, ApplyTouches DEF Replays, V, W
    <3> QED
      BY <3>2, <1>2, <1>3, <1>4, <1>10, <1>16, ShowsAside
  <2>11. Told(W, new, n)
    BY <2>4, <2>7, <2>8, <2>9, <2>10, <1>5, <1>16, <1>11 DEF Told
  <2> QED
    BY <2>11 DEF W, new, n
<1> QED
  BY <1>15, <1>16

(***************************************************************************)
(* A rebuild of a unit: the events replayed so far are the first ones, and *)
(* the unit shows the history that they tell, whole.                       *)
(***************************************************************************)
Partly(V, R, todo, n) ==
  /\ todo \subseteq R
  /\ \A x \in R \ todo, y \in todo : Before(x, y)
  /\ ShowsSet(Attributes, R \ todo, V, n)
  /\ Lives(V, R \ todo, n)
  /\ Once(R \ todo)
  /\ Divided(V, R \ todo, n)
  /\ \A v \in V : v.node = n => \E x \in R \ todo : v.from = x.date

LEMMA PartlyStarts ==
  ASSUME NEW V, NEW n, NEW R
  PROVE  Partly(V \ RowsOf(V, n), R, R, n)
<1> DEFINE W == V \ RowsOf(V, n)
<1>1. \A w \in W : w.node # n
  BY DEF RowsOf
<1> HIDE DEF W
<1>2. R \ R = {}
  OBVIOUS
<1>3. ShowsSet(Attributes, {}, W, n)
  BY <1>1 DEF ShowsSet, ExistsAt
<1>4. Lives(W, {}, n) /\ Once({}) /\ Divided(W, {}, n)
  BY DEF Lives, Once, Divided
<1>5. Partly(W, R, R, n)
  BY <1>1, <1>2, <1>3, <1>4 DEF Partly
<1> QED
  BY <1>5 DEF W

LEMMA PartlyNext ==
  ASSUME NEW applied, NEW db0, NEW y, Replays(applied, db0, y),
         NEW after \in Apply(applied, db0, y.node, y.type, y.date, y.payload),
         NEW R, NEW todo, Partly(db0.versions, R, todo, y.node),
         \A x \in R : Dated(x), \A x, z \in R : x.id = z.id => x = z,
         IsFirst(y, todo)
  PROVE  Partly(after.versions, R, todo \ {y}, y.node)
<1> DEFINE n == y.node
           V == db0.versions
           W == after.versions
           D == R \ todo
<1>1. /\ RowsOK(V) /\ RowsOK(W) /\ WellFormed(W) /\ WellFormed(V)
  BY ReplaysGood DEF Replays, Good
<1>2. /\ y \in todo /\ todo \subseteq R /\ \A z \in todo : Before(y, z)
      /\ \A x \in D, z \in todo : Before(x, z)
      /\ ShowsSet(Attributes, D, V, n) /\ Lives(V, D, n)
      /\ Once(D) /\ Divided(V, D, n) /\ \A x \in D : Dated(x)
      /\ \A v \in V : v.node = n => \E x \in D : v.from = x.date
  BY DEF Partly, IsFirst
<1>3. R \ (todo \ {y}) = D \cup {y}
  BY <1>2
<1>4. Follows(y, D)
  BY <1>2 DEF Follows
<1>5. n \in Nodes
  BY DEF Replays
<1> HIDE DEF V, W, D, n
<1>6. Clear(V, n, y.date)
  <2>1. ASSUME NEW x \in D
        PROVE  x.date <= y.date
    <3>1. x.date \in Int /\ y.date \in Int /\ Before(x, y)
      BY <1>4, DatesAreInts DEF Follows, Dated
    <3> QED
      BY <3>1 DEF Before
  <2> QED
    BY <1>2, <2>1 DEF Clear
<1>7. /\ ShowsSet(Attributes, D \cup {y}, W, n)
      /\ Lives(W, D \cup {y}, n)
      /\ Divided(W, D \cup {y}, n) /\ Once(D \cup {y})
      /\ \A w \in W : w.node = n => \E x \in D \cup {y} : w.from = x.date
  <2>1. CASE y.type = "CREATE"
    <3>1. Begins(V, W, y)
      BY <2>1, CreateBegins DEF Replays, V, W
    <3>2. /\ ShowsSet(Attributes, D \cup {y}, W, n)
          /\ Divided(W, D \cup {y}, n) /\ Once(D \cup {y})
      BY <3>1, <2>1, <1>2, <1>4, BeginsShows, DividedBegins DEF n, Follows
    <3>3. RowsOf(W, n) # {}
      BY <3>1 DEF Begins, RowsOf, n
    <3>4. \A w \in W : w.node = n => w.from = y.date
      BY <3>1 DEF Begins, n
    <3> QED
      BY <3>2, <3>3, <3>4 DEF Lives
  <2>2. CASE y.type # "CREATE"
    <3>1. Asked(applied, db0, y, Attributes)
      BY <1>6 DEF Asked, Replays, V, n
    <3>2. /\ Touch(V, W, y, Attributes, Effects(y))
          /\ Effects(y) # {} => ExistsAt(V, n, y.date)
      BY <2>2, <3>1, ApplyTouches DEF Replays, V, W, n
    <3>3. ShowsSet(Attributes, D \cup {y}, W, n)
      BY <3>2, <2>2, <1>1, <1>2, <1>4, <1>5, ShowsNext DEF n
    <3>4. Divided(W, D \cup {y}, n) /\ Once(D \cup {y})
      BY <3>2, <2>2, <1>1, <1>2, DividedNext DEF n
    <3>5. Lives(W, D \cup {y}, n)
      <4>1. SUFFICES ASSUME RowsOf(W, n) = {}, NEW x \in D \cup {y}
                     PROVE  Effects(x) = {}
        BY DEF Lives
      <4>2. RowsOf(V, n) = {}
        BY <4>1, <3>2, <1>1, <1>5, TouchKeepsRows
      <4>3. Effects(y) = {}
        BY <4>2, <3>2 DEF ExistsAt, RowsOf
      <4> QED
        BY <4>1, <4>2, <4>3, <1>2 DEF Lives
    <3>6. \A w \in W : \E v \in V : Within(w, v, y.date)
      BY <3>2 DEF Touch
    <3>7. \A w \in W : w.node = n =>
            w.from = y.date \/ \E v \in V : v.node = n /\ v.from = w.from
      BY <3>6 DEF Within
    <3>8. \A w \in W : w.node = n => \E x \in D \cup {y} : w.from = x.date
      BY <3>7, <1>2
    <3> QED
      BY <3>3, <3>5, <3>8, <3>4
  <2> QED
    BY <2>1, <2>2
<1>8. \A x \in D \cup {y}, z \in todo \ {y} : Before(x, z)
  BY <1>2
<1> QED
  BY <1>2, <1>3, <1>7, <1>8 DEF Partly, W, n

(* A rebuild that has replayed everything tells the whole log.             *)
LEMMA PartlyEnds ==
  ASSUME NEW log, LogOK(log), LogFine(log), NEW V, NEW n,
         Partly(V, ReplayEvents(log, n), {}, n)
  PROVE  Told(V, log, n)
<1> DEFINE R == ReplayEvents(log, n)
<1>1. R \ {} = R
  OBVIOUS
<1>2. /\ ShowsSet(Attributes, R, V, n) /\ Lives(V, R, n)
      /\ Once(R) /\ Divided(V, R, n)
      /\ \A v \in V : v.node = n => \E x \in R : v.from = x.date
  BY <1>1 DEF Partly
<1>3. \A x \in R : x.id \in EffectiveIds(log, n) /\ x.date = EffectiveDate(log, x.id)
  BY ReplayPlain
<1> HIDE DEF R
<1>4. Started(V, log, n)
  BY <1>2, <1>3 DEF Started
<1>5. Attrs(log, n) \subseteq Attributes /\ Own \subseteq Attributes /\ {} \subseteq Attributes
  BY DEF Attrs, Own, Attributes
<1>6. /\ ShowsSet(Attrs(log, n), R, V, n) /\ ShowsSet(Own, R, V, n)
      /\ ShowsSet({}, R, V, n)
  BY <1>2, <1>5, ShowsFewer
<1> QED
  BY <1>2, <1>4, <1>6 DEF Told, R

LEMMA ReplayIdsDiffer ==
  ASSUME NEW log, NEW n, NEW x \in ReplayEvents(log, n), NEW z \in ReplayEvents(log, n),
         x.id = z.id
  PROVE  x = z
<1>1. PICK i \in EffectiveIds(log, n) : x = Reading(log, n, i)
  BY DEF ReplayEvents, Reading
<1>2. PICK j \in EffectiveIds(log, n) : z = Reading(log, n, j)
  BY DEF ReplayEvents, Reading
<1>3. x.id = i /\ z.id = j
  BY <1>1, <1>2 DEF Reading
<1> QED
  BY <1>1, <1>2, <1>3

(* The day of a replayed event is one that the log names.                  *)
LEMMA ReplayDay ==
  ASSUME NEW log, LogOK(log), LogFine(log), NEW m, NEW x \in ReplayEvents(log, m),
         x.type # "CREATE", NEW n, n # m
  PROVE  CutDay(log, n, x.date)
<1> DEFINE i == x.id
<1>1. /\ i \in EffectiveIds(log, m) /\ x.date = EffectiveDate(log, i)
      /\ log[i].type # "CREATE"
  BY ReplayPlain
<1> HIDE DEF i
<1>2. i \in DOMAIN log /\ log[i].node = m
  BY <1>1 DEF EffectiveIds
<1>3. CASE DateCorrections(log, i) = {}
  <2>1. x.date \in DaysOf(log[i])
    BY <1>1, <1>3 DEF EffectiveDate, DaysOf
  <2> QED
    BY <2>1, <1>1, <1>2 DEF CutDay
<1>4. CASE DateCorrections(log, i) # {}
  <2> DEFINE k == Latest(log, DateCorrections(log, i))
  <2>1. DateCorrections(log, i) \in SUBSET (DOMAIN log)
    BY DEF DateCorrections, CorrectionsOf
  <2>2. k \in DateCorrections(log, i)
    BY <2>1, <1>4, LatestExists
  <2>3. x.date = log[k].payload["effective_date"]
    BY <1>1, <1>4 DEF EffectiveDate
  <2> HIDE DEF k
  <2>4. /\ k \in DOMAIN log /\ log[k].target = i /\ log[k].type = "CORRECT_EVENT"
        /\ Carries(log[k].payload, "effective_date")
    BY <2>2 DEF DateCorrections, CorrectionsOf
  <2>5. FixShape(log[k], log)
    BY <2>4 DEF LogFine, BaseShape, BaseTypes
  <2>6. log[k].node = m
    BY <2>4, <2>5, <1>2 DEF FixShape
  <2>7. x.date \in DaysOf(log[k])
    BY <2>3, <2>4 DEF DaysOf
  <2> QED
    BY <2>4, <2>6, <2>7 DEF CutDay
<1> QED
  BY <1>3, <1>4

(* A rebuild of another unit first takes that unit's rows away.            *)
LEMMA ToldWithout ==
  ASSUME NEW V, NEW log, NEW n, NEW m, n # m, Told(V, log, n)
  PROVE  Told(V \ RowsOf(V, m), log, n)
<1> DEFINE W == V \ RowsOf(V, m)
<1>1. W \subseteq V /\ \A v \in V : v.node = n => v \in W
  BY DEF RowsOf
<1> HIDE DEF W
<1>2. RowsOf(W, n) = RowsOf(V, n)
  BY <1>1 DEF RowsOf
<1>3. \A day : ExistsAt(W, n, day) <=> ExistsAt(V, n, day)
  BY <1>1 DEF ExistsAt
<1>4. \A A, R : ShowsSet(A, R, V, n) => ShowsSet(A, R, W, n)
  BY <1>1, <1>3 DEF ShowsSet
<1>5. Lives(W, ReplayEvents(log, n), n)
  BY <1>2 DEF Told, Lives
<1>6. Started(W, log, n)
  BY <1>1 DEF Told, Started
<1>7. Divided(W, ReplayEvents(log, n), n)
  BY <1>1 DEF Told, Divided
<1>8. Told(W, log, n)
  BY <1>4, <1>5, <1>6, <1>7 DEF Told
<1> QED
  BY <1>8 DEF W

(***************************************************************************)
(* The invariant: readers see a projection that tells its log, and an open *)
(* rebuild one that tells it of the other units, and of its own unit as    *)
(* far as it has come.                                                     *)
(***************************************************************************)
Replaying ==
  txn.open =>
    LET log == Append(events, txn.pending)
        m == txn.pending.node
    IN  /\ \A n \in Nodes \ {m} : Told(db.versions, log, n)
        /\ Partly(db.versions, ReplayEvents(log, m), txn.todo, m)

HistoryInv ==
  /\ FineInv
  /\ \A n \in Nodes : Told(Committed.versions, CommittedLog, n)
  /\ Replaying

LEMMA PendingAppends ==
  ASSUME FineInv, txn.open
  PROVE  /\ Appends(events, txn.pending)
         /\ LogOK(Append(events, txn.pending)) /\ LogFine(Append(events, txn.pending))
<1>1. /\ LogOK(events) /\ LogFine(events) /\ EventOK(txn.pending)
      /\ txn.pending.target <= Len(events)
      /\ FixShape(txn.pending, events) /\ ~HasRescind(events, txn.pending.target)
  BY DEF FineInv, LedgerInv, KernelInv, TxnOK, PendingFine
<1>2. txn.pending.target \in Nat
  BY <1>1 DEF EventOK
<1> QED
  BY <1>1, <1>2, AppendFine, AppendOK DEF Appends

(* The head of a rebuild.                                                  *)
LEMMA StartReplaying ==
  ASSUME NEW log, NEW pending, Appends(log, pending), Good(db),
         NEW t, DOMAIN t = TxnFields, StartRebuild(t, log, pending), events' = log,
         \A n \in Nodes \ {pending.node} : Told(db.versions, log, n)
  PROVE  Replaying' /\ txn'.saved = t.saved /\ txn'.savedEvents = t.savedEvents /\ txn'.open
<1> DEFINE m == pending.node
           new == Append(log, pending)
           R == ReplayEvents(new, m)
           V == db.versions
<1>1. /\ txn'.open /\ txn'.pending = pending
      /\ txn'.savedEvents = t.savedEvents /\ txn'.saved = t.saved
  BY StartRebuildOK DEF Appends
<1>2. txn'.todo = R /\ db' = WithoutNode(db, m)
  BY DEF StartRebuild, TxnFields
<1>3. db'.versions = V \ RowsOf(V, m)
  BY <1>2 DEF WithoutNode
<1>4. Append(events', txn'.pending) = new
  BY <1>1
<1>5. ASSUME NEW n \in Nodes \ {m}
      PROVE  Told(V \ RowsOf(V, m), new, n)
  BY <1>5, ToldOther, ToldWithout
<1>6. Partly(V \ RowsOf(V, m), R, R, m)
  BY PartlyStarts
<1> HIDE DEF V, R, new
<1>7. Replaying'
  BY <1>1, <1>2, <1>3, <1>4, <1>5, <1>6 DEF Replaying, R
<1> QED
  BY <1>1, <1>7

LEMMA SubmitBaseHistory ==
  ASSUME HistoryInv, FineInv', SubmitBase
  PROVE  HistoryInv'
<1>1. PICK node, type, d, payload, e : Submits(node, type, d, payload, e)
  BY SubmitBaseWrites DEF HistoryInv, FineInv, LedgerInv
<1>2. ~txn.open /\ txn' = txn
  BY SubmitBaseWrites DEF HistoryInv, FineInv, LedgerInv
<1> DEFINE x == [id |-> Len(events) + 1, node |-> e.node, type |-> e.type,
                 date |-> e.date, payload |-> e.payload]
<1>3. /\ LogOK(events) /\ LogFine(events) /\ Good(db) /\ LogOK(events') /\ LogFine(events')
  BY DEF HistoryInv, FineInv, LedgerInv, KernelInv
<1>4. /\ BaseShape(e) /\ EventOK(e) /\ events' = Append(events, e) /\ e.target = 0
      /\ db' \in Apply(events, db, e.node, e.type, e.date, e.payload)
  BY <1>1 DEF Submits, BaseShape, NoTarget
<1>5. Appends(events, e)
  BY <1>3, <1>4, LogShape DEF Appends
<1>6. Replays(events, db, x)
  BY <1>1, <1>3 DEF Replays, Submits
<1>7. /\ x.id = Len(events) + 1 /\ x.node = e.node /\ x.type = e.type
      /\ x.date = e.date /\ x.payload = e.payload
  OBVIOUS
<1>8. \A n \in Nodes : Told(db.versions, events, n)
  BY <1>2 DEF HistoryInv, Committed, CommittedLog
<1>9. e.node \in Nodes
  BY <1>4 DEF EventOK
<1>10. x = [id |-> Len(events) + 1, node |-> e.node, type |-> e.type,
            date |-> e.date, payload |-> e.payload]
  OBVIOUS
<1>11. db' \in Apply(events, db, x.node, x.type, x.date, x.payload)
  BY <1>4, <1>7
<1> HIDE DEF x
<1>12. Told(db'.versions, Append(events, e), e.node)
  BY <1>3, <1>4, <1>5, <1>6, <1>8, <1>9, <1>10, <1>11, ToldBase
<1>13. ASSUME NEW n \in Nodes, n # e.node
       PROVE  Told(db'.versions, Append(events, e), n)
  <2>1. Told(db.versions, Append(events, e), n)
    BY <1>5, <1>8, <1>13, ToldOther
  <2>2. x.type # "CREATE" => CutDay(Append(events, e), n, x.date)
    <3>1. /\ Len(events) + 1 \in DOMAIN Append(events, e)
          /\ Append(events, e)[Len(events) + 1] = e
      BY <1>3, LogShape, AppendShape
    <3> QED
      BY <3>1, <1>7, <1>13 DEF CutDay, DaysOf
  <2> QED
    BY <2>1, <2>2, <1>3, <1>4, <1>6, <1>7, <1>11, <1>13, ToldElsewhere
<1>14. \A n \in Nodes : Told(db'.versions, events', n)
  BY <1>4, <1>12, <1>13
<1> QED
  BY <1>2, <1>14 DEF HistoryInv, Replaying, Committed, CommittedLog

LEMMA BeginRebuildHistory ==
  ASSUME HistoryInv, FineInv', LockFree, NEW pending, NEW batch,
         RebuildBegins(pending, batch)
  PROVE  HistoryInv'
<1> DEFINE t == [NoTxn EXCEPT !.batch = batch, !.savedEvents = events, !.saved = db]
<1>1. DOMAIN t = TxnFields /\ t.savedEvents = events /\ t.saved = db
  BY DEF NoTxn, TxnFields
<1>2. StartRebuild(t, events, pending) /\ events' = events
  BY DEF RebuildBegins, BeginRebuild
<1> HIDE DEF t
<1>3. /\ LogOK(events) /\ LogFine(events) /\ Good(db)
      /\ EventOK(pending) /\ pending.target <= Len(events)
      /\ FixShape(pending, events)
  BY DEF HistoryInv, FineInv, LedgerInv, KernelInv, RebuildBegins, FixOK, FixShape
<1>4. Appends(events, pending)
  BY <1>3 DEF Appends
<1>5. \A n \in Nodes : Told(db.versions, events, n)
  BY DEF LockFree, HistoryInv, Committed, CommittedLog
<1>6. Replaying' /\ txn'.saved = db /\ txn'.savedEvents = events /\ txn'.open
  BY <1>1, <1>2, <1>3, <1>4, <1>5, StartReplaying
<1> QED
  BY <1>5, <1>6 DEF HistoryInv, Committed, CommittedLog

LEMMA ReplayStepHistory ==
  ASSUME HistoryInv, FineInv', ReplayStep
  PROVE  HistoryInv'
<1> DEFINE log == Append(events, txn.pending)
           m == txn.pending.node
           R == ReplayEvents(log, m)
<1>1. PICK y \in txn.todo :
        /\ IsFirst(y, txn.todo)
        /\ db' \in Apply(events, db, y.node, y.type, y.date, y.payload)
        /\ txn' = [txn EXCEPT !.todo = @ \ {y}]
  BY DEF ReplayStep
<1>2. txn.open /\ events' = events
  BY DEF ReplayStep
<1>3. /\ DOMAIN txn = TxnFields /\ LogOK(events) /\ Good(db) /\ ReplayOK(y)
  BY DEF HistoryInv, FineInv, LedgerInv, KernelInv, TxnOK, TxnFields
<1>4. /\ txn'.pending = txn.pending /\ txn'.saved = txn.saved
      /\ txn'.savedEvents = txn.savedEvents /\ txn'.open = txn.open
      /\ txn'.todo = txn.todo \ {y}
  BY <1>1, <1>3 DEF TxnFields
<1>5. LogOK(log) /\ LogFine(log)
  BY <1>2, PendingAppends DEF HistoryInv
<1>6. /\ \A n \in Nodes \ {m} : Told(db.versions, log, n)
      /\ Partly(db.versions, R, txn.todo, m)
  BY <1>2 DEF HistoryInv, Replaying
<1>7. y \in R
  BY <1>6 DEF Partly
<1>8. /\ \A x \in R : Dated(x)
      /\ \A x, z \in R : x.id = z.id => x = z
  BY <1>5, ReplayPlain, ReplayIdsDiffer
<1>9. y.node = m /\ Plain(y.type, y.payload)
  BY <1>5, <1>7, ReplayPlain
<1>10. Replays(events, db, y)
  BY <1>3, <1>9 DEF Replays, ReplayOK
<1>11. \A n \in Nodes \ {m} : y.type # "CREATE" => CutDay(log, n, y.date)
  BY <1>5, <1>7, ReplayDay
<1> HIDE DEF log, R
<1>12. Partly(db'.versions, R, txn.todo \ {y}, m)
  BY <1>1, <1>6, <1>8, <1>9, <1>10, PartlyNext
<1>13. \A n \in Nodes \ {m} : Told(db'.versions, log, n)
  BY <1>1, <1>5, <1>6, <1>9, <1>10, <1>11, ToldElsewhere
<1>14. Replaying'
  BY <1>2, <1>4, <1>12, <1>13 DEF Replaying, log, R
<1>15. CommittedLog' = CommittedLog /\ Committed' = Committed
  BY <1>2, <1>4 DEF CommittedLog, Committed
<1> QED
  BY <1>14, <1>15 DEF HistoryInv

LEMMA NextTargetHistory ==
  ASSUME HistoryInv, FineInv', NextTarget
  PROVE  HistoryInv'
<1>1. /\ txn.open /\ events' = Append(events, txn.pending)
  BY DEF NextTarget, RebuildDone
<1>2. PICK t \in txn.batch :
        StartRebuild([txn EXCEPT !.batch = @ \ {t}], events',
                     RescindOf(txn.pending.node, t, txn.pending.time))
  BY DEF NextTarget
<1>3. DOMAIN txn = TxnFields /\ Good(db)
  BY DEF HistoryInv, FineInv, LedgerInv, KernelInv, TxnOK, TxnFields
<1> DEFINE rest == [txn EXCEPT !.batch = @ \ {t}]
           e == RescindOf(txn.pending.node, t, txn.pending.time)
<1>4. /\ DOMAIN rest = TxnFields /\ rest.saved = txn.saved
      /\ rest.savedEvents = txn.savedEvents
  BY <1>3 DEF TxnFields
<1>5. StartRebuild(rest, events', e) /\ e.node = txn.pending.node
  BY <1>2 DEF RescindOf, Event
<1> HIDE DEF rest, e
<1>6. txn'.open /\ txn'.pending = e
  BY <1>3, <1>4, <1>5 DEF StartRebuild, TxnFields
<1>7. Appends(events', e)
  BY <1>6, PendingAppends DEF Appends, FineInv, PendingFine, LedgerInv, KernelInv, TxnOK
<1>8. \A n \in Nodes \ {e.node} : Told(db.versions, events', n)
  BY <1>1, <1>5 DEF HistoryInv, Replaying
<1>9. /\ Replaying' /\ txn'.saved = txn.saved
      /\ txn'.savedEvents = txn.savedEvents /\ txn'.open
  BY <1>3, <1>4, <1>5, <1>7, <1>8, StartReplaying
<1>10. CommittedLog' = CommittedLog /\ Committed' = Committed
  BY <1>1, <1>9 DEF CommittedLog, Committed
<1> QED
  BY <1>9, <1>10 DEF HistoryInv

LEMMA CommitHistory ==
  ASSUME HistoryInv, FineInv', Commit
  PROVE  HistoryInv'
<1> DEFINE m == txn.pending.node
<1>1. /\ txn.open /\ txn.todo = {} /\ events' = Append(events, txn.pending)
      /\ txn' = NoTxn /\ db' = db
  BY DEF Commit, RebuildDone
<1>2. LogOK(events') /\ LogFine(events')
  BY <1>1, PendingAppends DEF HistoryInv
<1>3. /\ \A n \in Nodes \ {m} : Told(db.versions, events', n)
      /\ Partly(db.versions, ReplayEvents(events', m), {}, m)
  BY <1>1 DEF HistoryInv, Replaying
<1>4. Told(db.versions, events', m)
  BY <1>2, <1>3, PartlyEnds
<1>5. \A n \in Nodes : Told(db'.versions, events', n)
  BY <1>1, <1>3, <1>4
<1>6. ~txn'.open
  BY <1>1 DEF NoTxn
<1> QED
  BY <1>5, <1>6 DEF HistoryInv, Replaying, Committed, CommittedLog

LEMMA HistoryStep ==
  ASSUME HistoryInv, [Next]_vars
  PROVE  HistoryInv'
<1>1. FineInv /\ FineInv' /\ KernelInv
  BY FineStep DEF HistoryInv, FineInv, LedgerInv
<1>2. CASE Wait
  <2>1. events' = events /\ db' = db /\ txn' = txn
    BY <1>2 DEF Wait
  <2> QED
    BY <1>1, <2>1 DEF HistoryInv, Replaying, Committed, CommittedLog
<1>3. CASE SubmitBase
  BY <1>1, <1>3, SubmitBaseHistory
<1>4. CASE Rescind \/ Correct \/ StatusCorrection \/ RescindUnit
  BY <1>1, <1>4, CorrectionsBeginFine, BeginRebuildHistory
<1>5. CASE ReplayStep
  BY <1>1, <1>5, ReplayStepHistory
<1>6. CASE NextTarget
  BY <1>1, <1>6, NextTargetHistory
<1>7. CASE Commit
  BY <1>1, <1>7, CommitHistory
<1>8. CASE Abort
  <2>1. /\ txn.open /\ events' = txn.savedEvents /\ db' = txn.saved /\ ~txn'.open
    BY <1>8 DEF Abort, NoTxn
  <2> QED
    BY <1>1, <2>1 DEF HistoryInv, Replaying, Committed, CommittedLog
<1>9. CASE UNCHANGED vars
  BY <1>1, <1>9 DEF vars, HistoryInv, Replaying, Committed, CommittedLog
<1> QED
  BY <1>2, <1>3, <1>4, <1>5, <1>6, <1>7, <1>8, <1>9 DEF Next

LEMMA HistoryInit == Init => HistoryInv
<1> SUFFICES ASSUME Init PROVE HistoryInv
  OBVIOUS
<1>1. /\ ~txn.open /\ events = <<>> /\ db.versions = {} /\ DOMAIN <<>> = {}
  BY DEF Init, NoTxn, EmptyProjection
<1>2. ASSUME NEW n
      PROVE  Told({}, <<>>, n)
  <2>1. ReplayEvents(<<>>, n) = {}
    BY <1>1 DEF ReplayEvents, EffectiveIds
  <2>2. /\ ShowsSet(Attrs(<<>>, n), {}, {}, n) /\ ShowsSet(Own, {}, {}, n)
        /\ ShowsSet({}, {}, {}, n)
        /\ Lives({}, {}, n) /\ Once({}) /\ Divided({}, {}, n)
    BY DEF ShowsSet, Lives, ExistsAt, Once, Divided
  <2>3. Started({}, <<>>, n)
    BY DEF Started
  <2> QED
    BY <2>1, <2>2, <2>3 DEF Told
<1> QED
  BY <1>1, <1>2, FineInit DEF HistoryInv, Replaying, Committed, CommittedLog

(* Whatever base events, corrections and rescinds come, in whatever order  *)
(* of dates, of whichever units, and whenever a rebuild fails: a unit whose*)
(* events since its last rebuild came in the order of their dates shows on *)
(* every day what its effective events tell.                               *)
THEOREM HistoryAlwaysShown == Spec => []HistoryShown
<1>1. HistoryInv => HistoryShown
  <2>1. SUFFICES ASSUME HistoryInv, NEW n \in Nodes, InOrder(CommittedLog, n)
                 PROVE  ShowsHistory(IF MovesInOrder(CommittedLog, n) THEN Attributes
                                     ELSE Attributes \ {"parent"},
                                     CommittedLog, Committed.versions, n)
    BY DEF HistoryShown
  <2>2. LogOK(CommittedLog) /\ LogFine(CommittedLog)
    BY <2>1 DEF HistoryInv, FineInv, LedgerInv, KernelInv, TxnOK, CommittedLog
  <2>3. Told(Committed.versions, CommittedLog, n)
    BY <2>1 DEF HistoryInv
  <2>4. ShowsSet(Attrs(CommittedLog, n), ReplayEvents(CommittedLog, n),
                 Committed.versions, n)
    BY <2>1, <2>3 DEF Told
  <2>5. ShowsHistory(Attrs(CommittedLog, n), CommittedLog, Committed.versions, n)
    BY <2>2, <2>4, ShownHistory
  <2> QED
    BY <2>5 DEF Attrs
<1>2. Spec => []HistoryInv
  BY HistoryInit, HistoryStep, PTL DEF Spec
<1> QED
  BY <1>1, <1>2, PTL

(* A RENAME or SET_BUSINESS_UNIT may come for any day, before or after what*)
(* the unit already has: it shows up to the day on which a later event of  *)
(* its type takes over, and that one from then on, through every rebuild.  *)
THEOREM BackdatingAlwaysSafe == Spec => []BackdatingSafe
<1>1. HistoryInv => BackdatingSafe
  <2>1. SUFFICES ASSUME HistoryInv, NEW n \in Nodes, SetByOwnTypes(CommittedLog, n)
                 PROVE  ShowsHistory({"name", "bu"}, CommittedLog, Committed.versions, n)
    BY DEF BackdatingSafe
  <2>2. LogOK(CommittedLog) /\ LogFine(CommittedLog)
    BY <2>1 DEF HistoryInv, FineInv, LedgerInv, KernelInv, TxnOK, CommittedLog
  <2>3. Told(Committed.versions, CommittedLog, n)
    BY <2>1 DEF HistoryInv
  <2>4. ShowsSet(Own, ReplayEvents(CommittedLog, n), Committed.versions, n)
    BY <2>1, <2>3 DEF Told
  <2>5. ShowsHistory(Own, CommittedLog, Committed.versions, n)
    BY <2>2, <2>4, ShownHistory
  <2> QED
    BY <2>5 DEF Own
<1>2. Spec => []HistoryInv
  BY HistoryInit, HistoryStep, PTL DEF Spec
<1> QED
  BY <1>1, <1>2, PTL
=============================================================================
